SPECIFICATION RequestsSpec
CONSTANTS
    Holders = {m1, m2, s1}
    Subrequests = {s1}
    CountMax = 5
    Reserve = 2
    NativeMax = 2
    PhaseMax = 1
    Nil = Nil
    Documented = TRUE
INVARIANTS CountExact HeldRequestLives ContextsExact ReadsBack PeerExact
PROPERTIES FramingMatchesBody
CHECK_DEADLOCK FALSE

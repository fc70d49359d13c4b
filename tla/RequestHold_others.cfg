SPECIFICATION Spec
CONSTANTS
  Holders = {m1, m2, s1}
  Subrequests = {s1}
  CountMax = 5
  Reserve = 2
  NativeMax = 2
  PhaseMax = 1
  Documented = FALSE
INVARIANT HeldRequestLives
CHECK_DEADLOCK FALSE

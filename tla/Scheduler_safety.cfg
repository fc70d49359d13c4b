SPECIFICATION Spec
CONSTANTS
    Tasks = {t1, t2}
    Threads = {h1, h2}
    NoTask = NoTask
    MaxLeases = 2
INVARIANTS WorkIsAnnounced StoppedIsEmpty
PROPERTY VerdictIsFinal

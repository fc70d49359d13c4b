SPECIFICATION Spec
CONSTANTS
    Events = {e1, e2}
    NoEvent = NoEvent
    Reentrant = TRUE
INVARIANT ShutdownIsPermanent
CHECK_DEADLOCK FALSE

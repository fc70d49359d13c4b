SPECIFICATION EventsSpec
CONSTANTS
    Events = {e1, e2}
    NoEvent = NoEvent
    Reentrant = TRUE
INVARIANTS WaitsExact PeersExact
PROPERTIES ImplementsOwnedCallback TimersExact
CHECK_DEADLOCK FALSE

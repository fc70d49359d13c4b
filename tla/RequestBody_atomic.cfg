SPECIFICATION Spec
CONSTANTS
    Keys = {"", "Host", "Content-Length"}
    Pieces = {0, 12, 20}
    MaxUsize = 31
    MaxOff = 15
    MaxCount = 4
    Capacities = {0, 1}
    MaxArrays = 3
PROPERTY ReplacedAtomically
CHECK_DEADLOCK FALSE

SPECIFICATION FairSpec
CONSTANTS
    Tasks = {t1}
    Threads = {h1}
    NoTask = NoTask
    MaxLeases = 1
PROPERTY FailureIsTerminal

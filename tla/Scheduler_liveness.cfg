SPECIFICATION FairSpec
CONSTANTS
    Tasks = {t1, t2}
    Threads = {h1}
    NoTask = NoTask
    MaxLeases = 1
PROPERTIES WokenTaskRuns CancelSettles ReleaseFinishes

SPECIFICATION TasksSpec
CONSTANTS
    Threads = {1, 2}
    Leases = {l1, l2, l3}
    MaxGenerations = 3
INVARIANTS LeaseKeepsScheduler NoLostWake
PROPERTIES ReleasedIsReplaced TaskEnds ResolutionsExact SleepsExact HandlersExact SubrequestsExact

SPECIFICATION Spec
CONSTANTS
    Threads = {t1, t2, t3}
    MaxNetwork = 1
    MaxRelease = 2
    Ops = {"upgrade", "rollback"}
    OneAtATime = TRUE
    Failing <- RestoreFails
    MaxFailures = 1
    MaxCrashes = 0
    MaxJobs = 3
INVARIANTS
    DataRecoverable
SYMMETRY Symmetry
CHECK_DEADLOCK FALSE

SPECIFICATION Spec
CONSTANTS
    Threads = {t1, t2}
    MaxNetwork = 1
    MaxRelease = 2
    Ops = {"apply", "deployment", "upgrade"}
    OneAtATime = FALSE
    Failing <- EverythingFails
    MaxFailures = 1
    MaxCrashes = 1
    MaxJobs = 3
INVARIANTS
    DataRecoverable
SYMMETRY Symmetry
CHECK_DEADLOCK FALSE

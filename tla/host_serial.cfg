SPECIFICATION Spec
CONSTANTS
    Threads = {t1, t2, t3}
    MaxNetwork = 2
    MaxRelease = 2
    Ops = {"apply", "deployment", "rollback", "upgrade"}
    OneAtATime = TRUE
    Failing <- NoRollbackFails
    MaxFailures = 1
    MaxCrashes = 1
    MaxJobs = 3
INVARIANTS
    TypeOK
    CoherentRelease
    RollbackIntact
    
    DeploymentRestored
    JobsSurvive
SYMMETRY Symmetry
CHECK_DEADLOCK FALSE

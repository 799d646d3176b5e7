\* Crashes anywhere, file errors, a task taken back from a slow worker.
CONSTANTS
    Worker = {w1, w2, w3}
    NMap = 2
    NReduce = 2
    CrashPoints = {"map", "reduce", "remove", "report"}
    MaxCrashes = 1
    MaxFailures = 1
    MaxEarly = 1
SPECIFICATION FairSpec
INVARIANTS TypeOK OutputComplete DoneCounted ResultsKept
PROPERTIES FinishedIsFinal JobEnds
CHECK_DEADLOCK FALSE

\* One task taken back from a slow worker.
CONSTANTS
    Worker = {w1, w2}
    NMap = 1
    NReduce = 1
    CrashPoints = {}
    MaxCrashes = 0
    MaxFailures = 0
    MaxEarly = 1
SPECIFICATION FairSpec
PROPERTIES RerunsSucceed
CHECK_DEADLOCK FALSE

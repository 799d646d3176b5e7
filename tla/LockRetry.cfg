\* Two clients that compete for a lock, with lost requests and replies.
CONSTANTS
    Client = {c1, c2}
    Key = {l}
    Value = {c1, c2}
    NoValue = NoValue
    MaxVersion = 5
    LockName = l
SPECIFICATION FairSpec
INVARIANTS MutualExclusion
PROPERTIES MutexImplemented SomebodyAcquires
CHECK_DEADLOCK FALSE

\* Two leaders, two log indexes, a peer that lags behind.
CONSTANTS
    Server = {s1, s2, s3}
    Command = {a, b}
    Nil = Nil
    Goroutine = {g1}
    MaxTerm = 2
    MaxIndex = 2
    MaxVoteCalls = 2
    Crashing = {}
    Applying = {}
SPECIFICATION Spec
SYMMETRY Symmetry
VIEW View
INVARIANTS LogMatching StateMachineSafety CommitCoveredByEntries
CHECK_DEADLOCK FALSE

\* Four elections over one log index: entries of earlier terms, conflicting logs.
CONSTANTS
    Server = {s1, s2, s3}
    Command = {a}
    Nil = Nil
    Goroutine = {g1}
    MaxTerm = 4
    MaxIndex = 1
    MaxVoteCalls = 2
    Crashing = {}
    Applying = {}
SPECIFICATION Spec
SYMMETRY Symmetry
VIEW View
INVARIANTS LeaderCompleteness RejectionMovesOn
PROPERTIES CommittedStays
CHECK_DEADLOCK FALSE

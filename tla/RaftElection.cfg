\* Two elections of three peers at once, of different peers or of the same one in two terms;
\* everybody may crash.
CONSTANTS
    Server = {s1, s2, s3}
    Command = {a}
    Nil = Nil
    Goroutine = {g1}
    MaxTerm = 2
    MaxIndex = 0
    MaxVoteCalls = 4
    Crashing = {s1, s2, s3}
    Applying = {}
SPECIFICATION Spec
SYMMETRY Symmetry
VIEW View
INVARIANTS ElectionSafety
PROPERTIES VotesAreKept
CHECK_DEADLOCK FALSE

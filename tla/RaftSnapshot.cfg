\* One leader that compacts its log, a follower that lags behind, or has a conflicting log,
\* and crashes and applies; two calls to the same peer in flight, whose replies overtake each
\* other.
CONSTANTS
    Server = {s1, s2, s3}
    Command = {a, b}
    Nil = Nil
    Goroutine = {g1, g2}
    MaxTerm = 3
    MaxIndex = 2
    MaxVoteCalls = 0
    Crashing = {s3}
    Applying = {s1, s3}
    Leader = s1
    Voters = {s2}
SPECIFICATION SafetySpec
SYMMETRY Symmetry
VIEW View
CONSTRAINT CallsToOnePeer
INVARIANTS TypeOK DurableState MatchIndexSound IndexesInRange ApplyInOrder NoLostWakeup StateMachineSafety
CHECK_DEADLOCK FALSE

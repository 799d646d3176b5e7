\* A leader in office for good and a follower with a conflicting log.
CONSTANTS
    Server = {s1, s2, s3}
    Command = {a}
    Nil = Nil
    Goroutine = {g1}
    MaxTerm = 3
    MaxIndex = 2
    MaxVoteCalls = 0
    Crashing = {}
    Applying = {s1, s3}
    Leader = s1
    Voters = {s2}
SPECIFICATION DivergedSpec
PROPERTIES EverythingIsApplied
CHECK_DEADLOCK FALSE

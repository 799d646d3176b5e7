\* Three groups at most, joining and leaving one or two at a time, a fourth that clashes
\* with two of them, and shards that do not divide evenly.
CONSTANTS
    a = a
    b = b
    c = c
    NShards = 7
    Gid = {1, 2, 3, 4}
    Servers <- MCServers
    MaxArgs = 2
    MaxNum = 4
SPECIFICATION FairSpec
INVARIANTS TypeOK SuccessChecksOut MembersHaveShards OnlyNeededMoves
PROPERTIES CallsEnd
CHECK_DEADLOCK FALSE

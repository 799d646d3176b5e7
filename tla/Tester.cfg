\* Server s1 is shut down, started again, disconnected and connected while a client's call
\* and one between the servers are under way.
CONSTANTS
    s1 = s1
    s2 = s2
    clntCall = clntCall
    peerCall = peerCall
    Server = {s1, s2}
    Call = {clntCall, peerCall}
    Clnt = Clnt
    MaxStarts = 2
    Restarting = {s1}
    Unplugged = {s1}
    Conn <- MCConn
    Routes <- MCRoutes
SPECIFICATION Spec
INVARIANTS TypeOK AnswersMatch NobodyStranded AckedIsPersisted ServicesFirst
CHECK_DEADLOCK FALSE

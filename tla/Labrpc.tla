------------------------------- MODULE Labrpc -------------------------------
(***************************************************************************)
(* The network of src/src/labrpc/labrpc.go: ClientEnds that are enabled or *)
(* not, servers that are added and deleted, and a processReq() goroutine   *)
(* per call that hands the request to the server and stops waiting when    *)
(* the server is gone.  A server's dispatch is DaemonClnt.forward(), a     *)
(* SendReceive() over the connection to the server's process.              *)
(*                                                                         *)
(* Requests and replies may be lost or delayed whenever they may be on an  *)
(* unreliable network with long reordering.                                *)
(***************************************************************************)
EXTENDS Demux

CONSTANTS
    Server,
    MaxStarts,      \* bound: how often a server is started
    Clnt,           \* the test's clients, as the caller of a call
    Routes          \* the ways the calls may go: who makes a call, and to which server

ASSUME LabrpcAssumption ==
    /\ MaxStarts \in Nat \ {0} /\ Clnt \notin Server
    /\ Routes \subseteq [Call -> [from : Server \cup {Clnt}, to : Server]]

Incarnation == 1 .. MaxStarts

\* The connection from the tester to a server's process, and the one back.
In(s, i)  == <<"in", s, i>>
Out(s, i) == <<"out", s, i>>

\* The ClientEnd of one incarnation of a server, or of a client, to a server.
End(s, i, t) == <<s, i, t>>

VARIABLES
    route,      \* the one of Routes that is taken
    enabled,    \* Network.enabled: the ends that are
    servers,    \* Network.servers: the incarnation that was added, 0 for nil
    call        \* per call the local variables of Call() and processReq()

netVars == <<route, enabled, servers, call>>

Caller(c) == route[c].from
Target(c) == route[c].to

\* The ends the clients have made, one for each server they call.
ClntEnds == {End(Clnt, 0, Target(c)) : c \in {c \in Call : Caller(c) = Clnt}}

Idle == [at |-> "idle", end |-> <<>>, server |-> 0, ok |-> FALSE]

\* The answer on req.replyCh; how long it is delayed makes no difference to anybody else.
Answer(c, ok) == call' = [call EXCEPT ![c].at = "returned", ![c].ok = ok]

\* Enable(), for a set of ends.
Enable(ends)  == enabled' = enabled \cup ends
Disable(ends) == enabled' = enabled \ ends

AddServer(s, i) == servers' = [servers EXCEPT ![s] = i]
DeleteServer(s) == servers' = [servers EXCEPT ![s] = 0]

DeadNever(c) == FALSE                                             \* mutant
IsServerDead(c) == call[c].end \notin enabled \/ servers[Target(c)] # call[c].server

-----------------------------------------------------------------------------
(* ONE CALL *)

\* Call() or Forward() hands the request over, and its processReq() finds the end
\* disabled or the server not there, or the request is lost.
Refuse(c, end) ==
    /\ call[c] = Idle
    /\ call' = [call EXCEPT ![c] = [at |-> "returned", end |-> end, server |-> 0, ok |-> FALSE]]
    /\ UNCHANGED <<route, enabled, servers, demuxVars>>

\* ... or gives the request to the server it has found, in a goroutine of its own.
Dispatch(c, end) ==
    LET i == servers[Target(c)]
    IN  /\ call[c] = Idle
        /\ end \in enabled /\ i # 0
        /\ call' = [call EXCEPT ![c] = [at |-> "wait", end |-> end, server |-> i, ok |-> FALSE]]
        /\ Goes(In(Target(c), i), c, "start")
        /\ UNCHANGED <<route, enabled, servers, nextTag, calls, closed, reader, socketVars>>

Send(c, end) == Refuse(c, end) \/ Dispatch(c, end)

\* ... 100 ms have passed and the server is gone.
GiveUp(c) ==
    /\ call[c].at = "wait" /\ IsServerDead(c)
    /\ Answer(c, FALSE)
    /\ UNCHANGED <<route, enabled, servers, demuxVars>>

\* ... that goroutine has an answer: after a last look at the server it is passed on, or lost.
Pass(c) ==
    LET said == sending[In(Target(c), call[c].server)][c].at
    IN  /\ call[c].at = "wait" /\ said \in {"ok", "failed"}
        /\ \E ok \in {FALSE, said = "ok" /\ ~IsServerDead(c)} : Answer(c, ok)
        /\ UNCHANGED <<route, enabled, servers, demuxVars>>

-----------------------------------------------------------------------------
(* SPECIFICATION *)

LabrpcInit ==
    /\ route \in Routes
    /\ enabled = ClntEnds \cup {End(s, 1, t) : s, t \in Server}
    /\ servers = [s \in Server |-> 1]
    /\ call = [c \in Call |-> Idle]

ProcessReq(c) == GiveUp(c) \/ Pass(c)
=============================================================================

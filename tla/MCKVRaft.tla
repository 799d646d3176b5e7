------------------------------ MODULE MCKVRaft ------------------------------
(***************************************************************************)
(* Small instances of KVRaft for TLC.                                      *)
(***************************************************************************)
EXTENDS KVRaft

\* The servers take turns to lead, so that logs diverge and are given up again.
Turns == [t \in 1 .. MaxTerm |-> {(t + 1) % 2}]

\* bound: the last command only while no server but the first leader has taken part.
LastCommand ==
    IF \E s \in Server : \A p \in Server \ {s} : term[p] = 0 THEN MaxOps ELSE MaxOps - 1
FewCommands == started =< LastCommand

(***************************************************************************)
(* What a Clerk returned is never read again; nor is firstRpc by a Get.    *)
(* After the last command nobody calls a server any more, nor do handlers  *)
(* that are late.  States that differ in what nobody reads are not told    *)
(* apart.                                                                  *)
(***************************************************************************)
Over == started >= LastCommand
Relevant(me) ==
    LET server == IF Over THEN 0 ELSE me.leader
        first  == me.op = "Get" \/ (Over /\ me.at = "call") \/ me.firstRpc
    IN  IF me.at = "idle" THEN <<"idle", server>>
        ELSE <<me.at, ReqOf(me), me.id, server, first>>
View == <<raftVars, rsmVars, IF Over THEN {} ELSE late,
          [c \in Client |-> Relevant(clerk[c])], started, service, outcome>>
=============================================================================

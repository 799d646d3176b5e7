------------------------------ MODULE MCTester ------------------------------
(***************************************************************************)
(* A small instance of Tester for TLC: a server that is restarted, called  *)
(* by a client, and calling the other server or called by it.              *)
(***************************************************************************)
EXTENDS Tester, TLC

CONSTANTS s1, s2, clntCall, peerCall

MCConn   == {"in", "out"} \X Server \X (1 .. MaxStarts)
FromTo(from, to) == [from |-> from, to |-> to]

\* s1 is the one that is called, or calls as well.
MCRoutes ==
    {[c \in Call |-> IF c = peerCall THEN FromTo(s2, s1) ELSE FromTo(Clnt, s1)],
     [c \in Call |-> IF c = peerCall THEN FromTo(s1, s2) ELSE FromTo(Clnt, s1)]}
=============================================================================

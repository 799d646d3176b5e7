--------------------------------- MODULE KV ---------------------------------
(***************************************************************************)
(* The key/value server of src/src/kvsrv1 and its Clerk, over a network    *)
(* that loses requests and replies.  A Clerk has one call at a time and    *)
(* sends it again until it gets an answer.  labrpc gives up a handler that *)
(* is running only when its end is disabled or its server deleted, which   *)
(* no test of kvsrv1 does: here a handler runs before Call() returns or    *)
(* not at all, so a call that is given up is not run later.                *)
(***************************************************************************)
EXTENDS Naturals

CONSTANTS
    Client,       \* clerks
    Key, Value,
    NoValue,      \* the empty string
    MaxVersion    \* bound: the versions clients pass to Put

ASSUME KVAssumption == NoValue \notin Value /\ MaxVersion \in Nat

VARIABLES
    data,         \* KVServer.data; version 0: the key is not in the map
    clerk,        \* per client the local variables of Get() or Put()
    performed     \* history: the server has performed the Put that is in progress

kvVars == <<data, clerk, performed>>

Reply(err, value, version) == [err |-> err, value |-> value, version |-> version]
NoReply == Reply("pending", NoValue, 0)

\* A clerk with nothing to do; reply is what the last operation returned.
Idle(reply) == [at |-> "idle", op |-> "none", key |-> "none", value |-> NoValue, version |-> 0,
                retried |-> FALSE, reply |-> reply]

-----------------------------------------------------------------------------
(* THE SERVER *)

\* KVServer.Get()
GetReply(e) ==
    IF e.version = 0 THEN Reply("ErrNoKey", NoValue, 0) ELSE Reply("OK", e.value, e.version)

PutErrAnyVersion(e, version) == "OK"                              \* mutant
\* KVServer.Put(): the error it answers with.
PutErr(e, version) ==
    IF e.version = version THEN "OK" ELSE IF e.version = 0 THEN "ErrNoKey" ELSE "ErrVersion"

ServerGet(c) ==
    LET me == clerk[c]
    IN  /\ me.at = "call" /\ me.op = "Get"
        /\ clerk' = [clerk EXCEPT ![c].at = "reply", ![c].reply = GetReply(data[me.key])]
        /\ UNCHANGED <<data, performed>>

ServerPut(c) ==
    LET me  == clerk[c]
        err == PutErr(data[me.key], me.version)
    IN  /\ me.at = "call" /\ me.op = "Put"
        /\ clerk' = [clerk EXCEPT ![c].at = "reply", ![c].reply = Reply(err, NoValue, 0)]
        /\ IF err = "OK"
             THEN /\ data' = [data EXCEPT ![me.key] = [value |-> me.value, version |-> @.version + 1]]
                  /\ performed' = [performed EXCEPT ![c] = TRUE]
             ELSE UNCHANGED <<data, performed>>

-----------------------------------------------------------------------------
(* THE CLERK *)

\* Clerk.Get() and Clerk.Put(), up to the first Call().
SendGet(c, key) ==
    /\ clerk' = [clerk EXCEPT ![c] = [Idle(NoReply) EXCEPT !.at = "call", !.op = "Get", !.key = key]]
    /\ performed' = [performed EXCEPT ![c] = FALSE]

SendPut(c, key, value, version) ==
    /\ clerk' = [clerk EXCEPT ![c] = [Idle(NoReply) EXCEPT !.at = "call", !.op = "Put", !.key = key,
                                                           !.value = value, !.version = version]]
    /\ performed' = [performed EXCEPT ![c] = FALSE]

\* Call() returns false: the request, or the reply to it, is lost.  Clerk sends it again.
CallFails(c) ==
    /\ clerk[c].at \in {"call", "reply"}
    /\ clerk' = [clerk EXCEPT ![c].at = "call", ![c].reply = NoReply,
                              ![c].retried = clerk[c].op = "Put"]
    /\ UNCHANGED <<data, performed>>

ErrAsAnswered(c) == clerk[c].reply.err                            \* mutant
\* What Clerk.Put() makes of the answer: ErrVersion for a call that was sent again may
\* mean that it was performed the first time.
ErrOf(c) ==
    IF clerk[c].op = "Put" /\ clerk[c].reply.err = "ErrVersion" /\ clerk[c].retried
      THEN "ErrMaybe" ELSE clerk[c].reply.err

\* Clerk.Get() or Clerk.Put() can return, with this result.
Returns(c)  == clerk[c].at = "reply"
ResultOf(c) == [clerk[c].reply EXCEPT !.err = ErrOf(c)]

Network == \E c \in Client : ServerGet(c) \/ ServerPut(c) \/ CallFails(c)

-----------------------------------------------------------------------------
(* CLIENTS THAT GET AND PUT WHATEVER THEY LIKE *)

KVInit ==
    /\ data = [k \in Key |-> [value |-> NoValue, version |-> 0]]
    /\ clerk = [c \in Client |-> Idle(NoReply)]
    /\ performed = [c \in Client |-> FALSE]

Get(c, key) == clerk[c].at = "idle" /\ SendGet(c, key) /\ UNCHANGED data

Put(c, key, value, version) ==
    clerk[c].at = "idle" /\ SendPut(c, key, value, version) /\ UNCHANGED data

Return(c) ==
    /\ Returns(c)
    /\ clerk' = [clerk EXCEPT ![c] = Idle(ResultOf(c))]
    /\ performed' = [performed EXCEPT ![c] = FALSE]
    /\ UNCHANGED data

KVNext ==
    \/ \E c \in Client, key \in Key : Get(c, key)
    \/ \E c \in Client, key \in Key, value \in Value, version \in 0 .. MaxVersion :
          Put(c, key, value, version)
    \/ \E c \in Client : Return(c)
    \/ Network

KVSpec == KVInit /\ [][KVNext]_kvVars

-----------------------------------------------------------------------------
(* PROPERTIES *)

\* The operation a client has in progress, seen from outside.
CallOf(me) ==
    CASE me.op = "Get" -> [type |-> "Get", key |-> me.key]
      [] me.op = "Put" -> [type |-> "Put", key |-> me.key, value |-> me.value, version |-> me.version]
      [] me.op = "none" -> [type |-> "none"]

Service == INSTANCE KVService WITH
    data <- data,
    op <- [c \in Client |->
             [call |-> CallOf(clerk[c]),
              outcome |-> IF performed[c] THEN Reply("OK", NoValue, 0)
                          ELSE IF clerk[c].at = "reply" THEN clerk[c].reply ELSE NoReply]],
    result <- [c \in Client |-> IF clerk[c].at = "idle" THEN clerk[c].reply ELSE NoReply]

\* Clerk and server together are the service: sending a Put again never performs it
\* twice, and a definite answer is never wrong, whatever was lost in between.
ServiceImplemented == Service!Spec
=============================================================================

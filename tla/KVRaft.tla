------------------------------- MODULE KVRaft -------------------------------
(***************************************************************************)
(* The replicated key/value service of src/src/kvraft1: Clerks, the        *)
(* key/value servers, and the RSM between a server and its Raft peer.      *)
(*                                                                         *)
(* A goroutine that runs Submit() is a member of submits from the moment   *)
(* it has registered its waiter; the RPC handler around it ends with it.   *)
(* A Clerk whose Call() returns false goes on to the next server, while    *)
(* the handler it left behind keeps waiting; a handler that had not yet    *)
(* come to Start() when labrpc gave up on it is a member of late, and may  *)
(* come to Start() at any time, when its Clerk has long returned.          *)
(***************************************************************************)
EXTENDS RaftLog

CONSTANTS
    Client,
    Key, Value,
    NoValue,      \* the empty string
    MaxVersion,   \* bound: the versions clients pass to Put
    MaxRaftState, \* maxraftstate, counted in entries of the log
    Putter, Getter, \* bound: the clients that call Put, and Get
    MaxOps,       \* bound: commands given to Start(), and no call after the last of them
    MaxLate,      \* bound: members of late
    Crashing      \* bound: the servers that may crash

\* Clerk.servers is an array: the servers are numbered.
ASSUME KVRaftAssumption ==
    /\ IsFiniteSet(Server) /\ Server # {}
    /\ Server = 0 .. Cardinality(Server) - 1
    /\ NoValue \notin Value
    /\ MaxTerm \in Nat /\ MaxVersion \in Nat /\ MaxOps \in Nat /\ MaxLate \in Nat
    /\ Crashing \subseteq Server
    /\ Putter \cup Getter = Client

VARIABLES
    data,         \* KVServer.data
    appliedIndex, \* RSM.appliedIndex
    waiter,       \* RSM.waiter: per index the id of the operation, 0: none
    reader,       \* where in its loop RSM.reader() is, and its local variables
    submits,      \* the goroutines waiting in Submit(), and their channels
    late,         \* the handlers labrpc has given up before they called Start(), numbered
    clerk,        \* the local variables of Clerk.Get() or Clerk.Put(), and Clerk.leader
    started,      \* how many operations have been given to Start(), for newOpID()
    service,      \* history: the data after everything that is committed
    outcome       \* history: per client what its operation has come to

rsmVars == <<data, appliedIndex, waiter, reader, submits>>
vars == <<raftVars, rsmVars, late, clerk, started, service, outcome>>

Index == 1 .. MaxOps

-----------------------------------------------------------------------------
(* THE STATE MACHINE *)

Reply(err, value, version) == [err |-> err, value |-> value, version |-> version]
Pending == Reply("pending", NoValue, 0)
WrongLeader == Reply("ErrWrongLeader", NoValue, 0)
NoData == [k \in Key |-> [value |-> NoValue, version |-> 0]]

\* KVServer.DoOp(): the reply ...
DoOpReply(d, req) ==
    LET e == d[req.key]
    IN  IF req.op = "Get"
          THEN IF e.version = 0 THEN Reply("ErrNoKey", NoValue, 0) ELSE Reply("OK", e.value, e.version)
          ELSE Reply(IF e.version = req.version THEN "OK"
                     ELSE IF e.version = 0 THEN "ErrNoKey" ELSE "ErrVersion", NoValue, 0)

\* ... and the data.
Changes(req, reply) == req.op = "Put" /\ reply.err = "OK"
DoOpData(d, req) ==
    IF Changes(req, DoOpReply(d, req))
      THEN [d EXCEPT ![req.key] = [value |-> req.value, version |-> @.version + 1]]
      ELSE d

-----------------------------------------------------------------------------
(* THE CLERK *)

\* Between two operations only the result of the last one and ck.leader are left.
Rest(server, result) ==
    [at |-> "idle", op |-> "none", key |-> "none", value |-> NoValue, version |-> 0,
     firstRpc |-> TRUE, leader |-> server, id |-> 0, reply |-> result]

\* The Clerk begins an operation.
Begin(c, op, key, value, version) ==
    /\ clerk[c].at = "idle" /\ started < MaxOps
    /\ clerk' = [clerk EXCEPT ![c] =
          [at |-> "call", op |-> op, key |-> key, value |-> value, version |-> version,
           firstRpc |-> TRUE, leader |-> clerk[c].leader, id |-> 0, reply |-> Pending]]
    /\ UNCHANGED <<raftVars, rsmVars, late, started, service, outcome>>

Get(c, key) == Begin(c, "Get", key, NoValue, 0)

\* Clients pass 0 or a version they know of from an answer, so one the key has reached.
Put(c, key, value, version) ==
    version =< service[key].version /\ Begin(c, "Put", key, value, version)

\* The request a Clerk makes.
ReqOf(me) == [op |-> me.op, key |-> me.key, value |-> me.value, version |-> me.version]

\* The call failed, or was answered ErrWrongLeader: on to the next server.
GoOn(c) ==
    /\ clerk' = [clerk EXCEPT ![c].at = "call", ![c].id = 0, ![c].firstRpc = FALSE,
                              ![c].leader = (@ + 1) % Cardinality(Server)]
    /\ outcome' = [outcome EXCEPT ![c] = IF Changes(clerk[c], @) THEN @ ELSE Pending]

\* Call() returns false, before the request or with the answer lost.
CallFails(c) ==
    /\ \/ clerk[c].at = "wait"
       \/ clerk[c].at = "call" /\ started < MaxOps
    /\ GoOn(c)
    /\ UNCHANGED <<raftVars, rsmVars, late, started, service>>

\* Call() returns false: the server was cut off, but the handler is already running.
CallAbandoned(c) ==
    /\ clerk[c].at = "call" /\ started < MaxOps
    /\ \E n \in 1 .. MaxLate :
          /\ \A h \in late : h.n # n
          /\ late' = late \cup {[n |-> n, client |-> c, server |-> clerk[c].leader,
                                 req |-> ReqOf(clerk[c])]}
    /\ GoOn(c)
    /\ UNCHANGED <<raftVars, rsmVars, started, service>>

ErrAsAnswered(me, err) == err                                          \* mutant
\* What the Clerk makes of the answer.
ErrOf(me, err) ==
    IF me.op = "Put" /\ err = "ErrVersion" /\ ~me.firstRpc THEN "ErrMaybe" ELSE err

Return(c, reply) ==
    /\ clerk' = [clerk EXCEPT ![c] = Rest(@.leader, [reply EXCEPT !.err = ErrOf(clerk[c], @)])]
    /\ outcome' = [outcome EXCEPT ![c] = Pending]

-----------------------------------------------------------------------------
(* RSM *)

\* The result r is sent on the channel of the operation id.
Send(ss, id, r) == {IF g.id = id THEN [g EXCEPT !.ch = r] ELSE g : g \in ss}

\* Submit() is left and the handler answers, if the Clerk still waits for it.
Answer(g, reply) ==
    /\ submits' = submits \ {g}
    /\ IF clerk[g.client].at = "wait" /\ clerk[g.client].id = g.id
         THEN IF reply = WrongLeader THEN GoOn(g.client) ELSE Return(g.client, reply)
         ELSE UNCHANGED <<clerk, outcome>>

\* mutant: the operation that waited at the index is forgotten.
DisplacedInSilence(s, index) == submits
\* Whoever still waits at an index that is used again has lost.
Displaced(s, index) ==
    IF waiter[s][index] = 0 THEN submits ELSE Send(submits, waiter[s][index], WrongLeader)

\* Submit() on a leader: Start(), and a waiter at the index it returned.
StartAndWait(s, c, id, req) ==
    LET index == IndexOf(s)
    IN  /\ Start(s, [id |-> id, client |-> c, req |-> req])
        /\ started' = id
        /\ submits' = Displaced(s, index) \cup
              {[id |-> id, client |-> c, server |-> s, index |-> index,
                term |-> term[s], ch |-> Pending]}
        /\ waiter' = [waiter EXCEPT ![s][index] = id]

\* A call reaches a server: KVServer.Get() or Put(), and Submit() until it waits.
Submit(c) ==
    LET me == clerk[c]
        id == started + 1
    IN  /\ me.at = "call" /\ started < MaxOps
        /\ \/ /\ ~leader[me.leader]
              /\ GoOn(c)
              /\ UNCHANGED <<raftVars, waiter, submits, started>>
           \/ /\ StartAndWait(me.leader, c, id, ReqOf(me))
              /\ clerk' = [clerk EXCEPT ![c].at = "wait", ![c].id = id]
              /\ UNCHANGED outcome
        /\ UNCHANGED <<data, appliedIndex, reader, late, service>>

\* The same in a handler that labrpc has given up: nobody waits for its answer.
LateSubmit(h) ==
    /\ started < MaxOps
    /\ late' = late \ {h}
    /\ \/ ~leader[h.server] /\ UNCHANGED <<raftVars, waiter, submits, started>>
       \/ StartAndWait(h.server, h.client, started + 1, h.req)
    /\ UNCHANGED <<data, appliedIndex, reader, clerk, service, outcome>>

\* Submit() receives its result.
SubmitReceive(g) ==
    /\ g.ch # Pending
    /\ Answer(g, g.ch)
    /\ UNCHANGED <<raftVars, data, appliedIndex, waiter, reader, late, started, service>>

\* mutant: only the loss of leadership is noticed, not a new term.
LostLeadershipOnly(g) == ~leader[g.server]
\* What Submit()'s ticker asks GetState() for.
LostLeadership(g) == ~leader[g.server] \/ term[g.server] # g.term

\* Submit() gives up, unless its waiter is gone: then the result is on its way.
SubmitGivesUp(g) ==
    /\ LostLeadership(g)
    /\ waiter[g.server][g.index] = g.id
    /\ waiter' = [waiter EXCEPT ![g.server][g.index] = 0]
    /\ Answer(g, WrongLeader)
    /\ UNCHANGED <<raftVars, data, appliedIndex, reader, late, started, service>>

\* KVServer.Snapshot() and Restore(): all of the data.
Snapshot(s) == data[s]
Restore(s)  == data' = [data EXCEPT ![s] = snapshot[s].data]

AtRest == [at |-> "idle", index |-> 0, id |-> 0, to |-> 0, reply |-> Pending]
Applied(index) == [AtRest EXCEPT !.at = "snapshot", !.index = index]

\* reader(): a command, applied by DoOp().
ReaderDoOp(s) ==
    LET index == lastApplied[s] + 1
        req == Command(s).req
    IN  /\ reader[s].at = "idle" /\ HasCommand(s)
        /\ SendCommand(s)
        /\ IF index > appliedIndex[s]
             THEN /\ data' = [data EXCEPT ![s] = DoOpData(data[s], req)]
                  /\ appliedIndex' = [appliedIndex EXCEPT ![s] = index]
                  /\ reader' = [reader EXCEPT ![s] =
                        [at |-> "notify", index |-> index, id |-> Command(s).id, to |-> 0,
                         reply |-> DoOpReply(data[s], req)]]
             ELSE UNCHANGED <<data, appliedIndex, reader>>
        /\ UNCHANGED <<waiter, submits, late, clerk, started, service, outcome>>

\* notifyWaiter(): the waiter at the index is taken out, under the lock.
ReaderNotify(s) ==
    LET me == reader[s]
        w  == waiter[s][me.index]
    IN  /\ me.at = "notify"
        /\ waiter' = [waiter EXCEPT ![s][me.index] = 0]
        /\ reader' = [reader EXCEPT ![s] =
                      IF w = 0 THEN Applied(me.index) ELSE [me EXCEPT !.at = "send", !.to = w]]
        /\ UNCHANGED <<raftVars, data, appliedIndex, submits, late, clerk, started, service, outcome>>

\* mutant: whoever waits at the index gets the result.
ResultForAnyone(me) == me.reply
\* mutant: nobody is told when another operation was committed at the index.
ResultForOwnerOnly(me) == IF me.to = me.id THEN me.reply ELSE Pending
\* notifyWaiter(): the result is for the operation that was committed at the index.
ResultFor(me) == IF me.to = me.id THEN me.reply ELSE WrongLeader

ReaderSend(s) ==
    LET me == reader[s]
    IN  /\ me.at = "send"
        /\ submits' = Send(submits, me.to, ResultFor(me))
        /\ reader' = [reader EXCEPT ![s] = Applied(me.index)]
        /\ UNCHANGED <<raftVars, data, appliedIndex, waiter, late, clerk, started, service, outcome>>

\* maybeSnapshot(): a log that has grown too long is compacted up to this index.
ReaderSnapshot(s) ==
    /\ reader[s].at = "snapshot"
    /\ reader' = [reader EXCEPT ![s] = AtRest]
    /\ IF PersistSize(s) >= MaxRaftState
         THEN TakeSnapshot(s, reader[s].index, Snapshot(s))
         ELSE UNCHANGED raftVars
    /\ UNCHANGED <<data, appliedIndex, waiter, submits, late, clerk, started, service, outcome>>

\* reader(): a snapshot.
ReaderRestore(s) ==
    /\ reader[s].at = "idle" /\ pending[s]
    /\ SendSnapshot(s)
    /\ IF snapshot[s].index > appliedIndex[s]
         THEN /\ Restore(s)
              /\ appliedIndex' = [appliedIndex EXCEPT ![s] = snapshot[s].index]
         ELSE UNCHANGED <<data, appliedIndex>>
    /\ UNCHANGED <<waiter, reader, submits, late, clerk, started, service, outcome>>

\* The process is killed; StartKVServer() and MakeRSM() begin again from the snapshot.
Restart(s) ==
    /\ RestartPeer(s)
    /\ Restore(s)
    /\ appliedIndex' = [appliedIndex EXCEPT ![s] = 0]
    /\ waiter' = [waiter EXCEPT ![s] = [i \in Index |-> 0]]
    /\ reader' = [reader EXCEPT ![s] = AtRest]
    /\ submits' = {g \in submits : g.server # s}
    /\ late' = {h \in late : h.server # s}
    /\ UNCHANGED <<clerk, started, service, outcome>>

-----------------------------------------------------------------------------
(* SPECIFICATION *)

\* Raft commits an entry.  If nobody has committed it before, this is the moment the
\* operation takes effect.
CommitOp(s) ==
    LET op  == NextCommitted(s)
        c   == op.client
        out == DoOpReply(service, op.req)
        counts == Changes(op.req, out) \/ (op.id = clerk[c].id /\ outcome[c] = Pending)
    IN  /\ Commit(s)
        /\ service' = IF IsNews(s) THEN DoOpData(service, op.req) ELSE service
        /\ outcome' = IF IsNews(s) /\ counts THEN [outcome EXCEPT ![c] = out] ELSE outcome
        /\ UNCHANGED <<rsmVars, late, clerk, started>>

Init ==
    /\ RaftInit(NoData)
    /\ data = [s \in Server |-> NoData]
    /\ appliedIndex = [s \in Server |-> 0]
    /\ waiter = [s \in Server |-> [i \in Index |-> 0]]
    /\ reader = [s \in Server |-> AtRest]
    /\ submits = {}
    /\ late = {}
    /\ clerk = [c \in Client |-> Rest(0, Pending)]
    /\ started = 0
    /\ service = NoData
    /\ outcome = [c \in Client |-> Pending]

Next ==
    \/ Replicate /\ UNCHANGED <<rsmVars, late, clerk, started, service, outcome>>
    \/ \E s \in Server : \/ CommitOp(s) \/ ReaderDoOp(s) \/ ReaderNotify(s) \/ ReaderSend(s)
                         \/ ReaderSnapshot(s) \/ ReaderRestore(s)
    \/ \E s \in Crashing : Restart(s)
    \/ \E g \in submits : SubmitReceive(g) \/ SubmitGivesUp(g)
    \/ \E h \in late : LateSubmit(h)
    \/ \E c \in Client : Submit(c) \/ CallFails(c) \/ CallAbandoned(c)
    \/ \E c \in Getter, key \in Key : Get(c, key)
    \/ \E c \in Putter, key \in Key, value \in Value, version \in 0 .. MaxVersion :
          Put(c, key, value, version)

Spec == Init /\ [][Next]_vars

-----------------------------------------------------------------------------
(* PROPERTIES *)

\* The operation a client has in progress, seen from outside.
CallOf(me) ==
    CASE me.op = "Get" -> [type |-> "Get", key |-> me.key]
      [] me.op = "Put" -> [type |-> "Put", key |-> me.key, value |-> me.value, version |-> me.version]
      [] me.op = "none" -> [type |-> "none"]

Service == INSTANCE KVService WITH
    data <- service,
    op <- [c \in Client |-> [call |-> CallOf(clerk[c]), outcome |-> outcome[c]]],
    result <- [c \in Client |-> IF clerk[c].at = "idle" THEN clerk[c].reply ELSE Pending]

\* The replicas together are one linearizable service: an operation takes effect when
\* it is committed, at most once although the Clerk may have given it to several
\* leaders, never after the Clerk has returned although handlers it has given up may
\* still call Start(), and the Clerk returns what it came to.
ReplicatedServiceImplemented == Service!Spec

\* Submit() is never left waiting: its result is in its channel or about to be sent,
\* or its waiter is still there and either its own entry is the one the reader will get
\* at that index, or the ticker will find that the term is over.
NoSubmitIsStuck ==
    \A g \in submits :
        LET s == g.server
        IN  \/ g.ch # Pending
            \/ reader[s].at = "send" /\ reader[s].to = g.id
            \/ /\ waiter[s][g.index] = g.id
               /\ \/ appliedIndex[s] < g.index /\ IndexOf(s) > g.index /\ log[s][g.index].id = g.id
                  \/ reader[s].at = "notify" /\ reader[s].index = g.index
                  \/ LostLeadership(g)
=============================================================================

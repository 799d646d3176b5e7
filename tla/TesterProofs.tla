---------------------------- MODULE TesterProofs ----------------------------
(***************************************************************************)
(* Proofs about the tester's connections, its network and its servers, for *)
(* any number of servers, of calls and of restarts.                        *)
(***************************************************************************)
EXTENDS Tester, SequenceTheorems, TLAPS

-----------------------------------------------------------------------------
(* TYPES *)

SendRec   == [at: {"none", "start", "write", "wait", "ok", "failed", "gone"}, tag: Nat]
ReaderRec == [at: {"exit", "read", "reply", "outstanding", "drain"}, call: SUBSET Call,
              ok: BOOLEAN, todo: SUBSET Nat, draining: BOOLEAN]
Request   == [tag: Nat, call: Call]
Reply     == [tag: Nat, call: Call, ok: BOOLEAN]
CallMap   == UNION {[T -> Call] : T \in SUBSET Nat}
EndSet    == (Server \cup {Clnt}) \X (0 .. MaxStarts) \X Server
CallRec   == [at: {"idle", "wait", "returned"}, end: EndSet \cup {<<>>}, server: 0 .. MaxStarts,
              ok: BOOLEAN]

DemuxTypes ==
    /\ link \in [Conn -> {"none", "up", "down"}]
    /\ nextTag \in [Conn -> Nat]
    /\ calls \in [Conn -> CallMap]
    /\ closed \in [Conn -> BOOLEAN]
    /\ sending \in [Conn -> [Call -> SendRec]]
    /\ reader \in [Conn -> ReaderRec]
    /\ requests \in [Conn -> SUBSET Request]
    /\ replies \in [Conn -> Seq(Reply)]

TesterTypes ==
    /\ route \in Routes
    /\ enabled \subseteq EndSet
    /\ servers \in [Server -> 0 .. MaxStarts]
    /\ call \in [Call -> CallRec]
    /\ connected \in [Server -> BOOLEAN]
    /\ inc \in [Server -> Incarnation]
    /\ proc \in [Server -> {"off", "booting", "listening", "running"}]
    /\ persister \in [Server -> SUBSET Call] /\ saved \in [Server -> SUBSET Call]

-----------------------------------------------------------------------------
(* ONE CONNECTION *)

\* A goroutine is in SendReceive(), with a tag.
InFlight(k, c) == sending[k][c].at \in {"write", "wait"}

\* A call that waits in the callmap has the tag it waits under, and no other.
CallsWait(k) ==
    \A t \in DOMAIN calls[k] :
        t < nextTag[k] /\ InFlight(k, calls[k][t]) /\ sending[k][calls[k][t]].tag = t

\* The call of a message under way has been written, under the message's tag.
Tagged(k, m) ==
    m.tag = sending[k][m.call].tag /\ sending[k][m.call].at \notin {"none", "start", "write"}

OnTheWay(k) ==
    /\ \A m \in requests[k] : Tagged(k, m)
    /\ \A i \in DOMAIN replies[k] : Tagged(k, replies[k][i])

\* ... and the message is there once, as a request or as a reply.
Once(k) ==
    /\ \A m \in requests[k], i \in DOMAIN replies[k] : m.call # replies[k][i].call
    /\ \A i, j \in DOMAIN replies[k] : replies[k][i].call = replies[k][j].call => i = j

\* A message with a tag a call waits under, its own.
Matches(k, m) == m.tag \in DOMAIN calls[k] /\ calls[k][m.tag] = m.call

\* While the reader reads on, everything under way has a call that waits for it.
Expected(k) ==
    Reading(k) => /\ \A m \in requests[k] : Matches(k, m)
                  /\ \A i \in DOMAIN replies[k] : Matches(k, replies[k][i])

\* Whoever waits is the reader's to answer.
Owed(k) ==
    \A c \in Call : InFlight(k, c) =>
        \/ reader[k].at = "reply" /\ c \in reader[k].call
        \/ \E tag \in DOMAIN calls[k] :
              /\ calls[k][tag] = c
              /\ Reading(k) \/ reader[k].at = "outstanding" \/ tag \in reader[k].todo

\* A call the reader is about to answer still waits, and is out of the callmap; a reply from
\* the server was for a request that has been written.
Answering(k) ==
    reader[k].at = "reply" =>
        \A c \in reader[k].call :
            /\ reader[k].call = {c} /\ InFlight(k, c)
            /\ ~reader[k].draining => sending[k][c].at = "wait"
            /\ \A t \in DOMAIN calls[k] : calls[k][t] # c

\* Once the reader has stopped reading the callmap is closed, and what is left to drain is
\* in it.
ReaderState(k) ==
    /\ closed[k] \/ Reading(k) \/ reader[k].at = "exit"
    /\ reader[k].at = "drain" \/ (reader[k].at = "reply" /\ reader[k].draining) =>
          closed[k] /\ reader[k].todo \subseteq DOMAIN calls[k]
    /\ reader[k].at = "exit" =>
          DOMAIN calls[k] = {} /\ \A c \in Call : sending[k][c].at \in {"none", "gone"}

ConnInv(k) ==
    CallsWait(k) /\ OnTheWay(k) /\ Once(k) /\ Expected(k) /\ Owed(k) /\ Answering(k) /\ ReaderState(k)

-----------------------------------------------------------------------------
(* THE TESTER *)

Unused(k) == \A c \in Call : sending[k][c] = NotSent

Stopping == {"delete", "close", "closeMap", "copy", "kill"}

\* The process a server has, by what the tester is doing to it.
ProcState(s) ==
    /\ tester = Ready \/ \E t \in Server, at \in {"init", "waitInit"} \cup Stopping : TesterAt(t, at)
    /\ proc[s] = "booting" <=> TesterAt(s, "init")
    /\ proc[s] = "listening" => TesterAt(s, "waitInit")
    /\ \A at \in Stopping : TesterAt(s, at) => proc[s] = "running"
    /\ servers[s] # 0 =>
          /\ servers[s] = inc[s] /\ proc[s] = "running"
          /\ \A at \in Stopping \ {"delete"} : ~TesterAt(s, at)

\* The connections of incarnations to come are unused, and so is the one to a process without
\* services; a process has its connections.
ConnState(s) ==
    /\ \A i \in Incarnation : i > inc[s] =>
          /\ Unused(In(s, i)) /\ Unused(Out(s, i))
          /\ reader[In(s, i)].at = "exit" /\ reader[Out(s, i)].at = "exit"
    /\ proc[s] \in {"booting", "listening"} => Unused(In(s, inc[s]))
    /\ proc[s] = "booting" => reader[In(s, inc[s])].at = "exit"
    /\ proc[s] \in {"listening", "running"} => reader[In(s, inc[s])].at # "exit"
    /\ proc[s] # "off" => reader[Out(s, inc[s])].at # "exit"

\* There is a positive answer to c on connection k: unread, in the reader's hands, or given.
Positive(k, c) ==
    \/ \E i \in DOMAIN replies[k] : replies[k][i].ok /\ replies[k][i].call = c
    \/ reader[k].at = "reply" /\ reader[k].ok /\ c \in reader[k].call
    \/ sending[k][c].at = "ok"

\* A positive answer of the latest incarnation is to a call whose effect is in its Persister.
Effective(s) == \A c \in Call : Positive(In(s, inc[s]), c) => c \in persister[s]

\* A call is given to one process, once, and has left its mark there.
CallState(c) ==
    /\ call[c] = Idle => \A s \in Server, i \in Incarnation : sending[In(s, i)][c] = NotSent
    /\ call[c].at = "wait" => call[c].server # 0

TesterInv ==
    /\ DemuxTypes /\ TesterTypes
    /\ \A k \in Conn : ConnInv(k)
    /\ \A s \in Server : ProcState(s) /\ ConnState(s) /\ Effective(s)
    /\ \A c \in Call : CallState(c)
    /\ AckedIsPersisted

-----------------------------------------------------------------------------
(* STEPS OF ONE CONNECTION *)

\* The values a connection's fields have.
LEMMA ConnFields ==
  ASSUME DemuxTypes, NEW k \in Conn
  PROVE  /\ nextTag[k] \in Nat /\ closed[k] \in BOOLEAN
         /\ sending[k] \in [Call -> SendRec] /\ reader[k] \in ReaderRec
         /\ reader[k].call \subseteq Call /\ reader[k].todo \subseteq Nat
         /\ reader[k].ok \in BOOLEAN /\ reader[k].draining \in BOOLEAN
         /\ requests[k] \subseteq Request /\ replies[k] \in Seq(Reply)
         /\ calls[k] \in [DOMAIN calls[k] -> Call] /\ DOMAIN calls[k] \subseteq Nat
         /\ \A m \in requests[k] : m.call \in Call /\ m.tag \in Nat
         /\ \A i \in DOMAIN replies[k] : replies[k][i] \in Reply /\ replies[k][i].call \in Call
<1>1. /\ nextTag[k] \in Nat /\ closed[k] \in BOOLEAN
      /\ sending[k] \in [Call -> SendRec] /\ reader[k] \in ReaderRec
      /\ requests[k] \subseteq Request /\ replies[k] \in Seq(Reply) /\ calls[k] \in CallMap
  BY DEF DemuxTypes
<1>2. calls[k] \in [DOMAIN calls[k] -> Call] /\ DOMAIN calls[k] \subseteq Nat
  BY <1>1 DEF CallMap
<1>3. /\ reader[k].call \subseteq Call /\ reader[k].todo \subseteq Nat
      /\ reader[k].ok \in BOOLEAN /\ reader[k].draining \in BOOLEAN
  BY <1>1 DEF ReaderRec
<1>4. \A m \in requests[k] : m.call \in Call /\ m.tag \in Nat
  BY <1>1 DEF Request
<1>5. \A i \in DOMAIN replies[k] : replies[k][i] \in Reply
  <2> DEFINE q == replies[k]
  <2>1. q \in Seq(Reply)
    BY <1>1
  <2> HIDE DEF q
  <2>2. \A i \in DOMAIN q : q[i] \in Reply
    BY <2>1
  <2> QED BY <2>2 DEF q
<1>6. \A i \in DOMAIN replies[k] : replies[k][i].call \in Call
  BY <1>5 DEF Reply
<1> QED BY <1>1, <1>2, <1>3, <1>4, <1>5, <1>6

\* A function from tags to calls is a callmap.
LEMMA IsCallMap ==
  ASSUME NEW T \in SUBSET Nat, NEW f \in [T -> Call]
  PROVE  f \in CallMap
BY DEF CallMap

\* A step on connection k leaves the others alone.
OnlyConn(k) ==
    \A j \in Conn \ {k} :
        /\ nextTag'[j] = nextTag[j] /\ calls'[j] = calls[j] /\ closed'[j] = closed[j]
        /\ sending'[j] = sending[j] /\ reader'[j] = reader[j]
        /\ requests'[j] = requests[j] /\ replies'[j] = replies[j]

\* ... and on k itself makes no answer positive, no connection new and no call unsent.
Harmless(k) ==
    /\ \A c \in Call : sending'[k][c] = NotSent <=> sending[k][c] = NotSent
    /\ reader'[k].at = "exit" <=> reader[k].at = "exit"
    /\ \A c \in Call : Positive(k, c)' => Positive(k, c)

LEMMA SameConn ==
  ASSUME NEW k \in Conn, ConnInv(k),
         nextTag'[k] = nextTag[k], calls'[k] = calls[k], closed'[k] = closed[k],
         sending'[k] = sending[k], reader'[k] = reader[k],
         requests'[k] = requests[k], replies'[k] = replies[k]
  PROVE  ConnInv(k)' /\ Harmless(k)
<1>1. ConnInv(k)'
  BY DEF ConnInv, CallsWait, OnTheWay, Expected, Owed, Answering, ReaderState, InFlight, Matches, Reading,
         Once, Tagged
<1>2. Harmless(k)
  BY DEF Harmless, Positive
<1> QED BY <1>1, <1>2

\* SendReceive() takes a tag.
LEMMA PutConn ==
  ASSUME DemuxTypes, NEW k \in Conn, ConnInv(k), NEW c \in Call, Put(k, c)
  PROVE  DemuxTypes' /\ ConnInv(k)' /\ OnlyConn(k) /\ Harmless(k)
<1>1. /\ sending[k][c].at = "start" /\ sending[k][c] \in SendRec
      /\ nextTag'[k] = nextTag[k] + 1 /\ nextTag' \in [Conn -> Nat]
      /\ \A j \in Conn \ {k} : nextTag'[j] = nextTag[j]
      /\ closed' = closed /\ reader' = reader /\ link' = link
      /\ requests' = requests /\ replies' = replies
  BY DEF Put, TagAfter, DemuxTypes, socketVars
<1>2. /\ nextTag[k] \in Nat /\ reader[k].call \subseteq Call
      /\ \A t \in DOMAIN calls[k] : calls[k][t] \in Call /\ t \in Nat
      /\ \A m \in requests[k] : m.call \in Call
      /\ \A i \in DOMAIN replies[k] : replies[k][i].call \in Call
  BY ConnFields
<1>3. /\ reader[k].at # "exit"
      /\ \A m \in requests[k] : m.call # c
      /\ \A i \in DOMAIN replies[k] : replies[k][i].call # c
      /\ \A t \in DOMAIN calls[k] : calls[k][t] # c
      /\ reader[k].at = "reply" => c \notin reader[k].call
  BY <1>1 DEF ConnInv, ReaderState, OnTheWay, Tagged, CallsWait, Answering, InFlight
<1>4. ASSUME NEW new \in SendRec, new.at \in {"failed", "write"},
             sending' = [sending EXCEPT ![k] = [sending[k] EXCEPT ![c] = new]]
      PROVE  /\ sending' \in [Conn -> [Call -> SendRec]]
             /\ \A j \in Conn \ {k} : sending'[j] = sending[j]
             /\ sending'[k][c] = new /\ \A d \in Call \ {c} : sending'[k][d] = sending[k][d]
             /\ OnTheWay(k)' /\ Once(k)' /\ Harmless(k)
  <2>1. /\ sending' \in [Conn -> [Call -> SendRec]]
        /\ \A j \in Conn \ {k} : sending'[j] = sending[j]
        /\ sending'[k][c] = new /\ \A d \in Call \ {c} : sending'[k][d] = sending[k][d]
    BY <1>4 DEF DemuxTypes
  <2>2. OnTheWay(k)' /\ Once(k)'
    BY <1>1, <1>2, <1>3, <2>1 DEF ConnInv, OnTheWay, Tagged, Once
  <2>3. new # NotSent /\ sending[k][c] # NotSent
    BY <1>1, <1>4 DEF NotSent
  <2>4. Harmless(k)
    BY <1>1, <1>4, <2>1, <2>3 DEF Harmless, Positive
  <2> QED BY <2>1, <2>2, <2>4
<1>5. CASE closed[k]
  <2> DEFINE new == [sending[k][c] EXCEPT !.at = "failed"]
  <2>1. calls' = calls /\ sending' = [sending EXCEPT ![k] = [sending[k] EXCEPT ![c] = new]]
    BY <1>5 DEF Put, Goes
  <2>2. new \in SendRec /\ new.at = "failed"
    BY <1>1 DEF SendRec
  <2> HIDE DEF new
  <2>3. /\ sending' \in [Conn -> [Call -> SendRec]]
        /\ \A j \in Conn \ {k} : sending'[j] = sending[j]
        /\ sending'[k][c] = new /\ \A d \in Call \ {c} : sending'[k][d] = sending[k][d]
        /\ OnTheWay(k)' /\ Once(k)' /\ Harmless(k)
    BY <1>4, <2>1, <2>2
  <2>4. DemuxTypes' /\ OnlyConn(k)
    BY <1>1, <2>1, <2>3 DEF DemuxTypes, OnlyConn
  <2>5. CallsWait(k)'
    BY <1>1, <1>2, <1>3, <2>1, <2>3 DEF ConnInv, CallsWait, InFlight
  <2>7. Expected(k)'
    BY <1>1, <2>1 DEF ConnInv, Expected, Matches, Reading
  <2>8. Owed(k)'
    BY <1>1, <2>1, <2>2, <2>3 DEF ConnInv, Owed, Reading, InFlight
  <2>9. Answering(k)'
    BY <1>1, <1>2, <1>3, <2>1, <2>3 DEF ConnInv, Answering, InFlight
  <2>10. ReaderState(k)'
    BY <1>1, <1>3, <2>1 DEF ConnInv, ReaderState, Reading
  <2> QED BY <2>3, <2>4, <2>5, <2>7, <2>8, <2>9, <2>10 DEF ConnInv
<1>6. CASE ~closed[k]
  <2> DEFINE T == DOMAIN calls[k] \cup {nextTag[k]}
             map == [t \in T |-> IF t = nextTag[k] THEN c ELSE calls[k][t]]
             new == [at |-> "write", tag |-> nextTag[k]]
  <2>1. calls' = [calls EXCEPT ![k] = map] /\ sending' = [sending EXCEPT ![k] = [sending[k] EXCEPT ![c] = new]]
    BY <1>6 DEF Put
  <2>2. /\ T \in SUBSET Nat /\ map \in [T -> Call] /\ nextTag[k] \notin DOMAIN calls[k]
        /\ DOMAIN map = T /\ map[nextTag[k]] = c /\ \A t \in DOMAIN calls[k] : map[t] = calls[k][t]
    BY <1>2 DEF ConnInv, CallsWait
  <2>3. new \in SendRec /\ new.at = "write" /\ new.tag = nextTag[k]
    BY <1>2 DEF SendRec
  <2>4. map \in CallMap
    BY <2>2, IsCallMap
  <2> HIDE DEF map, new
  <2>5. /\ \A j \in Conn \ {k} : calls'[j] = calls[j]
        /\ calls' \in [Conn -> CallMap] /\ calls'[k] = map
    BY <2>1, <2>4 DEF DemuxTypes
  <2>6. /\ sending' \in [Conn -> [Call -> SendRec]]
        /\ \A j \in Conn \ {k} : sending'[j] = sending[j]
        /\ sending'[k][c] = new /\ \A d \in Call \ {c} : sending'[k][d] = sending[k][d]
        /\ OnTheWay(k)' /\ Once(k)' /\ Harmless(k)
    BY <1>4, <2>1, <2>3
  <2>7. DemuxTypes' /\ OnlyConn(k)
    BY <1>1, <2>5, <2>6 DEF DemuxTypes, OnlyConn
  <2>8. CallsWait(k)'
    <3>1. ASSUME NEW t \in DOMAIN calls[k]
          PROVE  (t < nextTag[k] /\ InFlight(k, calls[k][t]) /\ sending[k][calls[k][t]].tag = t)'
      BY <1>1, <1>2, <1>3, <2>2, <2>5, <2>6, <3>1 DEF ConnInv, CallsWait, InFlight
    <3>2. /\ nextTag[k] < nextTag'[k] /\ calls'[k][nextTag[k]] = c
          /\ sending'[k][c].at = "write" /\ sending'[k][c].tag = nextTag[k]
      BY <1>1, <1>2, <2>2, <2>3, <2>5, <2>6
    <3>3. DOMAIN (calls'[k]) = DOMAIN calls[k] \cup {nextTag[k]}
      BY <2>2, <2>5
    <3> QED BY <3>1, <3>2, <3>3 DEF CallsWait, InFlight
  <2>9. Expected(k)'
    BY <1>1, <2>2, <2>5 DEF ConnInv, Expected, Matches, Reading
  <2>10. Reading(k) /\ Reading(k)'
    BY <1>1, <1>3, <1>6 DEF ConnInv, ReaderState, Reading
  <2>11. Owed(k)'
    BY <1>1, <2>2, <2>3, <2>5, <2>6, <2>10 DEF ConnInv, Owed, InFlight
  <2>12. Answering(k)'
    BY <1>1, <1>2, <1>3, <2>2, <2>5, <2>6 DEF ConnInv, Answering, InFlight
  <2>13. ReaderState(k)'
    BY <1>1, <1>3, <2>10 DEF ConnInv, ReaderState, Reading
  <2> QED BY <2>6, <2>7, <2>8, <2>9, <2>11, <2>12, <2>13 DEF ConnInv
<1> QED BY <1>5, <1>6

\* WriteCall(): the request is on its way.
LEMMA WriteCallConn ==
  ASSUME DemuxTypes, NEW k \in Conn, ConnInv(k), NEW c \in Call, WriteCall(k, c)
  PROVE  DemuxTypes' /\ ConnInv(k)' /\ OnlyConn(k) /\ Harmless(k)
<1> DEFINE new == [sending[k][c] EXCEPT !.at = "wait"]
           req == [tag |-> sending[k][c].tag, call |-> c]
<1>1. /\ sending[k][c].at = "write" /\ sending[k][c] \in SendRec
      /\ sending' = [sending EXCEPT ![k] = [sending[k] EXCEPT ![c] = new]]
      /\ requests' = requests \/ requests' = [requests EXCEPT ![k] = @ \cup {req}]
      /\ nextTag' = nextTag /\ calls' = calls /\ closed' = closed /\ reader' = reader
      /\ link' = link /\ replies' = replies
  BY DEF WriteCall, Goes, DemuxTypes
<1>2. new \in SendRec /\ new.at = "wait" /\ new.tag = sending[k][c].tag
  BY <1>1 DEF SendRec
<1>3. req \in Request /\ req.tag = sending[k][c].tag /\ req.call = c
  BY <1>1 DEF SendRec, Request
<1>4. /\ reader[k].call \subseteq Call
      /\ \A t \in DOMAIN calls[k] : calls[k][t] \in Call /\ t \in Nat
      /\ \A m \in requests[k] : m.call \in Call
      /\ \A i \in DOMAIN replies[k] : replies[k][i].call \in Call
  BY ConnFields
<1> HIDE DEF new, req
<1>5. /\ sending' \in [Conn -> [Call -> SendRec]]
      /\ \A j \in Conn \ {k} : sending'[j] = sending[j]
      /\ sending'[k][c] = new /\ \A d \in Call \ {c} : sending'[k][d] = sending[k][d]
  BY <1>1, <1>2 DEF DemuxTypes
<1>6. /\ requests' \in [Conn -> SUBSET Request]
      /\ \A j \in Conn \ {k} : requests'[j] = requests[j]
      /\ requests'[k] \subseteq requests[k] \cup {req}
  <2> DEFINE R == requests[k] \cup {req}
  <2>1. /\ requests \in [Conn -> SUBSET Request] /\ R \in SUBSET Request
        /\ requests' = requests \/ requests' = [requests EXCEPT ![k] = R]
    BY <1>1, <1>3 DEF DemuxTypes
  <2> HIDE DEF R
  <2>2. /\ requests' \in [Conn -> SUBSET Request]
        /\ \A j \in Conn \ {k} : requests'[j] = requests[j]
        /\ requests'[k] = R \/ requests'[k] = requests[k]
    BY <2>1
  <2> QED BY <2>2 DEF R
<1>7. DemuxTypes' /\ OnlyConn(k)
  BY <1>1, <1>5, <1>6 DEF DemuxTypes, OnlyConn
<1>8. /\ \A m \in requests[k] : m.call # c
      /\ \A i \in DOMAIN replies[k] : replies[k][i].call # c
  BY <1>1 DEF ConnInv, OnTheWay, Tagged
<1>9. CallsWait(k)'
  BY <1>1, <1>2, <1>4, <1>5 DEF ConnInv, CallsWait, InFlight
<1>10. OnTheWay(k)'
  BY <1>1, <1>2, <1>3, <1>4, <1>5, <1>6, <1>8 DEF ConnInv, OnTheWay, Tagged
<1>11. Once(k)'
  BY <1>1, <1>3, <1>6, <1>8 DEF ConnInv, Once
<1>12. Expected(k)'
  <2> SUFFICES ASSUME Reading(k) PROVE \A m \in requests'[k] : Matches(k, m)
    BY <1>1 DEF ConnInv, Expected, Matches, Reading
  <2>1. ~(reader[k].at = "reply" /\ c \in reader[k].call)
    BY <1>1 DEF ConnInv, Answering, Reading
  <2>2. PICK tag \in DOMAIN calls[k] : calls[k][tag] = c
    BY <1>1, <2>1 DEF ConnInv, Owed, InFlight
  <2>3. tag = sending[k][c].tag
    BY <2>2 DEF ConnInv, CallsWait
  <2>4. Matches(k, req)
    BY <1>3, <2>2, <2>3 DEF Matches
  <2> QED BY <1>6, <2>4 DEF ConnInv, Expected
<1>13. Owed(k)'
  BY <1>1, <1>5 DEF ConnInv, Owed, InFlight, Reading
<1>14. Answering(k)'
  BY <1>1, <1>2, <1>4, <1>5 DEF ConnInv, Answering, InFlight
<1>15. ReaderState(k)'
  BY <1>1, <1>5 DEF ConnInv, ReaderState, Reading
<1>16. new # NotSent /\ sending[k][c] # NotSent
  BY <1>1, <1>2 DEF NotSent
<1>17. Harmless(k)
  BY <1>1, <1>2, <1>5, <1>16 DEF Harmless, Positive
<1> QED BY <1>7, <1>9, <1>10, <1>11, <1>12, <1>13, <1>14, <1>15, <1>17 DEF ConnInv

\* callMap.remove() of a tag a call waits under, and what reply() holds then.
LEMMA TakeOutFacts ==
  ASSUME DemuxTypes, NEW k \in Conn, NEW tag \in DOMAIN calls[k], NEW ok \in BOOLEAN,
         NEW todo \in SUBSET Nat, NEW draining \in BOOLEAN, NEW map, NEW r,
         map = [t \in DOMAIN calls[k] \ {tag} |-> calls[k][t]],
         r = [at |-> "reply", call |-> {calls[k][tag]}, ok |-> ok, todo |-> todo, draining |-> draining]
  PROVE  /\ map \in CallMap /\ DOMAIN map = DOMAIN calls[k] \ {tag}
         /\ \A t \in DOMAIN calls[k] \ {tag} : map[t] = calls[k][t]
         /\ r \in ReaderRec /\ calls[k][tag] \in Call
         /\ r.at = "reply" /\ r.call = {calls[k][tag]} /\ r.ok = ok
         /\ r.todo = todo /\ r.draining = draining
<1> DEFINE T == DOMAIN calls[k] \ {tag}
           c == calls[k][tag]
<1>1. calls[k] \in [DOMAIN calls[k] -> Call] /\ DOMAIN calls[k] \subseteq Nat
  BY ConnFields
<1>2. map \in [T -> Call] /\ T \in SUBSET Nat /\ DOMAIN map = T /\ c \in Call
      /\ \A t \in T : map[t] = calls[k][t]
  BY <1>1
<1>3. map \in CallMap
  BY <1>2, IsCallMap
<1>4. /\ r \in ReaderRec /\ r.at = "reply" /\ r.call = {c} /\ r.ok = ok
      /\ r.todo = todo /\ r.draining = draining
  <2>1. {c} \in SUBSET Call /\ r = [at |-> "reply", call |-> {c}, ok |-> ok, todo |-> todo,
                                    draining |-> draining]
    BY <1>2
  <2> HIDE DEF c
  <2> QED BY <2>1 DEF ReaderRec
<1> QED BY <1>2, <1>3, <1>4

\* reader() reads a reply.
LEMMA ReadReplyConn ==
  ASSUME DemuxTypes, NEW k \in Conn, ConnInv(k), ReadReply(k)
  PROVE  DemuxTypes' /\ ConnInv(k)' /\ OnlyConn(k) /\ Harmless(k)
<1> DEFINE q == replies[k]
           m == Head(q)
           c == calls[k][m.tag]
<1>0. /\ q \in Seq(Reply) /\ q # <<>>
      /\ \A t \in DOMAIN calls[k] : calls[k][t] \in Call /\ t \in Nat
      /\ \A r \in requests[k] : r.call \in Call
      /\ \A i \in DOMAIN replies[k] : replies[k][i].call \in Call
  BY ConnFields DEF ReadReply
<1>1. /\ m = q[1] /\ 1 \in DOMAIN q /\ m \in Reply /\ Tail(q) \in Seq(Reply)
      /\ DOMAIN Tail(q) = 1 .. (Len(q) - 1)
      /\ \A i \in DOMAIN Tail(q) : Tail(q)[i] = q[i + 1] /\ i + 1 \in DOMAIN q
  <2> HIDE DEF q
  <2> QED BY <1>0
<1>2. /\ reader[k].at = "read" /\ m.tag \in DOMAIN calls[k] /\ TakeOut(k, m.tag, m.ok, {}, FALSE)
      /\ replies' = [replies EXCEPT ![k] = Tail(q)]
      /\ nextTag' = nextTag /\ closed' = closed /\ sending' = sending /\ link' = link
      /\ requests' = requests
  BY DEF ReadReply
<1>3. m.ok \in BOOLEAN /\ {} \in SUBSET Nat
  BY <1>1 DEF Reply
<1>4. /\ calls' \in [Conn -> CallMap] /\ reader' \in [Conn -> ReaderRec]
      /\ DOMAIN (calls'[k]) = DOMAIN calls[k] \ {m.tag}
      /\ \A t \in DOMAIN calls[k] \ {m.tag} : calls'[k][t] = calls[k][t]
      /\ reader'[k].at = "reply" /\ reader'[k].call = {c} /\ reader'[k].ok = m.ok
      /\ reader'[k].todo = {} /\ reader'[k].draining = FALSE
      /\ c \in Call
      /\ \A j \in Conn \ {k} : calls'[j] = calls[j] /\ reader'[j] = reader[j]
  <2> DEFINE ok == m.ok
             tag == m.tag
             todo == {}
             draining == FALSE
             map == [t \in DOMAIN calls[k] \ {tag} |-> calls[k][t]]
             r == [at |-> "reply", call |-> {calls[k][tag]}, ok |-> ok, todo |-> todo,
                   draining |-> draining]
  <2>1. /\ tag \in DOMAIN calls[k] /\ ok \in BOOLEAN
        /\ todo \in SUBSET Nat /\ draining \in BOOLEAN
        /\ calls' = [calls EXCEPT ![k] = map] /\ reader' = [reader EXCEPT ![k] = r]
        /\ map = [t \in DOMAIN calls[k] \ {tag} |-> calls[k][t]]
        /\ r = [at |-> "reply", call |-> {calls[k][tag]}, ok |-> ok, todo |-> todo, draining |-> draining]
    BY <1>2, <1>3 DEF TakeOut, Restrict
  <2> HIDE DEF ok, tag, todo, draining, map, r
  <2>2. /\ map \in CallMap /\ DOMAIN map = DOMAIN calls[k] \ {tag}
        /\ \A t \in DOMAIN calls[k] \ {tag} : map[t] = calls[k][t]
        /\ r \in ReaderRec /\ calls[k][tag] \in Call
        /\ r.at = "reply" /\ r.call = {calls[k][tag]} /\ r.ok = ok
        /\ r.todo = todo /\ r.draining = draining
    BY <2>1, TakeOutFacts, SMTT(40)
  <2>3. /\ calls' \in [Conn -> CallMap] /\ reader' \in [Conn -> ReaderRec]
        /\ calls'[k] = map /\ reader'[k] = r
        /\ \A j \in Conn \ {k} : calls'[j] = calls[j] /\ reader'[j] = reader[j]
    BY <2>1, <2>2 DEF DemuxTypes
  <2> QED BY <2>2, <2>3 DEF ok, tag, todo, draining
<1>5. /\ replies' \in [Conn -> Seq(Reply)] /\ replies'[k] = Tail(q)
      /\ \A j \in Conn \ {k} : replies'[j] = replies[j]
  <2> DEFINE rest == Tail(q)
  <2>1. rest \in Seq(Reply) /\ replies' = [replies EXCEPT ![k] = rest]
    BY <1>1, <1>2
  <2> HIDE DEF rest
  <2>2. /\ replies' \in [Conn -> Seq(Reply)] /\ replies'[k] = rest
        /\ \A j \in Conn \ {k} : replies'[j] = replies[j]
    BY <2>1 DEF DemuxTypes
  <2> QED BY <2>2 DEF rest
<1>6. c = m.call /\ Reading(k) /\ sending[k][c].tag = m.tag
      /\ sending[k][c].at = "wait"
  <2>1. Reading(k) /\ Matches(k, q[1]) /\ Tagged(k, q[1])
    BY <1>1, <1>2 DEF ConnInv, Expected, Reading, OnTheWay
  <2>2. c = m.call /\ sending[k][c].tag = m.tag /\ sending[k][c].at \notin {"none", "start", "write"}
    BY <1>1, <2>1 DEF Matches, Tagged
  <2>3. InFlight(k, c)
    BY <1>2 DEF ConnInv, CallsWait
  <2> QED BY <2>1, <2>2, <2>3 DEF InFlight
<1>7. \A t \in DOMAIN calls[k] : calls[k][t] = c => t = m.tag
  BY <1>6 DEF ConnInv, CallsWait
<1> HIDE DEF c, m
<1>8. /\ \A r \in requests[k] : r.call # c
      /\ \A i \in DOMAIN Tail(q) : Tail(q)[i].call # c
      /\ \A i, j \in DOMAIN Tail(q) : Tail(q)[i].call = Tail(q)[j].call => i = j
      /\ \A r \in requests[k], i \in DOMAIN Tail(q) : r.call # Tail(q)[i].call
  <2>1. \A r \in requests[k] : r.call # c
    BY <1>1, <1>6 DEF ConnInv, Once
  <2>2. \A r \in requests[k], i \in DOMAIN Tail(q) : r.call # Tail(q)[i].call
    BY <1>1 DEF ConnInv, Once
  <2>3. \A i, j \in DOMAIN q : q[i].call = q[j].call => i = j
    BY DEF ConnInv, Once
  <2>4. \A i \in DOMAIN Tail(q) : i \in Nat \ {0} /\ i + 1 # 1
    BY <1>0, <1>1
  <2> HIDE DEF q
  <2>5. \A i \in DOMAIN Tail(q) : Tail(q)[i].call # c
    BY <1>1, <1>6, <2>3, <2>4
  <2>6. \A i, j \in DOMAIN Tail(q) : Tail(q)[i].call = Tail(q)[j].call => i = j
    BY <1>1, <2>3, <2>4
  <2> QED BY <2>1, <2>2, <2>5, <2>6
<1>9. DemuxTypes' /\ OnlyConn(k)
  BY <1>2, <1>4, <1>5 DEF DemuxTypes, OnlyConn
<1>10. CallsWait(k)'
  BY <1>2, <1>4 DEF ConnInv, CallsWait, InFlight
<1>11. OnTheWay(k)' /\ Once(k)'
  BY <1>1, <1>2, <1>5, <1>8 DEF ConnInv, OnTheWay, Tagged, Once
<1>12. \A r : Matches(k, r) /\ r.call # c => Matches(k, r)'
  BY <1>4 DEF Matches, c
<1>13. Expected(k)'
  <2>1. \A r \in requests[k] : Matches(k, r)
    BY <1>6 DEF ConnInv, Expected
  <2>2. \A i \in DOMAIN Tail(q) : Matches(k, Tail(q)[i])
    BY <1>1, <1>6 DEF ConnInv, Expected
  <2> QED BY <1>2, <1>5, <1>8, <1>12, <2>1, <2>2 DEF Expected, Matches
<1>14. Owed(k)'
  BY <1>2, <1>4, <1>6, <1>7 DEF ConnInv, Owed, InFlight, Reading
<1>15. Answering(k)'
  BY <1>2, <1>4, <1>6, <1>7 DEF Answering, InFlight
<1>16. ReaderState(k)'
  BY <1>2, <1>4 DEF ConnInv, ReaderState, Reading
<1>17. Harmless(k)
  BY <1>1, <1>2, <1>4, <1>5, <1>6 DEF Harmless, Positive
<1> QED BY <1>9, <1>10, <1>11, <1>13, <1>14, <1>15, <1>16, <1>17 DEF ConnInv

\* Only where the reader is changes, and whether the callmap is closed.
LEMMA ReaderMoves ==
  ASSUME DemuxTypes, NEW k \in Conn, ConnInv(k), NEW r \in ReaderRec,
         reader' = [reader EXCEPT ![k] = r], reader[k].at # "reply", r.at \in {"outstanding", "drain"},
         reader[k].at # "exit",
         closed' = [closed EXCEPT ![k] = TRUE],
         r.at = "drain" => r.todo = DOMAIN calls[k] /\ reader[k].at = "outstanding",
         r.at = "outstanding" => Reading(k),
         UNCHANGED <<nextTag, calls, sending, socketVars>>
  PROVE  DemuxTypes' /\ ConnInv(k)' /\ OnlyConn(k) /\ Harmless(k)
<1>1. /\ nextTag' = nextTag /\ calls' = calls /\ sending' = sending /\ link' = link
      /\ requests' = requests /\ replies' = replies
  BY DEF socketVars
<1>2. /\ reader' \in [Conn -> ReaderRec] /\ reader'[k] = r /\ closed'[k] = TRUE
      /\ closed' \in [Conn -> BOOLEAN]
      /\ \A j \in Conn \ {k} : reader'[j] = reader[j] /\ closed'[j] = closed[j]
  BY DEF DemuxTypes
<1>3. DemuxTypes' /\ OnlyConn(k)
  BY <1>1, <1>2 DEF DemuxTypes, OnlyConn
<1>4. ~Reading(k)' /\ reader'[k].at # "reply"
  BY <1>2 DEF Reading
<1>5. CallsWait(k)' /\ OnTheWay(k)' /\ Once(k)' /\ Expected(k)' /\ Answering(k)'
  BY <1>1, <1>2, <1>4 DEF ConnInv, CallsWait, OnTheWay, Once, Expected, Answering, InFlight, Tagged
<1>6. Owed(k)'
  BY <1>1, <1>2 DEF ConnInv, Owed, InFlight, Reading
<1>7. ReaderState(k)'
  BY <1>1, <1>2, <1>4 DEF ReaderState
<1>8. Harmless(k)
  BY <1>1, <1>2 DEF Harmless, Positive
<1> QED BY <1>3, <1>5, <1>6, <1>7, <1>8 DEF ConnInv

LEMMA ReadErrorConn ==
  ASSUME DemuxTypes, NEW k \in Conn, ConnInv(k), ReadError(k)
  PROVE  DemuxTypes' /\ ConnInv(k)' /\ OnlyConn(k) /\ Harmless(k)
<1> DEFINE r == [reader[k] EXCEPT !.at = "outstanding"]
<1>1. /\ reader' = [reader EXCEPT ![k] = r] /\ closed' = [closed EXCEPT ![k] = TRUE]
      /\ reader[k].at = "read" /\ Reading(k) /\ UNCHANGED <<nextTag, calls, sending, socketVars>>
  BY DEF ReadError, Reading
<1>2. r \in ReaderRec /\ r.at = "outstanding"
  BY ConnFields DEF ReaderRec
<1> HIDE DEF r
<1> QED BY <1>1, <1>2, ReaderMoves

LEMMA OutstandingConn ==
  ASSUME DemuxTypes, NEW k \in Conn, ConnInv(k), Outstanding(k)
  PROVE  DemuxTypes' /\ ConnInv(k)' /\ OnlyConn(k) /\ Harmless(k)
<1> DEFINE T == DOMAIN calls[k]
           r == [reader[k] EXCEPT !.at = "drain", !.todo = T]
<1>1. /\ reader' = [reader EXCEPT ![k] = r] /\ closed' = closed
      /\ reader[k].at = "outstanding" /\ UNCHANGED <<nextTag, calls, sending, socketVars>>
  BY DEF Outstanding
<1>2. T \in SUBSET Nat /\ reader[k] \in ReaderRec /\ closed[k] \in BOOLEAN /\ closed \in [Conn -> BOOLEAN]
  BY ConnFields DEF DemuxTypes
<1>3. closed[k]
  BY <1>1 DEF ConnInv, ReaderState, Reading
<1>4. closed' = [closed EXCEPT ![k] = TRUE]
  BY <1>1, <1>2, <1>3
<1>5. r \in ReaderRec /\ r.at = "drain" /\ r.todo = DOMAIN calls[k]
  <2> HIDE DEF T
  <2>1. r \in ReaderRec /\ r.at = "drain" /\ r.todo = T
    BY <1>2 DEF ReaderRec
  <2> QED BY <2>1 DEF T
<1> HIDE DEF r
<1> QED BY <1>1, <1>4, <1>5, ReaderMoves

\* The reader fails one of the calls that were left.
LEMMA DrainConn ==
  ASSUME DemuxTypes, NEW k \in Conn, ConnInv(k), Drain(k)
  PROVE  DemuxTypes' /\ ConnInv(k)' /\ OnlyConn(k) /\ Harmless(k)
<1>1. PICK tag \in reader[k].todo : TakeOut(k, tag, FALSE, reader[k].todo \ {tag}, TRUE)
  BY DEF Drain
<1> DEFINE c == calls[k][tag]
           todo == reader[k].todo \ {tag}
           no == FALSE
           yes == TRUE
           map == [t \in DOMAIN calls[k] \ {tag} |-> calls[k][t]]
           r == [at |-> "reply", call |-> {c}, ok |-> no, todo |-> todo, draining |-> yes]
<1>2. /\ reader[k].at = "drain" /\ nextTag' = nextTag /\ closed' = closed /\ sending' = sending
      /\ link' = link /\ requests' = requests /\ replies' = replies
  BY DEF Drain, socketVars
<1>3. closed[k] /\ reader[k].todo \subseteq DOMAIN calls[k] /\ reader[k].todo \subseteq Nat
  BY <1>2, ConnFields DEF ConnInv, ReaderState
<1>4. /\ tag \in DOMAIN calls[k] /\ no \in BOOLEAN /\ todo \in SUBSET Nat /\ yes \in BOOLEAN
      /\ calls' = [calls EXCEPT ![k] = map] /\ reader' = [reader EXCEPT ![k] = r]
      /\ map = [t \in DOMAIN calls[k] \ {tag} |-> calls[k][t]]
      /\ r = [at |-> "reply", call |-> {calls[k][tag]}, ok |-> no, todo |-> todo, draining |-> yes]
  BY <1>1, <1>3 DEF TakeOut, Restrict
<1> HIDE DEF map, r, todo, no, yes
<1>5. /\ map \in CallMap /\ DOMAIN map = DOMAIN calls[k] \ {tag}
      /\ \A t \in DOMAIN calls[k] \ {tag} : map[t] = calls[k][t]
      /\ r \in ReaderRec /\ calls[k][tag] \in Call
      /\ r.at = "reply" /\ r.call = {calls[k][tag]} /\ r.ok = no
      /\ r.todo = todo /\ r.draining = yes
  BY <1>4, TakeOutFacts
<1>6. /\ calls' \in [Conn -> CallMap] /\ reader' \in [Conn -> ReaderRec]
      /\ calls'[k] = map /\ reader'[k] = r
      /\ \A j \in Conn \ {k} : calls'[j] = calls[j] /\ reader'[j] = reader[j]
  BY <1>4, <1>5 DEF DemuxTypes
<1>7. DemuxTypes' /\ OnlyConn(k)
  BY <1>2, <1>6 DEF DemuxTypes, OnlyConn
<1>8. ~Reading(k)' /\ reader'[k].draining = TRUE /\ reader'[k].ok = FALSE
      /\ reader'[k].at = "reply" /\ reader'[k].call = {c} /\ c \in Call
      /\ reader'[k].todo = reader[k].todo \ {tag}
  BY <1>5, <1>6 DEF Reading, yes, no, todo
<1>9. InFlight(k, c) /\ sending[k][c].tag = tag
  BY <1>4 DEF ConnInv, CallsWait
<1>10. \A t \in DOMAIN calls[k] : calls[k][t] = c => t = tag
  BY <1>9 DEF ConnInv, CallsWait
<1> HIDE DEF c
<1>11. CallsWait(k)'
  BY <1>2, <1>5, <1>6 DEF ConnInv, CallsWait, InFlight
<1>12. OnTheWay(k)' /\ Once(k)' /\ Expected(k)'
  BY <1>2, <1>8 DEF ConnInv, OnTheWay, Tagged, Once, Expected
<1>13. Owed(k)'
  <2> SUFFICES ASSUME NEW d \in Call, InFlight(k, d), d # c
               PROVE  \E t \in DOMAIN (calls'[k]) : calls'[k][t] = d /\ t \in reader'[k].todo
    BY <1>2, <1>8 DEF Owed, InFlight
  <2>1. PICK t \in DOMAIN calls[k] : calls[k][t] = d /\ t \in reader[k].todo
    BY <1>2 DEF ConnInv, Owed, Reading
  <2>2. t # tag
    BY <2>1 DEF c
  <2> QED BY <1>5, <1>6, <1>8, <2>1, <2>2
<1>14. Answering(k)'
  BY <1>2, <1>5, <1>6, <1>8, <1>9, <1>10 DEF Answering, InFlight
<1>15. ReaderState(k)'
  BY <1>2, <1>3, <1>5, <1>6, <1>8 DEF ReaderState
<1>16. Harmless(k)
  BY <1>2, <1>8 DEF Harmless, Positive
<1> QED BY <1>7, <1>11, <1>12, <1>13, <1>14, <1>15, <1>16 DEF ConnInv

\* reply() hands the answer over.
LEMMA DeliverConn ==
  ASSUME DemuxTypes, NEW k \in Conn, ConnInv(k), Deliver(k)
  PROVE  DemuxTypes' /\ ConnInv(k)' /\ OnlyConn(k) /\ Harmless(k)
<1>1. PICK c \in reader[k].call :
        /\ sending[k][c].at = "wait"
        /\ Goes(k, c, IF reader[k].ok THEN "ok" ELSE "failed")
  BY DEF Deliver
<1> DEFINE at == IF reader[k].ok THEN "ok" ELSE "failed"
           go == IF reader[k].draining THEN "drain" ELSE "read"
           none == {}
           no == FALSE
           new == [sending[k][c] EXCEPT !.at = at]
           r == [reader[k] EXCEPT !.at = go, !.call = none, !.ok = no, !.draining = no]
<1>2. /\ reader[k].at = "reply" /\ reader' = [reader EXCEPT ![k] = r]
      /\ sending' = [sending EXCEPT ![k] = [sending[k] EXCEPT ![c] = new]]
      /\ nextTag' = nextTag /\ calls' = calls /\ closed' = closed
      /\ link' = link /\ requests' = requests /\ replies' = replies
  BY <1>1 DEF Deliver, Goes, socketVars
<1>3. /\ c \in Call /\ reader[k] \in ReaderRec /\ sending[k][c] \in SendRec
      /\ reader[k].draining \in BOOLEAN /\ reader[k].ok \in BOOLEAN
      /\ \A t \in DOMAIN calls[k] : calls[k][t] \in Call /\ t \in Nat
      /\ \A m \in requests[k] : m.call \in Call
      /\ \A i \in DOMAIN replies[k] : replies[k][i].call \in Call
  BY <1>1, ConnFields
<1>4. at \in {"ok", "failed"} /\ go \in {"drain", "read"} /\ none \in SUBSET Call /\ no \in BOOLEAN
      /\ (at = "ok" <=> reader[k].ok) /\ (go = "drain" <=> reader[k].draining)
  BY <1>3
<1> HIDE DEF at, go, none, no
<1>5. new \in SendRec /\ new.at = at /\ new.tag = sending[k][c].tag
  BY <1>3, <1>4 DEF SendRec
<1>6. r \in ReaderRec /\ r.at = go /\ r.todo = reader[k].todo
  BY <1>3, <1>4 DEF ReaderRec
<1> HIDE DEF new, r
<1>7. /\ sending' \in [Conn -> [Call -> SendRec]] /\ reader' \in [Conn -> ReaderRec]
      /\ \A j \in Conn \ {k} : sending'[j] = sending[j] /\ reader'[j] = reader[j]
      /\ sending'[k][c] = new /\ \A d \in Call \ {c} : sending'[k][d] = sending[k][d]
      /\ reader'[k] = r
  BY <1>2, <1>3, <1>5, <1>6 DEF DemuxTypes
<1>8. DemuxTypes' /\ OnlyConn(k)
  BY <1>2, <1>7 DEF DemuxTypes, OnlyConn
<1>9. \A t \in DOMAIN calls[k] : calls[k][t] # c
  BY <1>1, <1>2 DEF ConnInv, Answering
<1>10. /\ Reading(k)' <=> Reading(k)
       /\ reader'[k].at \in {"drain", "read"} /\ (reader'[k].at = "drain" <=> reader[k].draining)
  BY <1>2, <1>4, <1>6, <1>7 DEF Reading
<1>11. CallsWait(k)'
  BY <1>2, <1>3, <1>7, <1>9 DEF ConnInv, CallsWait, InFlight
<1>12. OnTheWay(k)' /\ Once(k)'
  <2>1. \A m : m.call \in Call /\ Tagged(k, m) => Tagged(k, m)'
    BY <1>4, <1>5, <1>7 DEF Tagged
  <2> QED BY <1>2, <1>3, <2>1 DEF ConnInv, OnTheWay, Once
<1>13. Expected(k)'
  BY <1>2, <1>10 DEF ConnInv, Expected, Matches
<1>14. Owed(k)'
  <2> SUFFICES ASSUME NEW d \in Call, InFlight(k, d)'
               PROVE  \E tag \in DOMAIN calls[k] :
                         /\ calls[k][tag] = d
                         /\ Reading(k)' \/ tag \in reader'[k].todo
    BY <1>2 DEF Owed
  <2>1. d # c /\ InFlight(k, d)
    BY <1>4, <1>5, <1>7 DEF InFlight
  <2>2. d \notin reader[k].call
    BY <1>1, <1>2, <2>1 DEF ConnInv, Answering
  <2> QED BY <1>2, <1>6, <1>7, <1>10, <2>1, <2>2 DEF ConnInv, Owed
<1>15. Answering(k)'
  BY <1>10 DEF Answering
<1>16. ReaderState(k)'
  BY <1>2, <1>6, <1>7, <1>10 DEF ConnInv, ReaderState, Reading
<1>17. Harmless(k)
  <2>1. new # NotSent /\ sending[k][c] # NotSent
    BY <1>1, <1>4, <1>5 DEF NotSent
  <2> QED BY <1>1, <1>2, <1>4, <1>5, <1>7, <1>10, <2>1 DEF Harmless, Positive
<1> QED BY <1>8, <1>11, <1>12, <1>13, <1>14, <1>15, <1>16, <1>17 DEF ConnInv

LEMMA ClientStepConn ==
  ASSUME DemuxTypes, NEW k \in Conn, ConnInv(k), ClientStep(k)
  PROVE  DemuxTypes' /\ ConnInv(k)' /\ OnlyConn(k) /\ Harmless(k)
BY PutConn, WriteCallConn, ReadReplyConn, ReadErrorConn, OutstandingConn, DrainConn, DeliverConn
   DEF ClientStep

\* A connection is made.
LEMMA NewDemuxConn ==
  ASSUME DemuxTypes, NEW k \in Conn, ConnInv(k), Unused(k), reader[k].at = "exit", NewDemux(k)
  PROVE  /\ DemuxTypes' /\ ConnInv(k)' /\ OnlyConn(k)
         /\ sending' = sending /\ reader'[k].at = "read"
         /\ \A c \in Call : ~Positive(k, c)'
<1>0. AtReadCall \in ReaderRec /\ AtReadCall.at = "read"
  BY DEF AtReadCall, NoReader, ReaderRec
<1>1. /\ link' \in [Conn -> {"none", "up", "down"}] /\ nextTag' \in [Conn -> Nat]
      /\ reader' \in [Conn -> ReaderRec] /\ reader'[k] = AtReadCall
      /\ nextTag'[k] = 1
      /\ \A j \in Conn \ {k} : nextTag'[j] = nextTag[j] /\ reader'[j] = reader[j]
      /\ calls' = calls /\ closed' = closed /\ sending' = sending
      /\ requests' = requests /\ replies' = replies
  BY <1>0 DEF NewDemux, DemuxTypes
<1>2. DemuxTypes' /\ OnlyConn(k)
  BY <1>1 DEF DemuxTypes, OnlyConn
<1>3. \A c \in Call : sending[k][c].at = "none"
  BY DEF Unused, NotSent
<1>4. /\ \A m \in requests[k] : m.call \in Call
      /\ \A i \in DOMAIN replies[k] : replies[k][i].call \in Call
  BY ConnFields
<1>5. requests[k] = {} /\ DOMAIN replies[k] = {} /\ DOMAIN calls[k] = {}
  BY <1>3, <1>4 DEF ConnInv, OnTheWay, Tagged, ReaderState
<1>6. reader'[k].at = "read" /\ Reading(k)'
  BY <1>0, <1>1 DEF Reading
<1>7. CallsWait(k)' /\ OnTheWay(k)' /\ Once(k)' /\ Expected(k)'
  BY <1>1, <1>5 DEF CallsWait, OnTheWay, Once, Expected
<1>8. Owed(k)' /\ Answering(k)' /\ ReaderState(k)'
  BY <1>1, <1>3, <1>6 DEF Owed, InFlight, Answering, ReaderState
<1>9. \A c \in Call : ~Positive(k, c)'
  BY <1>1, <1>3, <1>5, <1>6 DEF Positive
<1> QED BY <1>1, <1>2, <1>6, <1>7, <1>8, <1>9 DEF ConnInv

\* SendReceive() begins.
LEMMA StartConn ==
  ASSUME DemuxTypes, NEW k \in Conn, ConnInv(k), NEW c \in Call,
         sending[k][c] = NotSent, reader[k].at # "exit", Goes(k, c, "start"),
         UNCHANGED <<nextTag, calls, closed, reader, socketVars>>
  PROVE  /\ DemuxTypes' /\ ConnInv(k)' /\ OnlyConn(k) /\ reader' = reader
         /\ \A d \in Call \ {c} : sending'[k][d] = sending[k][d]
         /\ \A d \in Call : Positive(k, d)' => Positive(k, d)
<1> DEFINE new == [sending[k][c] EXCEPT !.at = "start"]
<1>1. /\ sending' = [sending EXCEPT ![k] = [sending[k] EXCEPT ![c] = new]]
      /\ nextTag' = nextTag /\ calls' = calls /\ closed' = closed /\ reader' = reader
      /\ link' = link /\ requests' = requests /\ replies' = replies
  BY DEF Goes, socketVars
<1>2. sending[k][c] \in SendRec /\ sending[k][c].at = "none"
  BY DEF DemuxTypes, NotSent
<1>3. new \in SendRec /\ new.at = "start"
  BY <1>2 DEF SendRec
<1> HIDE DEF new
<1>4. /\ sending' \in [Conn -> [Call -> SendRec]]
      /\ \A j \in Conn \ {k} : sending'[j] = sending[j]
      /\ sending'[k][c] = new /\ \A d \in Call \ {c} : sending'[k][d] = sending[k][d]
  BY <1>1, <1>3 DEF DemuxTypes
<1>5. DemuxTypes' /\ OnlyConn(k)
  BY <1>1, <1>4 DEF DemuxTypes, OnlyConn
<1>6. /\ reader[k].call \subseteq Call
      /\ \A t \in DOMAIN calls[k] : calls[k][t] \in Call /\ t \in Nat
      /\ \A m \in requests[k] : m.call \in Call
      /\ \A i \in DOMAIN replies[k] : replies[k][i].call \in Call
  BY ConnFields
<1>7. /\ \A m \in requests[k] : m.call # c
      /\ \A i \in DOMAIN replies[k] : replies[k][i].call # c
      /\ \A t \in DOMAIN calls[k] : calls[k][t] # c
      /\ reader[k].at = "reply" => c \notin reader[k].call
  BY <1>2 DEF ConnInv, OnTheWay, Tagged, CallsWait, Answering, InFlight
<1>8. CallsWait(k)'
  BY <1>1, <1>4, <1>6, <1>7 DEF ConnInv, CallsWait, InFlight
<1>9. OnTheWay(k)' /\ Once(k)' /\ Expected(k)'
  BY <1>1, <1>4, <1>6, <1>7 DEF ConnInv, OnTheWay, Tagged, Once, Expected, Matches, Reading
<1>10. Owed(k)'
  BY <1>1, <1>3, <1>4 DEF ConnInv, Owed, InFlight, Reading
<1>11. Answering(k)'
  BY <1>1, <1>4, <1>6, <1>7 DEF ConnInv, Answering, InFlight
<1>12. ReaderState(k)'
  BY <1>1 DEF ConnInv, ReaderState, Reading
<1>13. \A d \in Call : Positive(k, d)' => Positive(k, d)
  BY <1>1, <1>3, <1>4 DEF Positive
<1> QED BY <1>1, <1>4, <1>5, <1>8, <1>9, <1>10, <1>11, <1>12, <1>13 DEF ConnInv

\* What Once says of the messages after a step.
LEMMA OnceAfter ==
  ASSUME NEW k, NEW R, NEW q, requests'[k] = R, replies'[k] = q,
         \A x \in R, i \in DOMAIN q : x.call # q[i].call,
         \A i, j \in DOMAIN q : q[i].call = q[j].call => i = j
  PROVE  Once(k)'
BY DEF Once

\* A request is answered.
LEMMA ServeConn ==
  ASSUME DemuxTypes, NEW k \in Conn, ConnInv(k), NEW c \in Call, NEW ok \in BOOLEAN,
         NEW m \in requests[k], m.call = c, UNCHANGED <<clientVars, link>>,
         requests' = [requests EXCEPT ![k] = @ \ {m}],
         replies' = IF link[k] = "up"
                      THEN [replies EXCEPT ![k] = Append(@, [tag |-> m.tag, call |-> c, ok |-> ok])]
                      ELSE replies
  PROVE  /\ DemuxTypes' /\ ConnInv(k)' /\ OnlyConn(k) /\ reader' = reader /\ sending' = sending
         /\ \A d \in Call : Positive(k, d)' => Positive(k, d) \/ (ok /\ d = c)
<1> DEFINE a == [tag |-> m.tag, call |-> c, ok |-> ok]
           q == replies[k]
           new == IF link[k] = "up" THEN Append(q, a) ELSE q
           R == requests[k] \ {m}
<1>1. /\ nextTag' = nextTag /\ calls' = calls /\ closed' = closed /\ reader' = reader
      /\ sending' = sending /\ link' = link
      /\ requests' = [requests EXCEPT ![k] = R] /\ replies' = [replies EXCEPT ![k] = new]
  BY DEF clientVars, DemuxTypes
<1>2. /\ m.call \in Call /\ m.tag \in Nat /\ q \in Seq(Reply) /\ R \in SUBSET Request
      /\ \A x \in requests[k] : x \in Request /\ x.call \in Call /\ x.tag \in Nat
  BY ConnFields
<1>3. a \in Reply /\ a.tag = m.tag /\ a.call = c /\ a.ok = ok
  BY <1>2 DEF Reply
<1> HIDE DEF a
<1>4. /\ new \in Seq(Reply)
      /\ \A i \in DOMAIN new : \/ i \in DOMAIN q /\ new[i] = q[i]
                               \/ i \notin DOMAIN q /\ i = Len(q) + 1 /\ new[i] = a
  <2> HIDE DEF q
  <2> QED BY <1>2, <1>3
<1> HIDE DEF new, R
<1>5. /\ requests' \in [Conn -> SUBSET Request] /\ replies' \in [Conn -> Seq(Reply)]
      /\ requests'[k] = R /\ replies'[k] = new
      /\ \A j \in Conn \ {k} : requests'[j] = requests[j] /\ replies'[j] = replies[j]
  BY <1>1, <1>2, <1>4 DEF DemuxTypes
<1>6. DemuxTypes' /\ OnlyConn(k)
  BY <1>1, <1>5 DEF DemuxTypes, OnlyConn
<1>7. Tagged(k, m) /\ Tagged(k, a)
  BY <1>3 DEF ConnInv, OnTheWay, Tagged
<1>8. \A x \in R : x \in requests[k] /\ x.call # c
  <2> SUFFICES ASSUME NEW x \in requests[k], x.call = c PROVE x = m
    BY DEF R
  <2>1. x.tag = m.tag
    BY <1>7 DEF ConnInv, OnTheWay, Tagged
  <2>2. x \in Request /\ m \in Request
    BY <1>2
  <2> QED BY <2>1, <2>2 DEF Request
<1>9. \A i \in DOMAIN q : q[i].call # c
  BY DEF ConnInv, Once
<1>10. OnTheWay(k)'
  <2>1. /\ \A x \in requests[k] : Tagged(k, x)
        /\ \A i \in DOMAIN q : Tagged(k, q[i])
    BY DEF ConnInv, OnTheWay
  <2> HIDE DEF q
  <2>2. \A x \in R : Tagged(k, x)
    BY <1>8, <2>1
  <2>3. \A i \in DOMAIN new : Tagged(k, new[i])
    <3>1. ASSUME NEW i \in DOMAIN new PROVE Tagged(k, new[i])
      <4>1. CASE i \in DOMAIN q /\ new[i] = q[i]
        BY <2>1, <4>1
      <4>2. CASE new[i] = a
        BY <1>7, <4>2
      <4> QED BY <1>4, <4>1, <4>2
    <3> QED BY <3>1
  <2>4. sending' = sending /\ requests'[k] = R /\ replies'[k] = new
    BY <1>1, <1>5
  <2> QED BY <2>2, <2>3, <2>4 DEF OnTheWay, Tagged
<1>11. Once(k)'
  <2>1. \A x \in R, i \in DOMAIN new : x.call # new[i].call
    BY <1>3, <1>4, <1>8 DEF ConnInv, Once
  <2>2. \A i, j \in DOMAIN q : q[i].call = q[j].call => i = j
    BY DEF ConnInv, Once
  <2>3. \A i, j \in DOMAIN new : new[i].call = new[j].call => i = j
    <3> HIDE DEF q
    <3> QED BY <1>3, <1>4, <1>9, <2>2
  <2> QED BY ONLY <1>5, <2>1, <2>3, OnceAfter
<1>12. Expected(k)'
  <2> SUFFICES ASSUME Reading(k)
               PROVE  (\A x \in R : Matches(k, x)) /\ (\A i \in DOMAIN new : Matches(k, new[i]))
    BY <1>1, <1>5 DEF Expected, Matches, Reading
  <2>1. \A x \in R : Matches(k, x)
    BY <1>8 DEF ConnInv, Expected
  <2>2. Matches(k, m) /\ \A i \in DOMAIN q : Matches(k, q[i])
    BY DEF ConnInv, Expected
  <2>3. Matches(k, a)
    BY <1>3, <2>2 DEF Matches
  <2> QED BY <1>4, <2>1, <2>2, <2>3
<1>13. CallsWait(k)' /\ Owed(k)' /\ Answering(k)' /\ ReaderState(k)'
  BY <1>1 DEF ConnInv, CallsWait, Owed, Answering, ReaderState, InFlight, Reading
<1>14. \A d \in Call : Positive(k, d)' => Positive(k, d) \/ (ok /\ d = c)
  <2> SUFFICES ASSUME NEW d \in Call, NEW i \in DOMAIN new, new[i].ok, new[i].call = d
               PROVE  Positive(k, d) \/ (ok /\ d = c)
    BY <1>1, <1>5 DEF Positive
  <2> QED BY <1>3, <1>4 DEF Positive
<1> QED BY <1>1, <1>6, <1>10, <1>11, <1>12, <1>13, <1>14 DEF ConnInv

\* Close() of the socket, and of the callmap.
LEMMA CloseConn ==
  ASSUME DemuxTypes, NEW k \in Conn, ConnInv(k), CloseTransport(k) \/ CloseCallMap(k)
  PROVE  DemuxTypes' /\ ConnInv(k)' /\ OnlyConn(k) /\ Harmless(k)
<1>1. /\ nextTag' = nextTag /\ calls' = calls /\ reader' = reader /\ sending' = sending
      /\ requests' = requests /\ replies' = replies
      /\ closed'[k] = closed[k] \/ closed'[k] = TRUE
      /\ \A j \in Conn \ {k} : closed'[j] = closed[j]
      /\ link' \in [Conn -> {"none", "up", "down"}] /\ closed' \in [Conn -> BOOLEAN]
  BY DEF CloseTransport, CloseCallMap, clientVars, socketVars, DemuxTypes
<1>2. DemuxTypes' /\ OnlyConn(k)
  BY <1>1 DEF DemuxTypes, OnlyConn
<1>3. CallsWait(k)' /\ OnTheWay(k)' /\ Once(k)' /\ Expected(k)'
  BY <1>1 DEF ConnInv, CallsWait, OnTheWay, Tagged, Once, Expected, Matches, Reading, InFlight
<1>4. Owed(k)' /\ Answering(k)' /\ ReaderState(k)'
  BY <1>1 DEF ConnInv, Owed, Answering, ReaderState, InFlight, Reading
<1>5. Harmless(k)
  BY <1>1 DEF Harmless, Positive
<1> QED BY <1>2, <1>3, <1>4, <1>5 DEF ConnInv

\* A process is killed: the connection to it loses its requests, the one from it everything.
LEMMA KillConn ==
  ASSUME DemuxTypes, NEW in \in Conn, NEW out \in Conn, in # out, ConnInv(in), ConnInv(out),
         link' = [link EXCEPT ![in] = "down", ![out] = "down"],
         requests' = [requests EXCEPT ![in] = {}],
         replies' = [replies EXCEPT ![out] = <<>>],
         calls' = [calls EXCEPT ![out] = NoCalls],
         reader' = [reader EXCEPT ![out] = NoReader],
         sending' = [sending EXCEPT ![out] =
                       [c \in Call |-> IF @[c] = NotSent THEN NotSent ELSE [@[c] EXCEPT !.at = "gone"]]],
         UNCHANGED <<nextTag, closed>>
  PROVE  /\ DemuxTypes' /\ ConnInv(in)' /\ ConnInv(out)' /\ Harmless(in)
         /\ reader'[out].at = "exit"
         /\ \A c \in Call : sending'[out][c] = NotSent <=> sending[out][c] = NotSent
         /\ \A j \in Conn \ {in, out} :
               /\ nextTag'[j] = nextTag[j] /\ calls'[j] = calls[j] /\ closed'[j] = closed[j]
               /\ sending'[j] = sending[j] /\ reader'[j] = reader[j]
               /\ requests'[j] = requests[j] /\ replies'[j] = replies[j]
<1> DEFINE gone == [c \in Call |-> IF sending[out][c] = NotSent THEN NotSent
                                      ELSE [sending[out][c] EXCEPT !.at = "gone"]]
<1>1. NoCalls \in CallMap /\ DOMAIN NoCalls = {}
  <2>1. {} \in SUBSET Nat /\ NoCalls \in [{} -> Call]
    BY DEF NoCalls
  <2> QED BY <2>1, IsCallMap DEF NoCalls
<1>2. NoReader \in ReaderRec /\ NoReader.at = "exit"
  BY DEF NoReader, ReaderRec
<1>3. \A c \in Call : sending[out][c] \in SendRec
  BY DEF DemuxTypes
<1>4. ASSUME NEW c \in Call
      PROVE  /\ gone[c] \in SendRec /\ gone[c].at \in {"none", "gone"}
             /\ gone[c] = NotSent <=> sending[out][c] = NotSent
             /\ gone[c].tag = sending[out][c].tag
             /\ gone[c].at = "none" => sending[out][c] = NotSent
  <2> DEFINE old == sending[out][c]
             new == [old EXCEPT !.at = "gone"]
  <2>1. old \in SendRec /\ gone[c] = IF old = NotSent THEN NotSent ELSE new
    BY <1>3
  <2> HIDE DEF gone, old
  <2>2. new \in SendRec /\ new.at = "gone" /\ new.tag = old.tag
    BY <2>1 DEF SendRec
  <2> HIDE DEF new
  <2>3. NotSent \in SendRec /\ NotSent.at = "none" /\ new # NotSent
    BY <2>2 DEF NotSent, SendRec
  <2>4. /\ gone[c] \in SendRec /\ gone[c].at \in {"none", "gone"}
        /\ gone[c] = NotSent <=> old = NotSent
        /\ gone[c].tag = old.tag
        /\ gone[c].at = "none" => old = NotSent
    BY <2>1, <2>2, <2>3
  <2> QED BY <2>4 DEF old
<1>5. gone \in [Call -> SendRec] /\ sending' = [sending EXCEPT ![out] = gone]
  BY <1>4
<1> HIDE DEF gone
<1>6. /\ link' \in [Conn -> {"none", "up", "down"}] /\ requests' \in [Conn -> SUBSET Request]
      /\ calls' \in [Conn -> CallMap] /\ reader' \in [Conn -> ReaderRec]
      /\ sending' \in [Conn -> [Call -> SendRec]]
      /\ calls'[out] = NoCalls /\ reader'[out] = NoReader /\ sending'[out] = gone
      /\ requests'[out] = requests[out] /\ requests'[in] = {}
      /\ calls'[in] = calls[in] /\ reader'[in] = reader[in] /\ sending'[in] = sending[in]
      /\ nextTag' = nextTag /\ closed' = closed
      /\ \A j \in Conn \ {in, out} :
            /\ calls'[j] = calls[j] /\ sending'[j] = sending[j] /\ reader'[j] = reader[j]
            /\ requests'[j] = requests[j]
  BY <1>1, <1>2, <1>5 DEF DemuxTypes
<1>7. /\ replies' \in [Conn -> Seq(Reply)] /\ replies'[out] = <<>>
      /\ \A j \in Conn \ {out} : replies'[j] = replies[j]
  <2> DEFINE none == <<>>
  <2>1. none \in Seq(Reply) /\ replies' = [replies EXCEPT ![out] = none]
    OBVIOUS
  <2> HIDE DEF none
  <2>2. /\ replies' \in [Conn -> Seq(Reply)] /\ replies'[out] = none
        /\ \A j \in Conn \ {out} : replies'[j] = replies[j]
    BY <2>1 DEF DemuxTypes
  <2> QED BY <2>2 DEF none
<1>8. DemuxTypes'
  BY <1>6, <1>7 DEF DemuxTypes
<1>9. ConnInv(in)'
  <2>1. CallsWait(in)' /\ OnTheWay(in)' /\ Once(in)' /\ Expected(in)'
    BY <1>6, <1>7 DEF ConnInv, CallsWait, OnTheWay, Tagged, Once, Expected, Matches, InFlight, Reading
  <2>2. Owed(in)' /\ Answering(in)' /\ ReaderState(in)'
    BY <1>6, <1>7 DEF ConnInv, Owed, Answering, ReaderState, InFlight, Reading
  <2> QED BY <2>1, <2>2 DEF ConnInv
<1>10. Harmless(in)
  BY <1>6, <1>7 DEF Harmless, Positive
<1>11. reader'[out].at = "exit" /\ ~Reading(out)' /\ DOMAIN (replies'[out]) = {}
  BY <1>2, <1>6, <1>7 DEF Reading
<1>12. ConnInv(out)'
  <2>1. CallsWait(out)' /\ Expected(out)' /\ Answering(out)' /\ Once(out)'
    BY <1>1, <1>6, <1>11 DEF CallsWait, Expected, Answering, Once
  <2>2. OnTheWay(out)'
    <3>1. \A m \in requests[out] : m.call \in Call /\ Tagged(out, m)
      BY ConnFields DEF ConnInv, OnTheWay
    <3>2. ASSUME NEW m \in requests[out] PROVE Tagged(out, m)'
      <4>1. gone[m.call].tag = m.tag /\ gone[m.call].at = "gone"
        BY <1>4, <3>1 DEF Tagged, NotSent
      <4> QED BY <1>6, <4>1 DEF Tagged
    <3> QED BY <1>6, <1>11, <3>2 DEF OnTheWay
  <2>3. Owed(out)' /\ ReaderState(out)'
    BY <1>1, <1>4, <1>6, <1>11 DEF Owed, InFlight, ReaderState
  <2> QED BY <2>1, <2>2, <2>3 DEF ConnInv
<1> QED BY <1>4, <1>6, <1>7, <1>8, <1>9, <1>10, <1>11, <1>12

-----------------------------------------------------------------------------
(* STEPS OF THE TESTER *)

\* The connections of a server, and when two of them are the same.
LEMMA Conns ==
  ASSUME NEW s \in Server, NEW i \in Incarnation
  PROVE  /\ In(s, i) \in Conn /\ Out(s, i) \in Conn
         /\ \A t \in Server, j \in Incarnation :
               /\ In(s, i) # Out(t, j)
               /\ In(s, i) = In(t, j) => s = t /\ i = j
               /\ Out(s, i) = Out(t, j) => s = t /\ i = j
BY TesterAssumption DEF In, Out

\* The tester is at one point, of one server.
LEMMA TesterAtOne ==
  ASSUME NEW s \in Server, NEW t \in Server, NEW a, NEW b
  PROVE  /\ TesterAt(s, a) /\ TesterAt(t, b) => s = t /\ a = b
         /\ TesterAt(s, a) /\ tester = Ready => a = "ready"
         /\ tester' = [at |-> a, srv |-> {s}] => (TesterAt(t, b)' <=> s = t /\ a = b)
         /\ tester' = Ready => (TesterAt(t, b)' => b = "ready")
<1>1. ASSUME [at |-> a, srv |-> {s}] = [at |-> b, srv |-> {t}] PROVE s = t /\ a = b
  <2>1. /\ [at |-> a, srv |-> {s}].at = a /\ [at |-> b, srv |-> {t}].at = b
        /\ [at |-> a, srv |-> {s}].srv = {s} /\ [at |-> b, srv |-> {t}].srv = {t}
    OBVIOUS
  <2>2. a = b /\ {s} = {t}
    BY <1>1, <2>1
  <2> QED BY <2>2
<1>2. \A x \in Server : \A c : [at |-> c, srv |-> {x}] = Ready => c = "ready"
  <2> SUFFICES ASSUME NEW x \in Server, NEW c, [at |-> c, srv |-> {x}] = [at |-> "ready", srv |-> {}]
               PROVE  c = "ready"
    BY DEF Ready
  <2> QED OBVIOUS
<1> QED BY <1>1, <1>2 DEF TesterAt

\* A step of connection k, and a step of none.
LEMMA OthersKeep ==
  ASSUME TesterInv, NEW k \in Conn, ConnInv(k)', OnlyConn(k)
  PROVE  /\ \A j \in Conn : ConnInv(j)'
         /\ \A j \in Conn \ {k} : sending'[j] = sending[j] /\ reader'[j] = reader[j] /\ Harmless(j)
<1>1. ASSUME NEW j \in Conn \ {k}
      PROVE  ConnInv(j)' /\ sending'[j] = sending[j] /\ reader'[j] = reader[j] /\ Harmless(j)
  <2>1. ConnInv(j)
    BY DEF TesterInv
  <2> QED BY <1>1, <2>1, SameConn DEF OnlyConn
<1> QED BY <1>1

LEMMA AllKeep ==
  ASSUME TesterInv, UNCHANGED demuxVars
  PROVE  DemuxTypes' /\ \A j \in Conn : ConnInv(j)' /\ Harmless(j)
<1>1. UNCHANGED <<link, nextTag, calls, closed, sending, reader, requests, replies>>
  BY DEF demuxVars, clientVars, socketVars
<1>2. DemuxTypes'
  BY <1>1 DEF TesterInv, DemuxTypes
<1>3. ASSUME NEW j \in Conn PROVE ConnInv(j)' /\ Harmless(j)
  <2>1. ConnInv(j)
    BY DEF TesterInv
  <2> QED BY <1>1, <2>1, SameConn
<1> QED BY <1>2, <1>3

\* No connection becomes used or unused, or is made or lost, and a new positive answer is to
\* a call whose effect is saved.
Calm ==
    \A s \in Server, i \in Incarnation :
        /\ \A c \in Call : /\ sending'[In(s, i)][c] = NotSent <=> sending[In(s, i)][c] = NotSent
                           /\ sending'[Out(s, i)][c] = NotSent <=> sending[Out(s, i)][c] = NotSent
                           /\ Positive(In(s, i), c)' => Positive(In(s, i), c) \/ c \in persister'[s]
        /\ reader'[In(s, i)].at = "exit" <=> reader[In(s, i)].at = "exit"
        /\ reader'[Out(s, i)].at = "exit" <=> reader[Out(s, i)].at = "exit"

LEMMA HarmlessIsCalm ==
  ASSUME \A j \in Conn : Harmless(j)
  PROVE  Calm
BY Conns DEF Calm, Harmless

LEMMA CalmStep ==
  ASSUME TesterInv, Calm, inc' = inc, proc' = proc, \A s \in Server : persister[s] \subseteq persister'[s]
  PROVE  /\ \A s \in Server : ConnState(s)' /\ Effective(s)'
         /\ call' = call => \A c \in Call : CallState(c)'
<1>1. \A s \in Server : inc[s] \in Incarnation
  BY DEF TesterInv, TesterTypes
<1>2. ASSUME NEW s \in Server PROVE ConnState(s)'
  <2>1. ConnState(s)
    BY DEF TesterInv
  <2>2. \A i \in Incarnation : /\ Unused(In(s, i))' <=> Unused(In(s, i))
                               /\ Unused(Out(s, i))' <=> Unused(Out(s, i))
    BY DEF Unused, Calm
  <2>3. \A i \in Incarnation : /\ (reader[In(s, i)].at = "exit")' <=> reader[In(s, i)].at = "exit"
                               /\ (reader[Out(s, i)].at = "exit")' <=> reader[Out(s, i)].at = "exit"
    BY DEF Calm
  <2> QED BY <1>1, <2>1, <2>2, <2>3 DEF ConnState, In, Out
<1>3. ASSUME NEW s \in Server PROVE Effective(s)'
  <2>1. Effective(s) /\ In(s, inc[s])' = In(s, inc[s])
    BY DEF TesterInv, In
  <2> QED BY <1>1, <2>1 DEF Effective, Calm
<1>4. ASSUME call' = call, NEW c \in Call PROVE CallState(c)'
  <2>1. CallState(c)
    BY DEF TesterInv
  <2> QED BY <1>4, <2>1 DEF CallState, Calm
<1> QED BY <1>2, <1>3, <1>4

\* What has been acknowledged stays saved if no server forgets.
LEMMA AckedStays ==
  ASSUME TesterInv, route' = route, \A s \in Server : Durable(s) \subseteq Durable(s)',
         \A c \in Call : call'[c].at = "returned" /\ call'[c].ok =>
            (call[c].at = "returned" /\ call[c].ok) \/ c \in Durable(Target(c))
  PROVE  AckedIsPersisted'
<1> SUFFICES ASSUME NEW c \in Call, call'[c].at = "returned", call'[c].ok
             PROVE  c \in Durable(Target(c))'
  BY DEF AckedIsPersisted
<1>1. c \in Durable(Target(c))
  BY DEF TesterInv, AckedIsPersisted
<1>2. Target(c)' = Target(c) /\ Target(c) \in Server
  BY LabrpcAssumption DEF TesterInv, TesterTypes, Target
<1>3. \A s \in Server : s = Target(c) => (c \in Durable(s)' => c \in Durable(Target(c))')
  BY <1>2 DEF Durable, TesterAt
<1> QED BY <1>1, <1>2, <1>3

\* A step of a connection, with nothing else.
LEMMA QuietStep ==
  ASSUME TesterInv, DemuxTypes', \A j \in Conn : ConnInv(j)', Calm,
         UNCHANGED <<netVars, tester, connected, inc, proc, saved>>,
         persister' \in [Server -> SUBSET Call], \A s \in Server : persister[s] \subseteq persister'[s]
  PROVE  TesterInv'
<1>1. UNCHANGED <<route, enabled, servers, call, tester, connected, inc, proc, saved>>
  BY DEF netVars
<1>2. TesterTypes'
  BY <1>1 DEF TesterInv, TesterTypes
<1>3. \A s \in Server : ProcState(s)'
  BY <1>1 DEF TesterInv, ProcState, TesterAt, Ready
<1>4. /\ \A s \in Server : ConnState(s)' /\ Effective(s)'
      /\ \A c \in Call : CallState(c)'
  BY <1>1, CalmStep
<1>5. \A s \in Server : Durable(s) \subseteq Durable(s)'
  BY <1>1 DEF Durable, TesterAt
<1>6. AckedIsPersisted'
  BY <1>1, <1>5, AckedStays
<1> QED BY <1>2, <1>3, <1>4, <1>6 DEF TesterInv

LEMMA ConnStepInv ==
  ASSUME TesterInv, NEW s \in Server, NEW i \in Incarnation, ConnStep(s, i)
  PROVE  TesterInv'
<1>1. ASSUME NEW k \in Conn, ClientStep(k) PROVE TesterInv'
  <2>1. DemuxTypes' /\ ConnInv(k)' /\ OnlyConn(k) /\ Harmless(k)
    BY <1>1, ClientStepConn DEF TesterInv
  <2>2. \A j \in Conn : ConnInv(j)' /\ Harmless(j)
    BY <2>1, OthersKeep
  <2>3. UNCHANGED <<netVars, tester, connected, inc, proc, saved, persister>>
    BY DEF ConnStep, daemonVars
  <2>4. persister' \in [Server -> SUBSET Call] /\ \A t \in Server : persister[t] \subseteq persister'[t]
    BY <2>3 DEF TesterInv, TesterTypes
  <2> QED BY <2>1, <2>2, <2>3, <2>4, HarmlessIsCalm, QuietStep
<1>2. In(s, i) \in Conn /\ Out(s, i) \in Conn
  BY Conns
<1> QED BY <1>1, <1>2 DEF ConnStep

\* A request is answered over connection k: by the tester, or by the latest incarnation of a
\* server, which has saved the effect.
LEMMA ServeInv ==
  ASSUME TesterInv, NEW k \in Conn, NEW c \in Call, NEW ok \in BOOLEAN, Serve(k, c, ok),
         UNCHANGED <<clientVars, netVars, tester, connected, inc, proc, saved>>,
         persister' \in [Server -> SUBSET Call], \A s \in Server : persister[s] \subseteq persister'[s],
         \A s \in Server, i \in Incarnation : k = In(s, i) /\ ok => c \in persister'[s]
  PROVE  TesterInv'
<1>1. PICK m \in requests[k] :
        /\ m.call = c
        /\ requests' = [requests EXCEPT ![k] = @ \ {m}]
        /\ replies' = IF link[k] = "up"
                        THEN [replies EXCEPT ![k] = Append(@, [tag |-> m.tag, call |-> c, ok |-> ok])]
                        ELSE replies
        /\ UNCHANGED link
  BY DEF Serve
<1>2. UNCHANGED <<clientVars, link>> /\ DemuxTypes /\ ConnInv(k)
  BY <1>1 DEF TesterInv
<1>3. /\ DemuxTypes' /\ ConnInv(k)' /\ OnlyConn(k) /\ reader' = reader /\ sending' = sending
      /\ \A d \in Call : Positive(k, d)' => Positive(k, d) \/ (ok /\ d = c)
  BY <1>1, <1>2, ServeConn
<1>4. \A j \in Conn : ConnInv(j)'
  BY <1>3, OthersKeep
<1>5. \A j \in Conn \ {k} : Harmless(j)
  BY <1>3, OthersKeep
<1>6. ASSUME NEW s \in Server, NEW i \in Incarnation, NEW d \in Call, Positive(In(s, i), d)'
      PROVE  Positive(In(s, i), d) \/ d \in persister'[s]
  <2>1. CASE In(s, i) = k
    BY <1>3, <1>6, <2>1 DEF Positive
  <2>2. CASE In(s, i) # k
    BY <1>5, <1>6, <2>2, Conns DEF Harmless
  <2> QED BY <2>1, <2>2
<1>7. Calm
  BY <1>3, <1>6 DEF Calm
<1> QED BY <1>3, <1>4, <1>7, QuietStep

LEMMA HandlerInv ==
  ASSUME TesterInv, NEW s \in Server, NEW c \in Call, Handler(s, c)
  PROVE  TesterInv'
<1>1. inc[s] \in Incarnation /\ In(s, inc[s]) \in Conn
  BY Conns DEF TesterInv, TesterTypes
<1>2. /\ persister' \in [Server -> SUBSET Call] /\ \A t \in Server : persister[t] \subseteq persister'[t]
      /\ c \in persister'[s]
  <2> DEFINE P == persister[s] \cup {c}
  <2>1. persister' = [persister EXCEPT ![s] = P] /\ persister \in [Server -> SUBSET Call]
    BY DEF Handler, TesterInv, TesterTypes
  <2>2. P \in SUBSET Call /\ persister[s] \subseteq P /\ c \in P
    BY <2>1
  <2> HIDE DEF P
  <2> QED BY <2>1, <2>2
<1>3. \A t \in Server, i \in Incarnation : In(s, inc[s]) = In(t, i) => t = s
  BY <1>1, Conns
<1>4. Serve(In(s, inc[s]), c, TRUE) /\ UNCHANGED <<clientVars, netVars, tester, connected, inc, proc, saved>>
  BY DEF Handler
<1> DEFINE yes == TRUE
           k == In(s, inc[s])
<1>5. yes \in BOOLEAN /\ Serve(k, c, yes) /\ k \in Conn
      /\ \A t \in Server, i \in Incarnation : k = In(t, i) => c \in persister'[t]
  BY <1>1, <1>2, <1>3, <1>4
<1> HIDE DEF yes, k
<1> QED BY <1>2, <1>4, <1>5, ServeInv

LEMMA TesterForwardedInv ==
  ASSUME TesterInv, NEW s \in Server, NEW i \in Incarnation, NEW c \in Call, TesterForwarded(s, i, c)
  PROVE  TesterInv'
<1> DEFINE ok == call[c].ok
<1>1. ok \in BOOLEAN
  BY DEF TesterInv, TesterTypes, CallRec
<1>2. /\ Serve(Out(s, i), c, ok) /\ UNCHANGED <<clientVars, netVars, tester, connected, inc, proc, saved>>
      /\ persister' = persister
  BY DEF TesterForwarded, daemonVars
<1>3. persister' \in [Server -> SUBSET Call] /\ \A t \in Server : persister[t] \subseteq persister'[t]
  BY <1>2 DEF TesterInv, TesterTypes
<1>4. Out(s, i) \in Conn /\ \A t \in Server, j \in Incarnation : Out(s, i) # In(t, j)
  BY Conns
<1> HIDE DEF ok
<1> QED BY <1>1, <1>2, <1>3, <1>4, ServeInv

\* A call's own state changes, and nothing of the servers or the tester.
LEMMA CallStep ==
  ASSUME TesterInv, DemuxTypes', \A j \in Conn : ConnInv(j)', NEW c \in Call, NEW r \in CallRec,
         call' = [call EXCEPT ![c] = r],
         UNCHANGED <<route, enabled, servers, tester, connected, daemonVars>>,
         \A s \in Server : ConnState(s)' /\ Effective(s)',
         \A d \in Call \ {c} : CallState(d)', r # Idle, r.at = "wait" => r.server # 0,
         r.at = "returned" /\ r.ok => c \in Durable(Target(c))
  PROVE  TesterInv'
<1>1. UNCHANGED <<route, enabled, servers, tester, connected, inc, proc, persister, saved>>
  BY DEF daemonVars
<1>2. /\ call' \in [Call -> CallRec] /\ call'[c] = r
      /\ \A d \in Call \ {c} : call'[d] = call[d]
  BY DEF TesterInv, TesterTypes
<1>3. TesterTypes'
  BY <1>1, <1>2 DEF TesterInv, TesterTypes
<1>4. \A s \in Server : ProcState(s)'
  BY <1>1 DEF TesterInv, ProcState, TesterAt, Ready
<1>5. CallState(c)'
  BY <1>2 DEF CallState
<1>6. \A s \in Server : Durable(s) \subseteq Durable(s)'
  BY <1>1 DEF Durable, TesterAt
<1>7. AckedIsPersisted'
  BY <1>1, <1>2, <1>6, AckedStays
<1> QED BY <1>3, <1>4, <1>5, <1>7 DEF TesterInv

\* A call is answered, positively only if its effect is saved.
LEMMA AnswerInv ==
  ASSUME TesterInv, NEW c \in Call, NEW r \in CallRec, call' = [call EXCEPT ![c] = r],
         r.at = "returned", r # Idle, r.ok => c \in Durable(Target(c)),
         UNCHANGED <<route, enabled, servers, demuxVars, tester, connected, daemonVars>>
  PROVE  TesterInv'
<1>1. DemuxTypes' /\ \A j \in Conn : ConnInv(j)' /\ Harmless(j)
  BY AllKeep
<1>2. inc' = inc /\ proc' = proc /\ persister' = persister
  BY DEF daemonVars
<1>3. \A s \in Server : ConnState(s)' /\ Effective(s)'
  BY <1>1, <1>2, HarmlessIsCalm, CalmStep
<1>4. ASSUME NEW d \in Call \ {c} PROVE CallState(d)'
  <2>1. CallState(d) /\ call'[d] = call[d]
    BY DEF TesterInv, TesterTypes
  <2>2. Calm
    BY <1>1, HarmlessIsCalm
  <2> QED BY <2>1, <2>2 DEF CallState, Calm
<1> QED BY <1>1, <1>3, <1>4, CallStep

\* The server that a call was given to and that is still there has its effect in its
\* Persister, and that is what its next incarnation starts from.
LEMMA PassedIsDurable ==
  ASSUME TesterInv, NEW c \in Call, call[c].at = "wait",
         sending[In(Target(c), call[c].server)][c].at = "ok", ~IsServerDead(c)
  PROVE  c \in Durable(Target(c))
<1> DEFINE s == Target(c)
<1>1. s \in Server
  BY LabrpcAssumption DEF TesterInv, TesterTypes, Target
<1>2. servers[s] = call[c].server /\ servers[s] # 0
  BY DEF IsServerDead, TesterInv, CallState
<1> HIDE DEF s
<1>3. ProcState(s) /\ Effective(s)
  BY <1>1 DEF TesterInv
<1>4. servers[s] = inc[s] /\ proc[s] = "running" /\ ~TesterAt(s, "kill")
  BY <1>2, <1>3 DEF ProcState, Stopping
<1>5. c \in persister[s]
  BY <1>2, <1>3, <1>4 DEF Effective, Positive, s
<1> QED BY <1>4, <1>5 DEF Durable, s

LEMMA NetStepInv ==
  ASSUME TesterInv, NEW c \in Call, NetStep(c)
  PROVE  TesterInv'
<1>1. call[c] \in CallRec /\ call \in [Call -> CallRec]
  BY DEF TesterInv, TesterTypes
<1>2. UNCHANGED <<route, enabled, servers, demuxVars, tester, connected, daemonVars>>
  BY DEF NetStep, ProcessReq, GiveUp, Pass
<1>3. ASSUME NEW ok \in BOOLEAN, Answer(c, ok), ok => c \in Durable(Target(c))
      PROVE  TesterInv'
  <2> DEFINE old == call[c]
             r == [old EXCEPT !.at = "returned", !.ok = ok]
  <2>1. call' = [call EXCEPT ![c] = r] /\ old \in CallRec
    BY <1>1, <1>3 DEF Answer
  <2> HIDE DEF old
  <2>2. r \in CallRec /\ r.at = "returned" /\ r.ok = ok
    BY <2>1 DEF CallRec
  <2> HIDE DEF r
  <2>3. r # Idle
    BY <2>2 DEF Idle
  <2> QED BY <1>2, <1>3, <2>1, <2>2, <2>3, AnswerInv
<1>4. CASE GiveUp(c)
  <2> DEFINE no == FALSE
  <2>1. Answer(c, no) /\ no \in BOOLEAN /\ ~no
    BY <1>4 DEF GiveUp
  <2> HIDE DEF no
  <2> QED BY <1>3, <2>1
<1>5. CASE Pass(c)
  <2> DEFINE said == sending[In(Target(c), call[c].server)][c].at
  <2>1. PICK ok \in {FALSE, said = "ok" /\ ~IsServerDead(c)} : Answer(c, ok)
    BY <1>5 DEF Pass
  <2>2. ok \in BOOLEAN
    BY <2>1
  <2>3. ok => c \in Durable(Target(c))
    BY <1>5, <2>1, PassedIsDurable DEF Pass
  <2> QED BY <1>3, <2>1, <2>2, <2>3
<1> QED BY <1>4, <1>5 DEF NetStep, ProcessReq

\* Call() and Forward() hand a call to the network.
LEMMA SendInv ==
  ASSUME TesterInv, NEW c \in Call, NEW end \in EndSet, Send(c, end),
         UNCHANGED <<tester, connected, daemonVars>>
  PROVE  TesterInv'
<1>1. CASE Refuse(c, end)
  <2> DEFINE r == [at |-> "returned", end |-> end, server |-> 0, ok |-> FALSE]
  <2>1. /\ call' = [call EXCEPT ![c] = r]
        /\ UNCHANGED <<route, enabled, servers, demuxVars, tester, connected, daemonVars>>
    BY <1>1 DEF Refuse
  <2>2. r \in CallRec /\ r.at = "returned" /\ ~r.ok
    BY LabrpcAssumption DEF CallRec
  <2> HIDE DEF r
  <2>3. r # Idle
    BY <2>2 DEF Idle
  <2> QED BY <2>1, <2>2, <2>3, AnswerInv
<1>2. CASE Dispatch(c, end)
  <2> DEFINE s == Target(c)
             i == servers[s]
             k == In(s, i)
             r == [at |-> "wait", end |-> end, server |-> i, ok |-> FALSE]
  <2>1. s \in Server
    BY LabrpcAssumption DEF TesterInv, TesterTypes, Target
  <2>2. /\ call' = [call EXCEPT ![c] = r] /\ i # 0 /\ call[c] = Idle /\ Goes(k, c, "start")
        /\ UNCHANGED <<route, enabled, servers, tester, connected, daemonVars>>
        /\ UNCHANGED <<nextTag, calls, closed, reader, socketVars>>
    BY <1>2 DEF Dispatch
  <2>3. i \in 0 .. MaxStarts /\ inc[s] \in Incarnation
    BY <2>1 DEF TesterInv, TesterTypes
  <2>4. r \in CallRec /\ r.at = "wait" /\ r.server # 0
    <3> HIDE DEF i
    <3> QED BY <2>2, <2>3 DEF CallRec
  <2> HIDE DEF s, r
  <2>5. r # Idle
    BY <2>4 DEF Idle
  <2>6. i = inc[s] /\ proc[s] = "running" /\ i \in Incarnation /\ k \in Conn
    BY <2>1, <2>2, <2>3, Conns DEF TesterInv, ProcState
  <2>7. sending[k][c] = NotSent /\ reader[k].at # "exit"
    BY <2>1, <2>2, <2>6 DEF TesterInv, CallState, ConnState
  <2>8. DemuxTypes /\ ConnInv(k)
    BY <2>6 DEF TesterInv
  <2> HIDE DEF i
  <2>9. /\ inc' = inc /\ proc' = proc /\ persister' = persister /\ saved' = saved
    BY <2>2 DEF daemonVars
  <2>10. ASSUME NEW k0 \in Conn, k0 = k
         PROVE  /\ DemuxTypes' /\ ConnInv(k0)' /\ OnlyConn(k0) /\ reader' = reader
                /\ \A d \in Call \ {c} : sending'[k0][d] = sending[k0][d]
                /\ \A d \in Call : Positive(k0, d)' => Positive(k0, d)
    <3> HIDE DEF k
    <3>1. /\ DemuxTypes /\ ConnInv(k0) /\ sending[k0][c] = NotSent /\ reader[k0].at # "exit"
          /\ Goes(k0, c, "start")
      BY <2>2, <2>7, <2>8, <2>10 DEF Goes
    <3> QED BY <2>2, <3>1, StartConn
  <2>11. PICK k0 \in Conn : k0 = k
    BY <2>6
  <2>12. /\ \A j \in Conn : ConnInv(j)'
         /\ \A j \in Conn \ {k0} : sending'[j] = sending[j] /\ reader'[j] = reader[j] /\ Harmless(j)
    BY <2>10, <2>11, OthersKeep
  <2>13. \A t \in Server : ConnState(t)' /\ Effective(t)'
    <3>1. ASSUME NEW t \in Server PROVE ConnState(t)'
      <4>1. ConnState(t) /\ inc[t] \in Incarnation
        BY DEF TesterInv, TesterTypes
      <4>2. \A j \in Incarnation : /\ Out(t, j) \in Conn /\ Out(t, j) # k0
                                   /\ In(t, j) \in Conn
                                   /\ In(t, j) = k0 => t = s /\ j = inc[s]
        BY <2>1, <2>6, <2>11, Conns
      <4>3. \A j \in Incarnation :
               /\ Unused(Out(t, j)) => Unused(Out(t, j))'
               /\ In(t, j) # k0 => (Unused(In(t, j)) => Unused(In(t, j))')
        BY <2>12, <4>2 DEF Unused
      <4>4. inc[t] + 0 = inc[t] /\ \A j \in Incarnation : j > inc[t] => j # inc[t]
        BY <4>1 DEF Incarnation
      <4> QED BY <2>6, <2>9, <2>10, <2>11, <4>1, <4>2, <4>3, <4>4 DEF ConnState, In, Out
    <3>2. ASSUME NEW t \in Server PROVE Effective(t)'
      <4>1. Effective(t) /\ inc[t] \in Incarnation /\ In(t, inc[t]) \in Conn
        BY Conns DEF TesterInv, TesterTypes
      <4>2. \A d \in Call, j \in Conn : Positive(j, d)' => Positive(j, d)
        BY <2>10, <2>11, <2>12 DEF Harmless
      <4> QED BY <2>9, <4>1, <4>2 DEF Effective, In
    <3> QED BY <3>1, <3>2
  <2>14. ASSUME NEW d \in Call \ {c} PROVE CallState(d)'
    <3>1. CallState(d) /\ call'[d] = call[d]
      BY <2>2 DEF TesterInv, TesterTypes
    <3>2. \A j \in Conn : sending'[j][d] = sending[j][d]
      BY <2>10, <2>11, <2>12
    <3> QED BY <3>1, <3>2, Conns DEF CallState
  <2> QED BY <2>2, <2>4, <2>5, <2>10, <2>11, <2>12, <2>13, <2>14, CallStep
<1> QED BY <1>1, <1>2 DEF Send

LEMMA EndsExist ==
  ASSUME NEW s \in Server \cup {Clnt}, NEW i \in 0 .. MaxStarts, NEW t \in Server
  PROVE  End(s, i, t) \in EndSet
BY DEF End, EndSet

LEMMA ClntCallInv ==
  ASSUME TesterInv, NEW c \in Call, ClntCall(c)
  PROVE  TesterInv'
<1>1. Target(c) \in Server /\ 0 \in 0 .. MaxStarts
  BY LabrpcAssumption DEF TesterInv, TesterTypes, Target
<1>2. Send(c, End(Clnt, 0, Target(c))) /\ UNCHANGED <<tester, connected, daemonVars>>
  BY DEF ClntCall
<1>3. PICK end \in EndSet : end = End(Clnt, 0, Target(c))
  BY <1>1, EndsExist
<1>4. Send(c, end)
  BY <1>2, <1>3
<1> QED BY <1>2, <1>4, SendInv

LEMMA TesterForwardInv ==
  ASSUME TesterInv, NEW s \in Server, NEW i \in Incarnation, NEW c \in Call, TesterForward(s, i, c)
  PROVE  TesterInv'
<1>1. Target(c) \in Server /\ i \in 0 .. MaxStarts
  BY LabrpcAssumption DEF TesterInv, TesterTypes, Target, Incarnation
<1>2. Send(c, End(s, i, Target(c))) /\ UNCHANGED <<tester, connected, daemonVars>>
  BY DEF TesterForward
<1>3. PICK end \in EndSet : end = End(s, i, Target(c))
  BY <1>1, EndsExist
<1>4. Send(c, end)
  BY <1>2, <1>3
<1> QED BY <1>2, <1>4, SendInv

\* A server makes a call: the connection out of its process is its latest incarnation's.
LEMMA ForwardInv ==
  ASSUME TesterInv, NEW c \in Call, Forward(c)
  PROVE  TesterInv'
<1>1. PICK s \in Server : s = Caller(c)
  BY DEF Forward
<1>2. inc[s] \in Incarnation /\ Out(s, inc[s]) \in Conn
  BY Conns DEF TesterInv, TesterTypes
<1>3. PICK k \in Conn : k = Out(s, inc[s])
  BY <1>2
<1>4. /\ proc[s] = "running" /\ sending[k][c] = NotSent /\ Goes(k, c, "start")
      /\ UNCHANGED <<nextTag, calls, closed, reader, socketVars>>
      /\ UNCHANGED <<netVars, tester, connected, daemonVars>>
  BY <1>1, <1>3 DEF Forward, Goes
<1>5. DemuxTypes /\ ConnInv(k) /\ reader[k].at # "exit"
  BY <1>3, <1>4 DEF TesterInv, ConnState
<1>6. /\ DemuxTypes' /\ ConnInv(k)' /\ OnlyConn(k) /\ reader' = reader
      /\ \A d \in Call \ {c} : sending'[k][d] = sending[k][d]
      /\ \A d \in Call : Positive(k, d)' => Positive(k, d)
  BY <1>4, <1>5, StartConn
<1>7. /\ \A j \in Conn : ConnInv(j)'
      /\ \A j \in Conn \ {k} : sending'[j] = sending[j] /\ reader'[j] = reader[j] /\ Harmless(j)
  BY <1>6, OthersKeep
<1>8. UNCHANGED <<route, enabled, servers, call, tester, connected, inc, proc, persister, saved>>
  BY <1>4 DEF netVars, daemonVars
<1>9. \A t \in Server, i \in Incarnation :
         /\ In(t, i) \in Conn /\ In(t, i) # k /\ Out(t, i) \in Conn
         /\ Out(t, i) = k => t = s /\ i = inc[s]
  BY <1>2, <1>3, Conns
<1>10. \A t \in Server : ProcState(t)'
  BY <1>8 DEF TesterInv, ProcState, TesterAt, Ready
<1>11. ASSUME NEW t \in Server PROVE ConnState(t)'
  <2>1. ConnState(t) /\ inc[t] \in Incarnation
    BY DEF TesterInv, TesterTypes
  <2>2. \A i \in Incarnation :
           /\ Unused(In(t, i)) => Unused(In(t, i))'
           /\ Out(t, i) # k => (Unused(Out(t, i)) => Unused(Out(t, i))')
    BY <1>7, <1>9 DEF Unused
  <2>3. \A i \in Incarnation : i > inc[t] => i # inc[t]
    BY <2>1 DEF Incarnation
  <2> QED BY <1>6, <1>8, <1>9, <2>1, <2>2, <2>3 DEF ConnState, In, Out
<1>12. ASSUME NEW t \in Server PROVE Effective(t)'
  <2>1. Effective(t) /\ inc[t] \in Incarnation
    BY DEF TesterInv, TesterTypes
  <2>2. Harmless(In(t, inc[t]))
    BY <1>7, <1>9, <2>1
  <2> QED BY <1>8, <2>1, <2>2 DEF Effective, Harmless, In
<1>13. \A d \in Call : CallState(d)'
  BY <1>7, <1>8, <1>9 DEF TesterInv, CallState
<1>14. \A t \in Server : Durable(t) \subseteq Durable(t)'
  BY <1>8 DEF Durable, TesterAt
<1>15. AckedIsPersisted'
  BY <1>8, <1>14, AckedStays
<1>16. TesterTypes'
  BY <1>8 DEF TesterInv, TesterTypes
<1> QED BY <1>6, <1>7, <1>10, <1>11, <1>12, <1>13, <1>15, <1>16 DEF TesterInv

-----------------------------------------------------------------------------
(* STARTING AND STOPPING SERVERS *)

\* The tester moves on, and no connection or process changes that anybody minds.
LEMMA TesterStep ==
  ASSUME TesterInv, DemuxTypes', \A j \in Conn : ConnInv(j)' /\ Harmless(j),
         UNCHANGED <<route, call, inc, proc, persister>>, TesterTypes',
         \A s \in Server : ProcState(s)' /\ Durable(s) \subseteq Durable(s)'
  PROVE  TesterInv'
<1>1. /\ \A s \in Server : ConnState(s)' /\ Effective(s)'
      /\ \A c \in Call : CallState(c)'
  BY HarmlessIsCalm, CalmStep
<1>2. AckedIsPersisted'
  BY AckedStays
<1> QED BY <1>1, <1>2 DEF TesterInv

LEMMA ServerStartedInv ==
  ASSUME TesterInv, NEW s \in Server, ServerStarted(s)
  PROVE  TesterInv'
<1>1. /\ TesterAt(s, "waitInit") /\ proc[s] = "running" /\ servers' = [servers EXCEPT ![s] = inc[s]]
      /\ tester' = Ready /\ UNCHANGED <<demuxVars, route, enabled, call, connected>>
      /\ UNCHANGED <<inc, proc, persister, saved>>
  BY DEF ServerStarted, InitWaitReturns, AddServer, daemonVars
<1>2. DemuxTypes' /\ \A j \in Conn : ConnInv(j)' /\ Harmless(j)
  BY <1>1, AllKeep
<1>3. /\ inc[s] \in 0 .. MaxStarts /\ servers' \in [Server -> 0 .. MaxStarts] /\ servers'[s] = inc[s]
      /\ \A t \in Server \ {s} : servers'[t] = servers[t]
  BY <1>1 DEF TesterInv, TesterTypes, Incarnation
<1>4. TesterTypes'
  BY <1>1, <1>3 DEF TesterInv, TesterTypes
<1>5. ASSUME NEW t \in Server PROVE ProcState(t)'
  <2>1. \A a \in {"init", "waitInit"} \cup Stopping : ~TesterAt(t, a)'
    BY <1>1, TesterAtOne DEF Stopping
  <2>2. ~TesterAt(t, "init") /\ (t # s => ~TesterAt(t, "waitInit"))
    BY <1>1, TesterAtOne
  <2>3. ProcState(t)
    BY DEF TesterInv
  <2> QED BY <1>1, <1>3, <2>1, <2>2, <2>3 DEF ProcState
<1>6. ASSUME NEW t \in Server PROVE Durable(t) \subseteq Durable(t)'
  <2>1. ~TesterAt(t, "kill") /\ ~TesterAt(t, "kill")'
    BY <1>1, TesterAtOne
  <2> QED BY <1>1, <2>1 DEF Durable
<1> QED BY <1>1, <1>2, <1>4, <1>5, <1>6, TesterStep

LEMMA ShutdownServerInv ==
  ASSUME TesterInv, NEW s \in Server, ShutdownServer(s)
  PROVE  TesterInv'
<1>1. /\ tester = Ready /\ proc[s] = "running" /\ enabled' \subseteq enabled
      /\ connected' = [connected EXCEPT ![s] = FALSE]
      /\ tester' = [at |-> "delete", srv |-> {s}] /\ UNCHANGED <<demuxVars, route, servers, call>>
      /\ UNCHANGED <<inc, proc, persister, saved>>
  BY DEF ShutdownServer, Disconnect, Disable, Turns, daemonVars
<1>2. DemuxTypes' /\ \A j \in Conn : ConnInv(j)' /\ Harmless(j)
  BY <1>1, AllKeep
<1>4. TesterTypes'
  BY <1>1 DEF TesterInv, TesterTypes
<1>5. ASSUME NEW t \in Server PROVE ProcState(t)' /\ Durable(t) \subseteq Durable(t)'
  <2>1. \A a \in {"init", "waitInit"} \cup Stopping : TesterAt(t, a)' <=> t = s /\ a = "delete"
    BY <1>1, TesterAtOne DEF Stopping
  <2>2. \A a \in {"init", "waitInit"} \cup Stopping : ~TesterAt(t, a)
    BY <1>1, TesterAtOne DEF Stopping
  <2>3. ProcState(t) /\ TesterAt(s, "delete")'
    BY <1>1 DEF TesterInv, TesterAt
  <2>4. Durable(t) \subseteq Durable(t)'
    BY <1>1, <2>1, <2>2 DEF Durable, Stopping
  <2> QED BY <1>1, <2>1, <2>2, <2>3, <2>4 DEF ProcState, Stopping
<1> QED BY <1>1, <1>2, <1>4, <1>5, TesterStep

LEMMA ShutdownDeleteInv ==
  ASSUME TesterInv, NEW s \in Server, ShutdownDelete(s)
  PROVE  TesterInv'
<1>1. /\ TesterAt(s, "delete") /\ servers' = [servers EXCEPT ![s] = 0]
      /\ tester' = [at |-> "close", srv |-> {s}] /\ UNCHANGED <<demuxVars, route, enabled, call, connected>>
      /\ UNCHANGED <<inc, proc, persister, saved>>
  BY DEF ShutdownDelete, DeleteServer, Turns, daemonVars
<1>2. DemuxTypes' /\ \A j \in Conn : ConnInv(j)' /\ Harmless(j)
  BY <1>1, AllKeep
<1>3. /\ servers' \in [Server -> 0 .. MaxStarts] /\ servers'[s] = 0
      /\ \A t \in Server \ {s} : servers'[t] = servers[t]
  BY <1>1, LabrpcAssumption DEF TesterInv, TesterTypes
<1>4. TesterTypes'
  BY <1>1, <1>3 DEF TesterInv, TesterTypes
<1>5. ASSUME NEW t \in Server PROVE ProcState(t)' /\ Durable(t) \subseteq Durable(t)'
  <2>1. \A a \in {"init", "waitInit"} \cup Stopping : TesterAt(t, a)' <=> t = s /\ a = "close"
    BY <1>1, TesterAtOne DEF Stopping
  <2>2. \A a \in {"init", "waitInit"} \cup Stopping : TesterAt(t, a) => t = s /\ a = "delete"
    BY <1>1, TesterAtOne DEF Stopping
  <2>3. ProcState(t) /\ TesterAt(s, "close")'
    BY <1>1 DEF TesterInv, TesterAt
  <2>4. Durable(t) \subseteq Durable(t)'
    BY <1>1, <2>1, <2>2 DEF Durable, Stopping
  <2> QED BY <1>1, <1>3, <2>1, <2>2, <2>3, <2>4 DEF ProcState, Stopping
<1> QED BY <1>1, <1>2, <1>4, <1>5, TesterStep

\* Close(), of the socket or of the callmap, on the connection out of a process.
LEMMA CheckpointCloseInv ==
  ASSUME TesterInv, NEW s \in Server, CheckpointClose(s) \/ CheckpointCloseMap(s)
  PROVE  TesterInv'
<1>1. PICK a \in {"close", "closeMap"}, b \in {"closeMap", "copy"} :
         TesterAt(s, a) /\ tester' = [at |-> b, srv |-> {s}]
  BY DEF CheckpointClose, CheckpointCloseMap, Turns
<1>2. UNCHANGED <<route, enabled, servers, call, connected, inc, proc, persister, saved>>
  BY DEF CheckpointClose, CheckpointCloseMap, netVars, daemonVars
<1>3. inc[s] \in Incarnation /\ Out(s, inc[s]) \in Conn
  BY Conns DEF TesterInv, TesterTypes
<1>4. PICK k \in Conn : k = Out(s, inc[s])
  BY <1>3
<1>5. CloseTransport(k) \/ CloseCallMap(k)
  BY <1>4 DEF CheckpointClose, CheckpointCloseMap
<1>6. DemuxTypes' /\ ConnInv(k)' /\ OnlyConn(k) /\ Harmless(k)
  BY <1>5, CloseConn DEF TesterInv
<1>7. \A j \in Conn : ConnInv(j)' /\ Harmless(j)
  BY <1>6, OthersKeep
<1>8. TesterTypes'
  BY <1>2 DEF TesterInv, TesterTypes
<1>9. ASSUME NEW t \in Server PROVE ProcState(t)' /\ Durable(t) \subseteq Durable(t)'
  <2>1. \A x \in {"init", "waitInit"} \cup Stopping : TesterAt(t, x)' <=> t = s /\ x = b
    BY <1>1, TesterAtOne DEF Stopping
  <2>2. \A x \in {"init", "waitInit"} \cup Stopping : TesterAt(t, x) => t = s /\ x = a
    BY <1>1, TesterAtOne DEF Stopping
  <2>3. ProcState(t) /\ TesterAt(s, b)'
    BY <1>1 DEF TesterInv, TesterAt
  <2>4. Durable(t) \subseteq Durable(t)'
    BY <1>2, <2>1, <2>2 DEF Durable, Stopping
  <2> QED BY <1>1, <1>2, <2>1, <2>2, <2>3, <2>4 DEF ProcState, Stopping
<1> QED BY <1>2, <1>6, <1>7, <1>8, <1>9, TesterStep

LEMMA CheckpointCopyInv ==
  ASSUME TesterInv, NEW s \in Server, CheckpointCopy(s)
  PROVE  TesterInv'
<1>1. /\ TesterAt(s, "copy") /\ saved' = [saved EXCEPT ![s] = persister[s]]
      /\ tester' = [at |-> "kill", srv |-> {s}]
      /\ UNCHANGED <<demuxVars, route, enabled, servers, call, connected, inc, proc, persister>>
  BY DEF CheckpointCopy, Turns, netVars
<1>2. DemuxTypes' /\ \A j \in Conn : ConnInv(j)' /\ Harmless(j)
  BY <1>1, AllKeep
<1>3. saved' \in [Server -> SUBSET Call] /\ saved'[s] = persister[s] /\ \A t \in Server \ {s} : saved'[t] = saved[t]
  <2> DEFINE P == persister[s]
  <2>1. P \in SUBSET Call /\ saved' = [saved EXCEPT ![s] = P] /\ saved \in [Server -> SUBSET Call]
    BY <1>1 DEF TesterInv, TesterTypes
  <2> HIDE DEF P
  <2>2. saved' \in [Server -> SUBSET Call] /\ saved'[s] = P /\ \A t \in Server \ {s} : saved'[t] = saved[t]
    BY <2>1
  <2> QED BY <2>2 DEF P
<1>4. TesterTypes'
  BY <1>1, <1>3 DEF TesterInv, TesterTypes
<1>5. ASSUME NEW t \in Server PROVE ProcState(t)' /\ Durable(t) \subseteq Durable(t)'
  <2>1. \A a \in {"init", "waitInit"} \cup Stopping : TesterAt(t, a)' <=> t = s /\ a = "kill"
    BY <1>1, TesterAtOne DEF Stopping
  <2>2. \A a \in {"init", "waitInit"} \cup Stopping : TesterAt(t, a) => t = s /\ a = "copy"
    BY <1>1, TesterAtOne DEF Stopping
  <2>3. ProcState(t) /\ ProcState(s) /\ TesterAt(s, "kill")'
    BY <1>1 DEF TesterInv, TesterAt
  <2>4. Durable(t) \subseteq Durable(t)'
    BY <1>1, <1>3, <2>1, <2>2, <2>3 DEF Durable, Stopping, ProcState
  <2> QED BY <1>1, <2>1, <2>2, <2>3, <2>4 DEF ProcState, Stopping
<1> QED BY <1>1, <1>2, <1>4, <1>5, TesterStep

\* The ends between a server and others are ends of the network.
LEMMA EndsBetweenEnds ==
  ASSUME TesterInv, NEW s \in Server, NEW T \in SUBSET Server
  PROVE  EndsBetween(s, T) \subseteq EndSet
<1>1. \A t \in Server : inc[t] \in 0 .. MaxStarts
  BY DEF TesterInv, TesterTypes, Incarnation
<1> QED BY <1>1, EndsExist DEF EndsBetween

LEMMA ConnectInv ==
  ASSUME TesterInv, NEW s \in Server, Connect(s) \/ DisconnectAll(s)
  PROVE  TesterInv'
<1>1. UNCHANGED <<demuxVars, route, servers, call, tester, inc, proc, persister, saved>>
  BY DEF Connect, DisconnectAll, daemonVars
<1>2. DemuxTypes' /\ \A j \in Conn : ConnInv(j)' /\ Harmless(j)
  BY <1>1, AllKeep
<1>3. enabled' \subseteq EndSet /\ connected' \in [Server -> BOOLEAN]
  <2>1. connected' \in [Server -> BOOLEAN]
    BY DEF Connect, DisconnectAll, Disconnect, TesterInv, TesterTypes
  <2>2. CASE Connect(s)
    <3> DEFINE T == {t \in Server : connected'[t]}
    <3>1. enabled' = enabled \cup EndsBetween(s, T) /\ T \in SUBSET Server
      BY <2>2 DEF Connect, Enable
    <3> HIDE DEF T
    <3> QED BY <2>1, <3>1, EndsBetweenEnds DEF TesterInv, TesterTypes
  <2>3. CASE DisconnectAll(s)
    BY <2>1, <2>3 DEF DisconnectAll, Disconnect, Disable, TesterInv, TesterTypes
  <2> QED BY <2>2, <2>3
<1>4. TesterTypes'
  BY <1>1, <1>3 DEF TesterInv, TesterTypes
<1>5. \A t \in Server : ProcState(t)' /\ Durable(t) \subseteq Durable(t)'
  BY <1>1 DEF TesterInv, ProcState, TesterAt, Ready, Durable
<1> QED BY <1>1, <1>2, <1>4, <1>5, TesterStep

LEMMA AddServicesInv ==
  ASSUME TesterInv, NEW s \in Server, AddServices(s)
  PROVE  TesterInv'
<1>1. /\ proc[s] = "listening" /\ proc' = [proc EXCEPT ![s] = "running"]
      /\ UNCHANGED <<demuxVars, route, enabled, servers, call, tester, connected, inc, persister, saved>>
  BY DEF AddServices, netVars
<1>2. DemuxTypes' /\ \A j \in Conn : ConnInv(j)' /\ Harmless(j)
  BY <1>1, AllKeep
<1>3. /\ proc' \in [Server -> {"off", "booting", "listening", "running"}] /\ proc'[s] = "running"
      /\ \A t \in Server \ {s} : proc'[t] = proc[t]
  BY <1>1 DEF TesterInv, TesterTypes
<1>4. TesterTypes'
  BY <1>1, <1>3 DEF TesterInv, TesterTypes
<1>5. UNCHANGED <<sending, reader, replies>>
  BY <1>1 DEF demuxVars, clientVars, socketVars
<1>6. ASSUME NEW t \in Server PROVE ProcState(t)' /\ ConnState(t)' /\ Effective(t)' /\ Durable(t) \subseteq Durable(t)'
  <2>1. ProcState(t) /\ ConnState(t) /\ Effective(t)
    BY DEF TesterInv
  <2>2. ProcState(t)'
    BY <1>1, <1>3, <2>1 DEF ProcState, TesterAt, Ready, Stopping
  <2>3. ConnState(t)'
    BY <1>1, <1>3, <1>5, <2>1 DEF ConnState, Unused
  <2>4. Effective(t)'
    BY <1>1, <1>5, <2>1 DEF Effective, Positive
  <2>5. Durable(t) \subseteq Durable(t)'
    BY <1>1, <1>3 DEF Durable, TesterAt
  <2> QED BY <2>2, <2>3, <2>4, <2>5
<1>7. \A c \in Call : CallState(c)'
  BY <1>1, <1>5 DEF TesterInv, CallState
<1>8. AckedIsPersisted'
  BY <1>1, <1>6, AckedStays
<1> QED BY <1>2, <1>4, <1>6, <1>7, <1>8 DEF TesterInv

\* Nothing has been answered over a connection that was not used.
LEMMA UnusedNotPositive ==
  ASSUME DemuxTypes, NEW k \in Conn, ConnInv(k), Unused(k), reader[k].at = "exit"
  PROVE  \A c \in Call : ~Positive(k, c)
<1>1. \A i \in DOMAIN replies[k] : replies[k][i].call \in Call
  BY ConnFields
<1>2. \A c \in Call : sending[k][c].at = "none"
  BY DEF Unused, NotSent
<1>3. DOMAIN replies[k] = {}
  BY <1>1, <1>2 DEF ConnInv, OnTheWay, Tagged
<1> QED BY <1>2, <1>3 DEF Positive

LEMMA StartServerInv ==
  ASSUME TesterInv, NEW s \in Server, StartServer(s)
  PROVE  TesterInv'
<1>1. /\ tester = Ready /\ proc[s] = "off" /\ inc[s] < MaxStarts
      /\ tester' = [at |-> "init", srv |-> {s}] /\ inc' = [inc EXCEPT ![s] = inc[s] + 1]
      /\ proc' = [proc EXCEPT ![s] = "booting"] /\ NewDemux(Out(s, inc[s] + 1))
      /\ UNCHANGED <<route, enabled, servers, call, connected, persister, saved>>
  BY DEF StartServer, Turns, netVars
<1>2. PICK n \in Incarnation : n = inc[s] + 1 /\ n > inc[s] /\ inc[s] \in Incarnation
  BY <1>1, LabrpcAssumption DEF TesterInv, TesterTypes, Incarnation
<1>3. /\ inc' \in [Server -> Incarnation] /\ inc'[s] = n /\ \A t \in Server \ {s} : inc'[t] = inc[t]
      /\ proc' \in [Server -> {"off", "booting", "listening", "running"}] /\ proc'[s] = "booting"
      /\ \A t \in Server \ {s} : proc'[t] = proc[t]
  BY <1>1, <1>2 DEF TesterInv, TesterTypes
<1>4. TesterTypes'
  BY <1>1, <1>3 DEF TesterInv, TesterTypes
<1>5. In(s, n) \in Conn /\ Out(s, n) \in Conn
  BY <1>2, Conns
<1>6. PICK k \in Conn : k = Out(s, n)
  BY <1>5
<1>7. /\ Unused(k) /\ reader[k].at = "exit" /\ Unused(In(s, n)) /\ reader[In(s, n)].at = "exit"
      /\ DemuxTypes /\ ConnInv(k) /\ ConnInv(In(s, n)) /\ NewDemux(k)
  BY <1>1, <1>2, <1>5, <1>6 DEF TesterInv, ConnState
<1>8. /\ DemuxTypes' /\ ConnInv(k)' /\ OnlyConn(k)
      /\ sending' = sending /\ reader'[k].at = "read"
  BY <1>7, NewDemuxConn
<1>9. /\ \A j \in Conn : ConnInv(j)'
      /\ \A j \in Conn \ {k} : reader'[j] = reader[j] /\ Harmless(j)
  BY <1>8, OthersKeep
<1>10. \A t \in Server, i \in Incarnation :
         /\ In(t, i) \in Conn /\ In(t, i) # k /\ Out(t, i) \in Conn
         /\ Out(t, i) = k => t = s /\ i = n
  BY <1>2, <1>6, Conns
<1>11. ASSUME NEW t \in Server PROVE ProcState(t)' /\ Durable(t) \subseteq Durable(t)'
  <2>1. \A a \in {"init", "waitInit"} \cup Stopping : TesterAt(t, a)' <=> t = s /\ a = "init"
    BY <1>1, TesterAtOne DEF Stopping
  <2>2. \A a \in {"init", "waitInit"} \cup Stopping : ~TesterAt(t, a)
    BY <1>1, TesterAtOne DEF Stopping
  <2>3. ProcState(t) /\ TesterAt(s, "init")'
    BY <1>1 DEF TesterInv, TesterAt
  <2>4. Durable(t) \subseteq Durable(t)'
    BY <1>1, <1>3, <2>1, <2>2 DEF Durable, Stopping
  <2> QED BY <1>1, <1>3, <2>1, <2>2, <2>3, <2>4 DEF ProcState, Stopping
<1>12. ASSUME NEW t \in Server PROVE ConnState(t)'
  <2>1. ConnState(t) /\ inc[t] \in Incarnation
    BY DEF TesterInv, TesterTypes
  <2>2. \A i \in Incarnation :
           /\ Unused(In(t, i))' <=> Unused(In(t, i))
           /\ Unused(Out(t, i))' <=> Unused(Out(t, i))
           /\ reader'[In(t, i)] = reader[In(t, i)]
           /\ Out(t, i) # k => reader'[Out(t, i)] = reader[Out(t, i)]
    BY <1>8, <1>9, <1>10 DEF Unused
  <2>3. CASE t # s
    BY <1>3, <1>10, <2>1, <2>2, <2>3 DEF ConnState, In, Out
  <2>4. CASE t = s
    <3>1. \A i \in Incarnation : i > n => i > inc[s] /\ i # n
      BY <1>2 DEF Incarnation
    <3>2. \A i \in Incarnation : i > n =>
            /\ Unused(In(s, i))' /\ Unused(Out(s, i))'
            /\ reader'[In(s, i)].at = "exit" /\ reader'[Out(s, i)].at = "exit"
      BY <1>10, <2>1, <2>2, <2>4, <3>1 DEF ConnState
    <3>3. Unused(In(s, n))' /\ reader'[In(s, n)].at = "exit" /\ reader'[Out(s, n)].at # "exit"
      BY <1>2, <1>6, <1>7, <1>8, <2>2, <2>4
    <3> QED BY <1>3, <2>4, <3>2, <3>3 DEF ConnState, In, Out, Unused
  <2> QED BY <2>3, <2>4
<1>13. ASSUME NEW t \in Server PROVE Effective(t)'
  <2>1. Effective(t) /\ inc[t] \in Incarnation
    BY DEF TesterInv, TesterTypes
  <2>2. CASE t # s
    <3>1. Harmless(In(t, inc[t])) /\ In(t, inc[t])' = In(t, inc[t])
      BY <1>3, <1>9, <1>10, <2>1, <2>2 DEF In
    <3> QED BY <1>1, <2>1, <3>1 DEF Effective, Harmless
  <2>3. CASE t = s
    <3>1. \A c \in Call : ~Positive(In(s, n), c)
      BY <1>5, <1>7, UnusedNotPositive
    <3>2. Harmless(In(s, n)) /\ In(s, inc[s])' = In(s, n)
      BY <1>2, <1>3, <1>5, <1>9, <1>10 DEF In
    <3>3. \A c \in Call : ~Positive(In(s, inc[s]), c)'
      BY <3>1, <3>2 DEF Harmless, Positive
    <3> QED BY <2>3, <3>3 DEF Effective
  <2> QED BY <2>2, <2>3
<1>14. \A c \in Call : CallState(c)'
  BY <1>1, <1>8 DEF TesterInv, CallState
<1>15. AckedIsPersisted'
  BY <1>1, <1>11, AckedStays
<1> QED BY <1>4, <1>8, <1>9, <1>11, <1>12, <1>13, <1>14, <1>15 DEF TesterInv

LEMMA InitDaemonInv ==
  ASSUME TesterInv, NEW s \in Server, InitDaemon(s)
  PROVE  TesterInv'
<1>1. /\ TesterAt(s, "init") /\ tester' = [at |-> "waitInit", srv |-> {s}]
      /\ persister' = [persister EXCEPT ![s] = saved[s]]
      /\ proc' = [proc EXCEPT ![s] = "listening"] /\ NewDemux(In(s, inc[s]))
      /\ UNCHANGED <<route, enabled, servers, call, connected, inc, saved>>
  BY DEF InitDaemon, Turns, netVars
<1>2. inc[s] \in Incarnation /\ proc[s] = "booting"
  BY <1>1 DEF TesterInv, TesterTypes, ProcState
<1>3. /\ persister' \in [Server -> SUBSET Call] /\ persister'[s] = saved[s]
      /\ proc' \in [Server -> {"off", "booting", "listening", "running"}] /\ proc'[s] = "listening"
      /\ \A t \in Server \ {s} : proc'[t] = proc[t] /\ persister'[t] = persister[t]
  <2> DEFINE P == saved[s]
  <2>1. P \in SUBSET Call /\ persister' = [persister EXCEPT ![s] = P] /\ persister \in [Server -> SUBSET Call]
    BY <1>1 DEF TesterInv, TesterTypes
  <2>2. /\ proc' \in [Server -> {"off", "booting", "listening", "running"}] /\ proc'[s] = "listening"
        /\ \A t \in Server \ {s} : proc'[t] = proc[t]
    BY <1>1 DEF TesterInv, TesterTypes
  <2> HIDE DEF P
  <2>3. persister' \in [Server -> SUBSET Call] /\ persister'[s] = P /\ \A t \in Server \ {s} : persister'[t] = persister[t]
    BY <2>1
  <2> QED BY <2>2, <2>3 DEF P
<1>4. TesterTypes'
  BY <1>1, <1>3 DEF TesterInv, TesterTypes
<1>5. In(s, inc[s]) \in Conn
  BY <1>2, Conns
<1>6. PICK k \in Conn : k = In(s, inc[s])
  BY <1>5
<1>7. Unused(k) /\ reader[k].at = "exit" /\ DemuxTypes /\ ConnInv(k) /\ NewDemux(k)
  BY <1>1, <1>2, <1>5, <1>6 DEF TesterInv, ConnState
<1>8. /\ DemuxTypes' /\ ConnInv(k)' /\ OnlyConn(k)
      /\ sending' = sending /\ reader'[k].at = "read"
      /\ \A c \in Call : ~Positive(k, c)'
  BY <1>7, NewDemuxConn
<1>9. /\ \A j \in Conn : ConnInv(j)'
      /\ \A j \in Conn \ {k} : reader'[j] = reader[j] /\ Harmless(j)
  BY <1>8, OthersKeep
<1>10. \A t \in Server, i \in Incarnation :
         /\ In(t, i) \in Conn /\ Out(t, i) # k /\ Out(t, i) \in Conn
         /\ In(t, i) = k => t = s /\ i = inc[s]
  BY <1>2, <1>6, Conns
<1>11. ASSUME NEW t \in Server PROVE ProcState(t)' /\ Durable(t) \subseteq Durable(t)'
  <2>1. \A a \in {"init", "waitInit"} \cup Stopping : TesterAt(t, a)' <=> t = s /\ a = "waitInit"
    BY <1>1, TesterAtOne DEF Stopping
  <2>2. \A a \in {"init", "waitInit"} \cup Stopping : TesterAt(t, a) => t = s /\ a = "init"
    BY <1>1, TesterAtOne DEF Stopping
  <2>3. ProcState(t) /\ TesterAt(s, "waitInit")'
    BY <1>1 DEF TesterInv, TesterAt
  <2>4. Durable(t) \subseteq Durable(t)'
    BY <1>1, <1>2, <1>3, <2>1, <2>2 DEF Durable, Stopping
  <2> QED BY <1>1, <1>2, <1>3, <2>1, <2>2, <2>3, <2>4 DEF ProcState, Stopping
<1>12. ASSUME NEW t \in Server PROVE ConnState(t)'
  <2>1. ConnState(t) /\ inc[t] \in Incarnation
    BY DEF TesterInv, TesterTypes
  <2>2. \A i \in Incarnation :
           /\ Unused(In(t, i))' <=> Unused(In(t, i))
           /\ Unused(Out(t, i))' <=> Unused(Out(t, i))
           /\ reader'[Out(t, i)] = reader[Out(t, i)]
           /\ In(t, i) # k => reader'[In(t, i)] = reader[In(t, i)]
    BY <1>8, <1>9, <1>10 DEF Unused
  <2>3. CASE t # s
    BY <1>1, <1>3, <1>10, <2>1, <2>2, <2>3 DEF ConnState, In, Out
  <2>4. CASE t = s
    <3>1. \A i \in Incarnation : i > inc[s] => i # inc[s]
      BY <1>2 DEF Incarnation
    <3>2. reader'[In(s, inc[s])].at # "exit"
      BY <1>6, <1>8
    <3> QED BY <1>1, <1>2, <1>3, <1>10, <2>1, <2>2, <2>4, <3>1, <3>2 DEF ConnState, In, Out
  <2> QED BY <2>3, <2>4
<1>13. ASSUME NEW t \in Server PROVE Effective(t)'
  <2>1. Effective(t) /\ inc[t] \in Incarnation /\ In(t, inc[t])' = In(t, inc[t])
    BY <1>1 DEF TesterInv, TesterTypes, In
  <2>2. CASE t # s
    <3>1. Harmless(In(t, inc[t]))
      BY <1>9, <1>10, <2>1, <2>2
    <3> QED BY <1>3, <2>1, <2>2, <3>1 DEF Effective, Harmless
  <2>3. CASE t = s
    <3>1. \A c \in Call : ~Positive(In(s, inc[s]), c)'
      BY <1>6, <1>8, <2>1, <2>3 DEF Positive
    <3> QED BY <2>3, <3>1 DEF Effective
  <2> QED BY <2>2, <2>3
<1>14. \A c \in Call : CallState(c)'
  BY <1>1, <1>8 DEF TesterInv, CallState
<1>15. AckedIsPersisted'
  BY <1>1, <1>11, AckedStays
<1> QED BY <1>4, <1>8, <1>9, <1>11, <1>12, <1>13, <1>14, <1>15 DEF TesterInv

LEMMA KillInv ==
  ASSUME TesterInv, NEW s \in Server, Kill(s)
  PROVE  TesterInv'
<1>1. inc[s] \in Incarnation /\ In(s, inc[s]) \in Conn /\ Out(s, inc[s]) \in Conn
  BY Conns DEF TesterInv, TesterTypes
<1>2. PICK in \in Conn, out \in Conn : in = In(s, inc[s]) /\ out = Out(s, inc[s])
  BY <1>1
<1>3. \A t \in Server, i \in Incarnation :
         /\ In(t, i) \in Conn /\ In(t, i) # out /\ Out(t, i) \in Conn /\ Out(t, i) # in
         /\ Out(t, i) = out => t = s /\ i = inc[s]
         /\ In(t, i) = in => t = s /\ i = inc[s]
  BY <1>1, <1>2, Conns
<1>4. /\ TesterAt(s, "kill") /\ proc' = [proc EXCEPT ![s] = "off"] /\ tester' = Ready
      /\ UNCHANGED <<route, enabled, servers, call, connected, inc, persister, saved>>
  BY DEF Kill, netVars
<1>5. /\ link' = [link EXCEPT ![in] = "down", ![out] = "down"]
      /\ requests' = [requests EXCEPT ![in] = {}]
      /\ replies' = [replies EXCEPT ![out] = <<>>]
      /\ calls' = [calls EXCEPT ![out] = NoCalls]
      /\ reader' = [reader EXCEPT ![out] = NoReader]
      /\ sending' = [sending EXCEPT ![out] =
                       [c \in Call |-> IF @[c] = NotSent THEN NotSent ELSE [@[c] EXCEPT !.at = "gone"]]]
      /\ UNCHANGED <<nextTag, closed>>
  BY <1>2 DEF Kill
<1>6. in # out /\ DemuxTypes /\ ConnInv(in) /\ ConnInv(out)
  BY <1>1, <1>2, <1>3 DEF TesterInv
<1>7. /\ DemuxTypes' /\ ConnInv(in)' /\ ConnInv(out)' /\ Harmless(in)
      /\ reader'[out].at = "exit"
      /\ \A c \in Call : sending'[out][c] = NotSent <=> sending[out][c] = NotSent
      /\ \A j \in Conn \ {in, out} :
            /\ nextTag'[j] = nextTag[j] /\ calls'[j] = calls[j] /\ closed'[j] = closed[j]
            /\ sending'[j] = sending[j] /\ reader'[j] = reader[j]
            /\ requests'[j] = requests[j] /\ replies'[j] = replies[j]
  BY <1>5, <1>6, KillConn
<1>8. ASSUME NEW j \in Conn \ {in, out} PROVE ConnInv(j)' /\ Harmless(j)
  <2>1. ConnInv(j)
    BY DEF TesterInv
  <2> QED BY <1>7, <1>8, <2>1, SameConn
<1>9. /\ proc' \in [Server -> {"off", "booting", "listening", "running"}] /\ proc'[s] = "off"
      /\ \A t \in Server \ {s} : proc'[t] = proc[t]
  BY <1>4 DEF TesterInv, TesterTypes
<1>10. TesterTypes'
  BY <1>4, <1>9 DEF TesterInv, TesterTypes
<1>11. ASSUME NEW t \in Server PROVE ProcState(t)' /\ Durable(t) \subseteq Durable(t)'
  <2>1. \A a \in {"init", "waitInit"} \cup Stopping : ~TesterAt(t, a)'
    BY <1>4, TesterAtOne DEF Stopping
  <2>2. \A a \in {"init", "waitInit"} \cup Stopping : TesterAt(t, a) => t = s /\ a = "kill"
    BY <1>4, TesterAtOne DEF Stopping
  <2>3. ProcState(t)
    BY DEF TesterInv
  <2>4. Durable(t) \subseteq Durable(t)'
    BY <1>4, <1>9, <2>1, <2>2 DEF Durable, Stopping
  <2> QED BY <1>4, <1>9, <2>1, <2>2, <2>3, <2>4 DEF ProcState, Stopping
<1>12. ASSUME NEW t \in Server PROVE ConnState(t)'
  <2>1. ConnState(t) /\ inc[t] \in Incarnation
    BY DEF TesterInv, TesterTypes
  <2>2. \A i \in Incarnation :
           /\ Unused(In(t, i))' <=> Unused(In(t, i))
           /\ Unused(Out(t, i))' <=> Unused(Out(t, i))
           /\ (reader[In(t, i)].at = "exit")' <=> reader[In(t, i)].at = "exit"
           /\ Out(t, i) # out => ((reader[Out(t, i)].at = "exit")' <=> reader[Out(t, i)].at = "exit")
    BY <1>3, <1>7, <1>8 DEF Unused, Harmless
  <2>3. \A i \in Incarnation : i > inc[t] => i # inc[t]
    BY <2>1 DEF Incarnation
  <2> QED BY <1>3, <1>4, <1>9, <2>1, <2>2, <2>3 DEF ConnState, In, Out
<1>13. ASSUME NEW t \in Server PROVE Effective(t)'
  <2>1. Effective(t) /\ inc[t] \in Incarnation /\ In(t, inc[t])' = In(t, inc[t])
    BY <1>4 DEF TesterInv, TesterTypes, In
  <2>2. Harmless(In(t, inc[t]))
    BY <1>3, <1>7, <1>8, <2>1
  <2> QED BY <1>4, <2>1, <2>2 DEF Effective, Harmless
<1>14. \A c \in Call : CallState(c)'
  <2>1. \A t \in Server, i \in Incarnation, c \in Call :
           sending'[In(t, i)][c] = NotSent <=> sending[In(t, i)][c] = NotSent
    BY <1>3, <1>7, <1>8 DEF Harmless
  <2> QED BY <1>4, <2>1 DEF TesterInv, CallState
<1>15. AckedIsPersisted'
  BY <1>4, <1>11, AckedStays
<1> QED BY <1>7, <1>8, <1>10, <1>11, <1>12, <1>13, <1>14, <1>15 DEF TesterInv

-----------------------------------------------------------------------------
(* THE INVARIANT *)

\* After MakeConfig(): the first incarnations run, and nothing has been sent.
LEMMA InitConns ==
  ASSUME Init
  PROVE  DemuxTypes /\ \A k \in Conn : ConnInv(k) /\ Unused(k) /\ \A c \in Call : ~Positive(k, c)
<1> DEFINE open == {"in", "out"} \X Server \X {1}
<1>1. DemuxInit(open)
  BY DEF Init
<1>2. AtReadCall \in ReaderRec /\ AtReadCall.at = "read" /\ NoReader \in ReaderRec /\ NoReader.at = "exit"
  BY DEF AtReadCall, NoReader, ReaderRec
<1>3. NoCalls \in CallMap /\ DOMAIN NoCalls = {}
  <2>1. {} \in SUBSET Nat /\ NoCalls \in [{} -> Call]
    BY DEF NoCalls
  <2> QED BY <2>1, IsCallMap DEF NoCalls
<1>4. NotSent \in SendRec /\ NotSent.at = "none"
  BY DEF NotSent, SendRec
<1> HIDE DEF open
<1>5. /\ link \in [Conn -> {"none", "up", "down"}] /\ nextTag \in [Conn -> Nat]
      /\ closed \in [Conn -> BOOLEAN] /\ requests \in [Conn -> SUBSET Request]
      /\ reader \in [Conn -> ReaderRec] /\ calls \in [Conn -> CallMap]
      /\ \A k \in Conn : /\ calls[k] = NoCalls /\ requests[k] = {}
                         /\ reader[k].at \in {"read", "exit"}
  BY <1>1, <1>2, <1>3 DEF DemuxInit
<1>6. sending \in [Conn -> [Call -> SendRec]] /\ \A k \in Conn, c \in Call : sending[k][c] = NotSent
  BY <1>1, <1>4 DEF DemuxInit
<1>7. replies \in [Conn -> Seq(Reply)] /\ \A k \in Conn : DOMAIN replies[k] = {}
  <2>1. <<>> \in Seq(Reply) /\ DOMAIN <<>> = {}
    OBVIOUS
  <2> QED BY <1>1, <2>1 DEF DemuxInit
<1>8. ASSUME NEW k \in Conn PROVE ConnInv(k) /\ Unused(k) /\ \A c \in Call : ~Positive(k, c)
  <2>1. CallsWait(k) /\ OnTheWay(k) /\ Once(k) /\ Expected(k)
    BY <1>3, <1>5, <1>7 DEF CallsWait, OnTheWay, Once, Expected
  <2>2. Owed(k) /\ Answering(k) /\ ReaderState(k)
    BY <1>3, <1>4, <1>5, <1>6 DEF Owed, InFlight, Answering, ReaderState, Reading
  <2>3. Unused(k) /\ \A c \in Call : ~Positive(k, c)
    BY <1>4, <1>5, <1>6, <1>7 DEF Unused, Positive
  <2> QED BY <2>1, <2>2, <2>3 DEF ConnInv
<1> QED BY <1>5, <1>6, <1>7, <1>8 DEF DemuxTypes

LEMMA InitTesterInv == Init => TesterInv
<1> SUFFICES ASSUME Init PROVE TesterInv
  OBVIOUS
<1>1. DemuxTypes /\ \A k \in Conn : ConnInv(k) /\ Unused(k) /\ \A c \in Call : ~Positive(k, c)
  BY InitConns
<1>2. 1 \in Incarnation /\ 0 \in 0 .. MaxStarts /\ 1 \in 0 .. MaxStarts
  BY LabrpcAssumption DEF Incarnation
<1>3. Idle \in CallRec /\ Idle.at = "idle"
  BY <1>2 DEF Idle, CallRec
<1>4. enabled \subseteq EndSet
  <2>1. \A c \in Call : Target(c) \in Server
    BY LabrpcAssumption DEF Init, LabrpcInit, Target
  <2>2. ClntEnds \subseteq EndSet
    BY <1>2, <2>1, EndsExist DEF ClntEnds
  <2>3. {End(s, 1, t) : s, t \in Server} \subseteq EndSet
    <3>1. \A s \in Server, t \in Server : End(s, 1, t) \in EndSet
      BY <1>2, EndsExist
    <3> QED BY <3>1
  <2> QED BY <2>2, <2>3 DEF Init, LabrpcInit
<1>5. TesterTypes
  <2>1. route \in Routes /\ servers \in [Server -> 0 .. MaxStarts] /\ connected \in [Server -> BOOLEAN]
    BY <1>2 DEF Init, LabrpcInit
  <2>2. call \in [Call -> CallRec]
    BY <1>3 DEF Init, LabrpcInit
  <2>3. inc \in [Server -> Incarnation] /\ proc \in [Server -> {"off", "booting", "listening", "running"}]
    BY <1>2 DEF Init
  <2>4. persister \in [Server -> SUBSET Call] /\ saved \in [Server -> SUBSET Call]
    BY DEF Init
  <2> QED BY <1>4, <2>1, <2>2, <2>3, <2>4 DEF TesterTypes
<1>6. \A s \in Server : \A at : TesterAt(s, at) => at = "ready"
  <2>1. tester = Ready
    BY DEF Init
  <2> QED BY <2>1, TesterAtOne
<1>7. ASSUME NEW s \in Server PROVE ProcState(s) /\ ConnState(s) /\ Effective(s)
  <2>1. tester = Ready /\ proc[s] = "running" /\ inc[s] = 1 /\ servers[s] = 1
    BY DEF Init, LabrpcInit
  <2>2. ProcState(s)
    BY <1>6, <2>1 DEF ProcState, Stopping
  <2>3. \A i \in Incarnation : In(s, i) \in Conn /\ Out(s, i) \in Conn
    BY Conns
  <2>4. /\ reader[In(s, 1)].at = "read" /\ reader[Out(s, 1)].at = "read"
        /\ \A i \in Incarnation : i > 1 => reader[In(s, i)].at = "exit" /\ reader[Out(s, i)].at = "exit"
    <3> DEFINE open == {"in", "out"} \X Server \X {1}
    <3>1. reader = [k \in Conn |-> IF k \in open THEN AtReadCall ELSE NoReader]
      BY DEF Init, DemuxInit
    <3>2. \A i \in Incarnation : /\ In(s, i) \in open <=> i = 1
                                 /\ Out(s, i) \in open <=> i = 1
      BY DEF In, Out
    <3>3. AtReadCall.at = "read" /\ NoReader.at = "exit"
      BY DEF AtReadCall, NoReader
    <3>4. \A i \in Incarnation : i > 1 => i # 1
      BY DEF Incarnation
    <3> HIDE DEF open
    <3> QED BY <1>2, <2>3, <3>1, <3>2, <3>3, <3>4
  <2>5. ConnState(s)
    BY <1>1, <1>2, <2>1, <2>3, <2>4 DEF ConnState
  <2>6. Effective(s)
    BY <1>1, <1>2, <2>1, <2>3 DEF Effective
  <2> QED BY <2>2, <2>5, <2>6
<1>8. \A c \in Call : call[c] = Idle
  BY DEF Init, LabrpcInit
<1>9. \A c \in Call : CallState(c)
  BY <1>1, <1>3, <1>8, Conns DEF CallState, Unused
<1>10. AckedIsPersisted
  BY <1>3, <1>8 DEF AckedIsPersisted
<1> QED BY <1>1, <1>5, <1>7, <1>9, <1>10 DEF TesterInv

LEMMA ServerOpInv ==
  ASSUME TesterInv, NEW s \in Server, ServerOp(s)
  PROVE  TesterInv'
BY StartServerInv, InitDaemonInv, AddServicesInv, ServerStartedInv, ShutdownServerInv, ShutdownDeleteInv,
   CheckpointCloseInv, CheckpointCopyInv, KillInv DEF ServerOp

LEMMA TesterStutter ==
  ASSUME TesterInv, UNCHANGED vars
  PROVE  TesterInv'
<1>1. /\ UNCHANGED <<demuxVars, route, enabled, servers, call, tester, connected, inc, proc, persister, saved>>
  BY DEF vars, netVars, daemonVars
<1>2. DemuxTypes' /\ \A j \in Conn : ConnInv(j)' /\ Harmless(j)
  BY <1>1, AllKeep
<1>3. TesterTypes'
  BY <1>1 DEF TesterInv, TesterTypes
<1>4. \A t \in Server : ProcState(t)' /\ Durable(t) \subseteq Durable(t)'
  BY <1>1 DEF TesterInv, ProcState, TesterAt, Ready, Durable
<1> QED BY <1>1, <1>2, <1>3, <1>4, TesterStep

LEMMA NextTesterInv == TesterInv /\ [Next]_vars => TesterInv'
<1> SUFFICES ASSUME TesterInv, [Next]_vars PROVE TesterInv'
  OBVIOUS
<1>1. ASSUME NEW s \in Server, ServerOp(s) \/ Connect(s) \/ DisconnectAll(s) PROVE TesterInv'
  BY <1>1, ServerOpInv, ConnectInv
<1>2. ASSUME NEW c \in Call, ClntCall(c) \/ Forward(c) \/ NetStep(c) PROVE TesterInv'
  BY <1>2, ClntCallInv, ForwardInv, NetStepInv
<1>3. ASSUME NEW s \in Server, NEW c \in Call, Handler(s, c) PROVE TesterInv'
  BY <1>3, HandlerInv
<1>4. ASSUME NEW s \in Server, NEW i \in Incarnation, ConnStep(s, i) PROVE TesterInv'
  BY <1>4, ConnStepInv
<1>5. ASSUME NEW s \in Server, NEW i \in Incarnation, NEW c \in Call, ForwardStep(s, i, c) PROVE TesterInv'
  BY <1>5, TesterForwardInv, TesterForwardedInv DEF ForwardStep
<1>6. CASE UNCHANGED vars
  BY <1>6, TesterStutter
<1> QED BY <1>1, <1>2, <1>3, <1>4, <1>5, <1>6 DEF Next

LEMMA TesterInvariant == Spec => []TesterInv
BY InitTesterInv, NextTesterInv, PTL DEF Spec

-----------------------------------------------------------------------------
(* THEOREMS *)

\* The fields of the connections, of Network and of the tester hold the values they are
\* meant to, and a call waits under a tag that tag() has given out.
THEOREM TesterTypeCorrect == Spec => []TypeOK
<1>1. TesterInv => TypeOK
  <2> SUFFICES ASSUME TesterInv PROVE TypeOK
    OBVIOUS
  <2>1. DemuxTypes /\ TesterTypes
    BY DEF TesterInv
  <2>2. ASSUME NEW k \in Conn
        PROVE  calls[k] \in [DOMAIN calls[k] -> Call] /\ \A t \in DOMAIN calls[k] : t \in Nat /\ t < nextTag[k]
    BY <2>1, ConnFields DEF TesterInv, ConnInv, CallsWait
  <2>3. inc \in [Server -> 0 .. MaxStarts]
    BY <2>1 DEF TesterTypes, Incarnation
  <2> QED BY <2>1, <2>2, <2>3 DEF TypeOK, DemuxTypes, TesterTypes, EndSet
<1> QED BY <1>1, TesterInvariant, PTL

\* reply() finds the call that waits for the tag of every reply, and it is the call whose
\* request the reply answers.
THEOREM AnswersGoToTheirCalls == Spec => []AnswersMatch
<1>1. TesterInv => AnswersMatch
  BY DEF TesterInv, ConnInv, Expected, CallsWait, InFlight, Matches, AnswersMatch
<1> QED BY <1>1, TesterInvariant, PTL

\* However Close(), reader(), SendReceive() and the end of a process interleave, a goroutine
\* in SendReceive() has an answer coming from the reader.
THEOREM NoCallIsStranded == Spec => []NobodyStranded
<1>1. TesterInv => NobodyStranded
  BY DEF TesterInv, ConnInv, Owed, InFlight, NobodyStranded
<1> QED BY <1>1, TesterInvariant, PTL

\* What a caller was told is done is in the Persister of every later incarnation.
THEOREM AckedSurvives == Spec => []AckedIsPersisted
<1>1. TesterInv => AckedIsPersisted
  BY DEF TesterInv
<1> QED BY <1>1, TesterInvariant, PTL

\* dispatch() knows the service of every request: none reaches a process before it has added
\* its services.
THEOREM ServicesComeFirst == Spec => []ServicesFirst
<1>1. TesterInv => ServicesFirst
  <2> SUFFICES ASSUME TesterInv, NEW s \in Server, proc[s] \in {"booting", "listening"}
               PROVE  requests[In(s, inc[s])] = {}
    BY DEF ServicesFirst
  <2>1. PICK k \in Conn : k = In(s, inc[s])
    BY Conns DEF TesterInv, TesterTypes
  <2>2. ConnInv(k) /\ Unused(k) /\ \A m \in requests[k] : m.call \in Call
    BY <2>1, ConnFields DEF TesterInv, ConnState
  <2> QED BY <2>1, <2>2 DEF ConnInv, OnTheWay, Tagged, Unused, NotSent
<1> QED BY <1>1, TesterInvariant, PTL

=============================================================================

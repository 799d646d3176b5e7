---------------------------- MODULE KVRaftProofs ----------------------------
(***************************************************************************)
(* Theorems about the replicated key/value service, for any number of      *)
(* servers, Clerks, keys, values, terms and operations: nobody is left     *)
(* waiting in Submit(), and the replicas together implement KVService.     *)
(***************************************************************************)
EXTENDS KVRaft, FiniteSetTheorems, SequenceTheorems, WellFoundedInduction, TLAPS

-----------------------------------------------------------------------------
(* TYPES *)

Entry   == [value: Value \cup {NoValue}, version: Nat]
Data    == [Key -> Entry]
Request == [op: {"Get", "Put"}, key: Key, value: Value \cup {NoValue}, version: Nat]
Op      == [id: Nat, client: Client, req: Request]
Err     == {"pending", "OK", "ErrNoKey", "ErrVersion", "ErrMaybe", "ErrWrongLeader"}
ReplyType  == [err: Err, value: Value \cup {NoValue}, version: Nat]
ReaderType == [at: {"idle", "notify", "send", "snapshot"}, index: Nat, id: Nat, to: Nat,
               reply: ReplyType]
SubmitType == [id: Nat, client: Client, server: Server, index: Nat, term: Nat, ch: ReplyType]
ClerkType  == [at: {"idle", "call", "wait"}, op: {"none", "Get", "Put"}, key: Key \cup {"none"},
               value: Value \cup {NoValue}, version: Nat, firstRpc: BOOLEAN, leader: Server,
               id: Nat, reply: ReplyType]
LateType   == [n: Nat, client: Client, server: Server, req: Request]

RaftTypes ==
    /\ term \in [Server -> 0 .. MaxTerm] /\ leader \in [Server -> BOOLEAN]
    /\ log \in [Server -> Seq(Op)] /\ committed \in Seq(Op)
    /\ commitIndex \in [Server -> Nat] /\ lastApplied \in [Server -> Nat]
    /\ snapshot \in [Server -> [index: Nat, data: Data]]
    /\ pending \in [Server -> BOOLEAN]

RsmTypes ==
    /\ data \in [Server -> Data] /\ appliedIndex \in [Server -> Nat]
    /\ waiter \in [Server -> [Index -> Nat]]
    /\ reader \in [Server -> ReaderType]
    /\ submits \subseteq SubmitType

ClerkTypes ==
    /\ clerk \in [Client -> ClerkType] /\ started \in 0 .. MaxOps
    /\ service \in Data /\ outcome \in [Client -> ReplyType]
    /\ \A c \in Client : clerk[c].at # "idle" => clerk[c].op \in {"Get", "Put"} /\ clerk[c].key \in Key

Types == RaftTypes /\ RsmTypes /\ ClerkTypes /\ late \subseteq LateType

-----------------------------------------------------------------------------
(* WHAT RAFT PROMISES *)

\* The first n entries of the log q are committed ones.
Agrees(q, n) ==
    /\ n =< Len(q) /\ n =< Len(committed)
    /\ \A i \in 1 .. n : q[i] = committed[i]

\* What a peer has of the committed log: as much as it knows, which is more than it has
\* sent on applyCh, which is more than its snapshot holds.
PeerAgrees(s) ==
    /\ Agrees(log[s], commitIndex[s])
    /\ lastApplied[s] =< commitIndex[s] /\ snapshot[s].index =< lastApplied[s]

\* A leader has what anybody in its term or before knows to be committed, the leader of the
\* newest term has everything, and a term has one leader.
LeaderComplete(l) ==
    leader[l] =>
        /\ \A s \in Server : term[s] =< term[l] => Agrees(log[l], commitIndex[s])
        /\ (\A s \in Server : term[s] =< term[l]) => Agrees(log[l], Len(committed))
        /\ \A m \in Server : leader[m] /\ term[m] = term[l] => m = l

\* Operations are numbered in the order of Start(), and a log keeps them in this order.
Numbered(q) ==
    /\ Len(q) =< started
    /\ \A i \in 1 .. Len(q) : q[i].id >= 1 /\ q[i].id =< started
    /\ \A i, j \in 1 .. Len(q) : i < j => q[i].id < q[j].id

LogInv ==
    /\ \A s \in Server : PeerAgrees(s) /\ LeaderComplete(s) /\ Numbered(log[s])
    /\ Numbered(committed)

-----------------------------------------------------------------------------
(* NOBODY IS LEFT WAITING *)

\* Submit()'s entry is where it was put.
InPlace(g) == g.index =< Len(log[g.server]) /\ log[g.server][g.index].id = g.id

\* A goroutine in Submit() has its result, or is about to be sent it, or its waiter is there
\* and the term is over or its entry is there and still to be applied or notified.
Attended(g) ==
    LET s == g.server
    IN  \/ g.ch # Pending
        \/ reader[s].at = "send" /\ reader[s].to = g.id
        \/ /\ waiter[s][g.index] = g.id
           /\ \/ LostLeadership(g)
              \/ /\ InPlace(g)
                 /\ \/ lastApplied[s] < g.index
                    \/ reader[s].at = "notify" /\ reader[s].index = g.index

SubmitIs(g) ==
    /\ g.index \in Index /\ g.id >= 1 /\ g.id =< started
    /\ g.term =< term[g.server] /\ Attended(g)

SubmitInv ==
    /\ \A g \in submits : SubmitIs(g)
    /\ \A g, f \in submits : g.id = f.id => g = f

\* The reader is at an index it has applied, which is one that was sent to it.
ReaderIs(s) ==
    /\ appliedIndex[s] =< lastApplied[s]
    /\ pending[s] => lastApplied[s] = snapshot[s].index /\ appliedIndex[s] < lastApplied[s]
    /\ reader[s].at # "idle" => reader[s].index = appliedIndex[s] /\ reader[s].index \in Index
    /\ reader[s].at \in {"notify", "send"} => reader[s].reply.err \in {"OK", "ErrNoKey", "ErrVersion"}

ReaderInv == \A s \in Server : ReaderIs(s)

RsmInv == Types /\ LogInv /\ SubmitInv /\ ReaderInv

-----------------------------------------------------------------------------
(* THE REPLICAS ARE ONE SERVICE *)

\* st[i] is the data after the first i committed operations; versions never go back.
StatesAre(st) ==
    /\ st \in [Nat -> Data] /\ st[0] = NoData /\ st[Len(committed)] = service
    /\ \A i \in 1 .. Len(committed) : st[i] = DoOpData(st[i - 1], committed[i].req)
    /\ \A i, j \in 0 .. Len(committed) : i =< j =>
          \A k \in Key : st[i][k].version =< st[j][k].version

\* What the i-th committed operation came to.
Out(st, i) == DoOpReply(st[i - 1], committed[i].req)

\* The operation id is committed, and came to r.
Result(st, id, r) == \E i \in 1 .. Len(committed) : committed[i].id = id /\ r = Out(st, i)

\* A replica's data is that of the committed operations it has applied, and so is its snapshot.
ReplicaIs(st, s) ==
    /\ snapshot[s].data = st[snapshot[s].index]
    /\ ~pending[s] => data[s] = st[lastApplied[s]]
    /\ reader[s].at # "idle" => data[s] = st[reader[s].index]
    /\ reader[s].at \in {"notify", "send"} => Result(st, reader[s].id, reader[s].reply)

AnswerIs(st, g) == g.ch \in {Pending, WrongLeader} \/ Result(st, g.id, g.ch)

\* A Put is for a version its key has reached; it can do nothing any more when the key has
\* gone past it; it is the one its Clerk is about.
ReqKnown(req) == req.op = "Put" => req.version =< service[req.key].version
Harmless(req) == req.op = "Put" => req.version < service[req.key].version
Current(c, req) == clerk[c].at # "idle" /\ req = ReqOf(clerk[c])

\* The Clerk's local variables: it waits for an operation it has given to a server.
ClerkState(c) ==
    LET me == clerk[c]
    IN  /\ me.at = "idle" => me.op = "none"
        /\ IF me.at = "wait" THEN me.id >= 1 /\ me.id =< started ELSE me.id = 0
        /\ me.at # "idle" => ReqKnown(ReqOf(me))

\* An entry of a log that can still do something is one of its Clerk's call, and in the first
\* RPC of a call it is the one the Clerk waits for; the entry a Clerk waits for is its request.
EntryIs(e) ==
    /\ ReqKnown(e.req)
    /\ \/ Harmless(e.req)
       \/ /\ Current(e.client, e.req)
          /\ clerk[e.client].firstRpc => e.id = clerk[e.client].id
    /\ \A c \in Client : e.id = clerk[c].id => e.client = c /\ e.req = ReqOf(clerk[c])

EntriesAre(q) == \A i \in 1 .. Len(q) : EntryIs(q[i])

\* So can a handler that labrpc has given up.
LateIs(h) ==
    /\ ReqKnown(h.req)
    /\ Harmless(h.req) \/ (Current(h.client, h.req) /\ ~clerk[h.client].firstRpc)

\* When a Put was committed its key had reached its version.
CommittedInTime(st) ==
    \A i \in 1 .. Len(committed) :
        LET req == committed[i].req
        IN  req.op = "Put" => req.version =< st[i - 1][req.key].version

\* The Clerk's Put has been performed by another of its entries than the one it waits for.
PerformedBefore(c) ==
    /\ clerk[c].at # "idle" /\ clerk[c].op = "Put" /\ ~clerk[c].firstRpc
    /\ clerk[c].version < service[clerk[c].key].version

\* What outcome records.
OutcomeIs(st, c) ==
    \/ outcome[c] = Pending /\ \A i \in 1 .. Len(committed) : committed[i].id # clerk[c].id
    \/ Result(st, clerk[c].id, outcome[c])
    \/ outcome[c] = Reply("OK", NoValue, 0) /\ PerformedBefore(c)

\* What the Clerks know of what they have asked for.
ClerksAre(st) ==
    /\ \A c \in Client : ClerkState(c) /\ OutcomeIs(st, c)
    /\ \A s \in Server : EntriesAre(log[s])
    /\ EntriesAre(committed)
    /\ \A h \in late : LateIs(h)
    /\ CommittedInTime(st)

HistoryIs(st) ==
    /\ StatesAre(st)
    /\ \A s \in Server : ReplicaIs(st, s)
    /\ \A g \in submits : AnswerIs(st, g)
    /\ ClerksAre(st)

ServiceInv == \E st : HistoryIs(st)

-----------------------------------------------------------------------------
(* FACTS ABOUT THE PIECES *)

\* A nonempty set of naturals up to n has a greatest element, which Max returns.
LEMMA MaxIs ==
  ASSUME NEW n \in Nat, NEW T, T \subseteq 0 .. n, T # {}
  PROVE  Max(T) \in T /\ \A y \in T : Max(T) >= y
<1> DEFINE U == {n - x : x \in T}
           R == OpToRel(<, Nat)
<1>1. U \subseteq Nat /\ U # {}
  <2>1. \A x \in T : x \in Int /\ n - x \in Nat
    OBVIOUS
  <2> QED BY <2>1
<1>2. IsWellFoundedOn(R, Nat)
  BY Zenon, NatLessThanWellFounded
<1>3. \A x, y \in Nat : y < x => <<y, x>> \in R
  BY DEF OpToRel
<1>4. PICK m \in U : \A y \in U : ~(<<y, m>> \in R)
  <2> HIDE DEF R, U
  <2> QED BY <1>1, <1>2, WFMin
<1>5. \A y \in U : m =< y
  <2> HIDE DEF R, U
  <2>1. ASSUME NEW y \in U PROVE m =< y
    <3>1. y \in Nat /\ m \in Nat /\ ~(y < m)
      BY <1>1, <1>3, <1>4
    <3> QED BY <3>1
  <2> QED BY <2>1
<1>6. PICK x \in T : m = n - x
  BY <1>4
<1>7. ASSUME NEW y \in T PROVE x >= y
  <2>1. n - y \in U
    OBVIOUS
  <2>2. m =< n - y
    BY <1>5, <2>1
  <2> QED BY <1>6, <2>2
<1> QED BY <1>7 DEF Max

LEMMA MaxOfTwo ==
  ASSUME NEW a \in Nat, NEW b \in Nat
  PROVE  Max({a, b}) = IF a >= b THEN a ELSE b
BY DEF Max

\* The newest term is somebody's term, and nobody is beyond it.
LEMMA NewestIs ==
  ASSUME RaftTypes
  PROVE  /\ Newest \in 0 .. MaxTerm
         /\ \A s \in Server : term[s] =< Newest
         /\ \E s \in Server : term[s] = Newest
<1> DEFINE T == {term[s] : s \in Server}
<1>1. T \subseteq 0 .. MaxTerm /\ T # {} /\ MaxTerm \in Nat
  BY KVRaftAssumption DEF RaftTypes
<1>2. Max(T) \in T /\ \A y \in T : Max(T) >= y
  <2> HIDE DEF T
  <2> QED BY <1>1, MaxIs
<1>3. Newest = Max(T)
  BY DEF Newest
<1>4. \A s \in Server : term[s] \in T /\ term[s] \in Nat
  BY KVRaftAssumption DEF RaftTypes
<1> QED BY <1>1, <1>2, <1>3, <1>4

\* The numbers of the servers.
LEMMA ServerNumbers ==
  /\ Cardinality(Server) \in Nat \ {0} /\ Server = 0 .. Cardinality(Server) - 1
  /\ \A s \in Server : (s + 1) % Cardinality(Server) \in Server
  /\ 0 \in Server
<1> DEFINE n == Cardinality(Server)
<1>1. n \in Nat /\ n # 0 /\ Server = 0 .. n - 1
  BY KVRaftAssumption, FS_CardinalityType, FS_EmptySet
<1> HIDE DEF n
<1>2. \A s \in 0 .. n - 1 : (s + 1) % n \in 0 .. n - 1
  BY <1>1
<1> QED BY <1>1, <1>2 DEF n

\* A log is as long as it says, and holds operations.
LEMMA SeqFacts ==
  ASSUME NEW q \in Seq(Op)
  PROVE  /\ Len(q) \in Nat
         /\ \A i \in 1 .. Len(q) : /\ q[i] \in Op /\ q[i].id \in Nat /\ q[i].client \in Client
                                   /\ q[i].req \in Request
<1>1. Len(q) \in Nat
  BY LenProperties
<1>2. \A i \in 1 .. Len(q) : q[i] \in Op
  BY ElementOfSeq
<1> QED BY <1>1, <1>2 DEF Op

LEMMA AppendFacts ==
  ASSUME NEW q \in Seq(Op), NEW e \in Op, NEW r, r = Append(q, e)
  PROVE  /\ r \in Seq(Op) /\ Len(r) = Len(q) + 1 /\ Len(q) \in Nat
         /\ r[Len(q) + 1] = e
         /\ \A i \in 1 .. Len(q) : r[i] = q[i]
<1>1. Len(q) \in Nat /\ Len(r) = Len(q) + 1 /\ r \in Seq(Op)
  BY AppendProperties, LenProperties
<1>2. \A i \in 1 .. Len(q) : r[i] = q[i]
  BY AppendProperties
<1>3. r[Len(q) + 1] = e
  BY AppendProperties
<1> QED BY <1>1, <1>2, <1>3

\* The first n entries of a log.
LEMMA PrefixFacts ==
  ASSUME NEW q \in Seq(Op), NEW n \in Nat, n =< Len(q), NEW r, r = SubSeq(q, 1, n)
  PROVE  r \in Seq(Op) /\ Len(r) = n /\ \A i \in 1 .. n : r[i] = q[i]
<1>1. Len(q) \in Nat
  BY LenProperties
<1>2. \A i \in 1 .. n : q[i] \in Op
  BY <1>1, ElementOfSeq
<1>3. r \in Seq(Op)
  BY <1>1, <1>2, SubSeqProperties
<1>4. Len(r) = n /\ \A i \in 1 .. n : r[i] = q[i]
  BY <1>1, SubSeqProperties
<1> QED BY <1>3, <1>4

\* What DoOp() answers, and the data it leaves.
LEMMA DoOpReplies ==
  ASSUME NEW d \in Data, NEW req \in Request
  PROVE  /\ DoOpReply(d, req) \in ReplyType
         /\ DoOpReply(d, req).err \in {"OK", "ErrNoKey", "ErrVersion"}
         /\ req.op = "Put" => DoOpReply(d, req) \in {Reply(err, NoValue, 0) : err \in {"OK", "ErrNoKey", "ErrVersion"}}
<1>1. d[req.key] \in Entry /\ req.op \in {"Get", "Put"}
  BY DEF Data, Request
<1>2. \A e \in Err, v \in Value \cup {NoValue}, n \in Nat : Reply(e, v, n) \in ReplyType /\ Reply(e, v, n).err = e
  BY DEF ReplyType, Reply
<1>3. CASE req.op = "Get"
  BY <1>1, <1>2, <1>3 DEF DoOpReply, Entry, Err
<1>4. CASE req.op = "Put"
  <2>1. DoOpReply(d, req) \in {Reply(err, NoValue, 0) : err \in {"OK", "ErrNoKey", "ErrVersion"}}
    BY <1>4 DEF DoOpReply
  <2> QED BY <1>2, <1>4, <2>1 DEF Err
<1> QED BY <1>1, <1>3, <1>4

LEMMA DoOpLeaves ==
  ASSUME NEW d \in Data, NEW req \in Request
  PROVE  /\ DoOpData(d, req) \in Data
         /\ \A k \in Key : DoOpData(d, req)[k].version >= d[k].version
         /\ Changes(req, DoOpReply(d, req)) =>
               /\ DoOpReply(d, req) = Reply("OK", NoValue, 0)
               /\ d[req.key].version = req.version
               /\ DoOpData(d, req)[req.key].version = req.version + 1
         /\ ~Changes(req, DoOpReply(d, req)) => DoOpData(d, req) = d
<1>0. /\ \A k \in Key : d[k] \in Entry /\ d[k].version \in Nat
      /\ req.key \in Key /\ req.value \in Value \cup {NoValue} /\ req.version \in Nat
      /\ d = [k \in Key |-> d[k]]
  BY DEF Data, Entry, Request
<1>1. CASE Changes(req, DoOpReply(d, req))
  <2> DEFINE e == [value |-> req.value, version |-> d[req.key].version + 1]
  <2>1. DoOpData(d, req) = [d EXCEPT ![req.key] = e]
    BY <1>1 DEF DoOpData
  <2>2. e \in Entry /\ e.version = d[req.key].version + 1
    BY <1>0 DEF Entry
  <2>3. req.op = "Put" /\ DoOpReply(d, req).err = "OK"
    BY <1>1 DEF Changes
  <2>4. d[req.key].version = req.version /\ DoOpReply(d, req) = Reply("OK", NoValue, 0)
    BY <2>3 DEF DoOpReply, Reply
  <2> HIDE DEF e
  <2>5. /\ DoOpData(d, req) \in Data /\ DoOpData(d, req)[req.key] = e
        /\ \A k \in Key : k # req.key => DoOpData(d, req)[k] = d[k]
    BY <1>0, <2>1, <2>2 DEF Data
  <2>6. ASSUME NEW k \in Key PROVE DoOpData(d, req)[k].version >= d[k].version
    BY <1>0, <2>2, <2>5
  <2> QED BY <1>0, <1>1, <2>2, <2>4, <2>5, <2>6
<1>2. CASE ~Changes(req, DoOpReply(d, req))
  <2>1. DoOpData(d, req) = d
    BY <1>2 DEF DoOpData
  <2> QED BY <1>0, <1>2, <2>1
<1> QED BY <1>1, <1>2

LEMMA ReplyConstants ==
  /\ Pending \in ReplyType /\ WrongLeader \in ReplyType
  /\ Pending.err = "pending" /\ WrongLeader.err = "ErrWrongLeader"
  /\ Pending # WrongLeader
BY DEF Pending, WrongLeader, Reply, ReplyType, Err

\* A result is sent to one goroutine, and changes nothing but its channel.
LEMMA SendIs ==
  ASSUME NEW S \in SUBSET SubmitType, NEW id \in Nat, NEW r \in ReplyType
  PROVE  /\ Send(S, id, r) \subseteq SubmitType
         /\ \A f \in Send(S, id, r) : \E g \in S :
               /\ f.id = g.id /\ f.client = g.client /\ f.server = g.server
               /\ f.index = g.index /\ f.term = g.term
               /\ IF g.id = id THEN f = [g EXCEPT !.ch = r] /\ f.ch = r ELSE f = g
<1>1. ASSUME NEW g \in S
      PROVE  LET f == IF g.id = id THEN [g EXCEPT !.ch = r] ELSE g
             IN  /\ f \in SubmitType
                 /\ f.id = g.id /\ f.client = g.client /\ f.server = g.server
                 /\ f.index = g.index /\ f.term = g.term
                 /\ IF g.id = id THEN f = [g EXCEPT !.ch = r] /\ f.ch = r ELSE f = g
  <2>1. g \in SubmitType
    OBVIOUS
  <2>2. CASE g.id = id
    BY <2>1, <2>2 DEF SubmitType
  <2>3. CASE g.id # id
    BY <2>1, <2>3
  <2> QED BY <2>2, <2>3
<1>2. ASSUME NEW f \in Send(S, id, r)
      PROVE  \E g \in S : f = IF g.id = id THEN [g EXCEPT !.ch = r] ELSE g
  BY DEF Send
<1> QED BY <1>1, <1>2

-----------------------------------------------------------------------------
(* TYPES ARE KEPT *)

\* What the fields of a peer, a Clerk, a reader and a goroutine hold.
LEMMA PeerFields ==
  ASSUME RaftTypes, NEW s \in Server
  PROVE  /\ term[s] \in Nat /\ term[s] \in 0 .. MaxTerm /\ leader[s] \in BOOLEAN
         /\ log[s] \in Seq(Op) /\ commitIndex[s] \in Nat /\ lastApplied[s] \in Nat
         /\ snapshot[s] \in [index: Nat, data: Data] /\ snapshot[s].index \in Nat
         /\ snapshot[s].data \in Data /\ pending[s] \in BOOLEAN
         /\ Len(log[s]) \in Nat /\ Len(committed) \in Nat
<1>1. /\ log[s] \in Seq(Op) /\ committed \in Seq(Op) /\ snapshot[s] \in [index: Nat, data: Data]
      /\ term[s] \in 0 .. MaxTerm
  BY DEF RaftTypes
<1>2. Len(log[s]) \in Nat /\ Len(committed) \in Nat
  BY <1>1, LenProperties
<1>3. snapshot[s].index \in Nat /\ snapshot[s].data \in Data
  BY <1>1
<1>4. term[s] \in Nat
  BY <1>1, KVRaftAssumption
<1> QED BY <1>1, <1>2, <1>3, <1>4 DEF RaftTypes

LEMMA RsmFields ==
  ASSUME RsmTypes, NEW s \in Server
  PROVE  /\ data[s] \in Data /\ appliedIndex[s] \in Nat /\ waiter[s] \in [Index -> Nat]
         /\ reader[s] \in ReaderType
         /\ reader[s].at \in {"idle", "notify", "send", "snapshot"} /\ reader[s].index \in Nat
         /\ reader[s].id \in Nat /\ reader[s].to \in Nat /\ reader[s].reply \in ReplyType
<1>1. reader[s] \in ReaderType
  BY DEF RsmTypes
<1> QED BY <1>1 DEF RsmTypes, ReaderType

LEMMA SubmitFields ==
  ASSUME RsmTypes, NEW g \in submits
  PROVE  /\ g \in SubmitType /\ g.id \in Nat /\ g.client \in Client /\ g.server \in Server
         /\ g.index \in Nat /\ g.term \in Nat /\ g.ch \in ReplyType
<1>1. g \in SubmitType
  BY DEF RsmTypes
<1> QED BY <1>1 DEF SubmitType

LEMMA ClerkFields ==
  ASSUME ClerkTypes, NEW c \in Client
  PROVE  /\ clerk[c] \in ClerkType /\ outcome[c] \in ReplyType
         /\ clerk[c].at \in {"idle", "call", "wait"} /\ clerk[c].op \in {"none", "Get", "Put"}
         /\ clerk[c].key \in Key \cup {"none"} /\ clerk[c].value \in Value \cup {NoValue}
         /\ clerk[c].version \in Nat /\ clerk[c].firstRpc \in BOOLEAN /\ clerk[c].leader \in Server
         /\ clerk[c].id \in Nat /\ clerk[c].reply \in ReplyType
<1>1. clerk[c] \in ClerkType /\ outcome[c] \in ReplyType
  BY DEF ClerkTypes
<1> QED BY <1>1 DEF ClerkType

\* What a Clerk asks for.
LEMMA ReqIs ==
  ASSUME ClerkTypes, NEW c \in Client, clerk[c].at # "idle"
  PROVE  ReqOf(clerk[c]) \in Request
BY ClerkFields DEF ClerkTypes, ReqOf, Request

LEMMA LateFields ==
  ASSUME late \subseteq LateType, NEW h \in late
  PROVE  h.client \in Client /\ h.server \in Server /\ h.req \in Request
<1>1. h \in LateType
  OBVIOUS
<1> QED BY <1>1 DEF LateType

\* Raft's own steps.
LEMMA ReplicateTypes ==
  ASSUME RaftTypes, \A s \in Server : PeerAgrees(s), Replicate
  PROVE  RaftTypes'
<1>1. ASSUME NEW s \in Server, BecomeLeader(s) PROVE RaftTypes'
  <2>1. Newest + 1 \in 0 .. MaxTerm
    BY <1>1, NewestIs, KVRaftAssumption DEF BecomeLeader
  <2> QED BY <1>1, <2>1 DEF BecomeLeader, RaftTypes
<1>2. ASSUME NEW s \in Server, StepDown(s) PROVE RaftTypes'
  <2>1. Newest \in 0 .. MaxTerm
    BY NewestIs
  <2> QED BY <1>2, <2>1 DEF StepDown, RaftTypes
<1>3. ASSUME NEW s \in Server, NEW l \in Server, Adopt(s, l) PROVE RaftTypes'
  <2>1. commitIndex[s] \in Nat /\ commitIndex[l] \in Nat
    BY PeerFields
  <2>2. Max({commitIndex[s], commitIndex[l]}) \in Nat
    BY <2>1, MaxOfTwo
  <2> QED BY <1>3, <2>2 DEF Adopt, RaftTypes
<1>4. ASSUME NEW s \in Server, NEW l \in Server, AdoptSnapshot(s, l) PROVE RaftTypes'
  <2> DEFINE i == snapshot[l].index
             q == SubSeq(log[l], 1, i)
  <2>1. i \in Nat /\ log[l] \in Seq(Op) /\ term[l] \in 0 .. MaxTerm
        /\ snapshot[l] \in [index: Nat, data: Data]
    BY PeerFields
  <2>2. q \in Seq(Op)
    <3>1. i =< Len(log[l])
      BY PeerFields DEF PeerAgrees, Agrees
    <3> QED BY <2>1, <3>1, PrefixFacts
  <2>3. /\ log' = [log EXCEPT ![s] = q] /\ term' = [term EXCEPT ![s] = term[l]]
        /\ commitIndex' = [commitIndex EXCEPT ![s] = i]
        /\ lastApplied' = [lastApplied EXCEPT ![s] = i]
        /\ snapshot' = [snapshot EXCEPT ![s] = snapshot[l]]
        /\ pending' = [pending EXCEPT ![s] = TRUE]
        /\ UNCHANGED <<leader, committed>>
    BY <1>4 DEF AdoptSnapshot
  <2> HIDE DEF i, q
  <2> QED BY <2>1, <2>2, <2>3 DEF RaftTypes
<1> QED BY <1>1, <1>2, <1>3, <1>4 DEF Replicate

\* The Clerk's steps.
LEMMA GoOnTypes ==
  ASSUME ClerkTypes, NEW c \in Client, clerk[c].at # "idle", GoOn(c), UNCHANGED <<started, service>>
  PROVE  ClerkTypes'
<1> DEFINE me == [clerk[c] EXCEPT !.at = "call", !.id = 0, !.firstRpc = FALSE,
                                  !.leader = (@ + 1) % Cardinality(Server)]
           out == IF Changes(clerk[c], outcome[c]) THEN outcome[c] ELSE Pending
<1>1. clerk[c] \in ClerkType /\ clerk[c].leader \in Server
  BY ClerkFields
<1>2. (clerk[c].leader + 1) % Cardinality(Server) \in Server
  BY <1>1, ServerNumbers
<1>3. me \in ClerkType /\ me.op = clerk[c].op /\ me.key = clerk[c].key
  BY <1>1, <1>2 DEF ClerkType
<1>4. out \in ReplyType
  BY ReplyConstants, ClerkFields
<1>5. clerk' = [clerk EXCEPT ![c] = me] /\ outcome' = [outcome EXCEPT ![c] = out]
  BY DEF GoOn
<1> HIDE DEF me, out
<1> QED BY <1>3, <1>4, <1>5 DEF ClerkTypes

LEMMA ReturnTypes ==
  ASSUME ClerkTypes, NEW c \in Client, NEW r \in ReplyType, Return(c, r),
         UNCHANGED <<started, service>>
  PROVE  ClerkTypes'
<1> DEFINE res == [r EXCEPT !.err = ErrOf(clerk[c], r.err)]
           me == Rest(clerk[c].leader, res)
<1>1. res \in ReplyType
  BY DEF ReplyType, ErrOf, Err
<1>2. me \in ClerkType /\ me.at = "idle"
  BY <1>1, ClerkFields DEF Rest, ClerkType
<1>3. clerk' = [clerk EXCEPT ![c] = me] /\ outcome' = [outcome EXCEPT ![c] = Pending]
  BY DEF Return
<1> HIDE DEF me, res
<1> QED BY <1>2, <1>3, ReplyConstants DEF ClerkTypes

LEMMA AnswerTypes ==
  ASSUME RsmTypes, ClerkTypes, NEW g \in submits, NEW r \in ReplyType, Answer(g, r),
         UNCHANGED <<started, service>>
  PROVE  ClerkTypes' /\ submits' \subseteq SubmitType
<1>1. submits' \subseteq SubmitType /\ g.client \in Client
  BY SubmitFields DEF Answer, RsmTypes
<1>2. CASE clerk[g.client].at = "wait" /\ GoOn(g.client)
  BY <1>1, <1>2, GoOnTypes
<1>3. CASE Return(g.client, r)
  BY <1>1, <1>3, ReturnTypes
<1>4. CASE UNCHANGED <<clerk, outcome>>
  BY <1>1, <1>4 DEF ClerkTypes
<1> QED BY <1>1, <1>2, <1>3, <1>4 DEF Answer

\* Submit() on a leader: the new index is one the waiters have, since every entry is an
\* operation that was started.
LEMMA StartTypes ==
  ASSUME Types, LogInv, NEW s \in Server, NEW c \in Client, NEW req \in Request, started < MaxOps,
         StartAndWait(s, c, started + 1, req), UNCHANGED <<data, appliedIndex, reader>>
  PROVE  RaftTypes' /\ RsmTypes' /\ started' \in 0 .. MaxOps
<1> DEFINE index == IndexOf(s)
           id == started + 1
           op == [id |-> id, client |-> c, req |-> req]
           new == [id |-> id, client |-> c, server |-> s, index |-> index, term |-> term[s], ch |-> Pending]
<1>0. started \in Nat /\ MaxOps \in Nat
  BY KVRaftAssumption DEF Types, ClerkTypes
<1>1. /\ log[s] \in Seq(Op) /\ Len(log[s]) \in Nat /\ term[s] \in Nat /\ waiter[s] \in [Index -> Nat]
      /\ Len(log[s]) =< started
  BY PeerFields, RsmFields DEF Types, LogInv, Numbered
<1>2. index \in Nat /\ index \in Index /\ id \in 0 .. MaxOps /\ id \in Nat
  BY <1>0, <1>1 DEF IndexOf, Index
<1>3. op \in Op
  BY <1>2 DEF Op
<1>4. new \in SubmitType
  BY <1>1, <1>2, ReplyConstants DEF SubmitType
<1>5. /\ Start(s, op) /\ started' = id /\ submits' = Displaced(s, index) \cup {new}
      /\ waiter' = [waiter EXCEPT ![s][index] = id]
  BY DEF StartAndWait
<1>6. Append(log[s], op) \in Seq(Op)
  BY <1>1, <1>3, AppendFacts
<1>7. log' = [log EXCEPT ![s] = Append(log[s], op)]
  BY <1>5 DEF Start
<1>8. RaftTypes'
  <2> HIDE DEF op
  <2> QED BY <1>5, <1>6, <1>7 DEF Types, RaftTypes, Start
<1>9. Displaced(s, index) \subseteq SubmitType
  <2>1. submits \in SUBSET SubmitType /\ waiter[s][index] \in Nat
    BY <1>1, <1>2 DEF Types, RsmTypes
  <2> QED BY <2>1, SendIs, ReplyConstants DEF Displaced
<1>10. waiter' \in [Server -> [Index -> Nat]]
  <2> HIDE DEF index, id
  <2> QED BY <1>1, <1>2, <1>5 DEF Types, RsmTypes
<1>11. submits' \subseteq SubmitType
  BY <1>4, <1>5, <1>9
<1>12. RsmTypes'
  BY <1>10, <1>11 DEF Types, RsmTypes
<1> QED BY <1>2, <1>5, <1>8, <1>12

LEMMA SubmitTypes ==
  ASSUME Types, LogInv, NEW c \in Client, Submit(c)
  PROVE  Types'
<1> DEFINE me == clerk[c]
           s  == me.leader
           id == started + 1
<1>0. /\ me \in ClerkType /\ s \in Server /\ me.at = "call" /\ started < MaxOps
      /\ UNCHANGED <<data, appliedIndex, reader, late, service>>
  BY ClerkFields DEF Types, Submit
<1>1. CASE ~leader[s] /\ GoOn(c) /\ UNCHANGED <<raftVars, waiter, submits, started>>
  <2>1. ClerkTypes'
    BY <1>0, <1>1, GoOnTypes DEF Types
  <2> QED BY <1>0, <1>1, <2>1 DEF Types, RaftTypes, RsmTypes, raftVars
<1>2. CASE /\ StartAndWait(s, c, id, ReqOf(me))
           /\ clerk' = [clerk EXCEPT ![c].at = "wait", ![c].id = id]
           /\ UNCHANGED outcome
  <2>1. ReqOf(me) \in Request
    BY <1>0, ReqIs DEF Types
  <2>2. RaftTypes' /\ RsmTypes' /\ started' \in 0 .. MaxOps
    BY <1>0, <1>2, <2>1, StartTypes
  <2>3. id \in Nat
    BY KVRaftAssumption DEF Types, ClerkTypes
  <2> DEFINE ck == [me EXCEPT !.at = "wait", !.id = id]
  <2>4. ck \in ClerkType /\ ck.op = me.op /\ ck.key = me.key
    BY <1>0, <2>3 DEF ClerkType
  <2>5. clerk' = [clerk EXCEPT ![c] = ck]
    BY <1>2
  <2>6. ClerkTypes'
    <3> HIDE DEF ck
    <3> QED BY <1>0, <1>2, <2>2, <2>4, <2>5 DEF Types, ClerkTypes
  <2> QED BY <1>0, <2>2, <2>6 DEF Types
<1> QED BY <1>1, <1>2 DEF Submit

\* A handler labrpc has given up comes to Start().
LEMMA LateSubmitTypes ==
  ASSUME Types, LogInv, NEW h \in late, LateSubmit(h)
  PROVE  Types'
<1>0. /\ h.client \in Client /\ h.server \in Server /\ h.req \in Request /\ started < MaxOps
      /\ UNCHANGED <<data, appliedIndex, reader, clerk, service, outcome>> /\ late' \subseteq LateType
  BY LateFields DEF Types, LateSubmit
<1>1. CASE UNCHANGED <<raftVars, waiter, submits, started>>
  BY <1>0, <1>1 DEF Types, RaftTypes, RsmTypes, ClerkTypes, raftVars
<1>2. CASE StartAndWait(h.server, h.client, started + 1, h.req)
  <2>1. RaftTypes' /\ RsmTypes' /\ started' \in 0 .. MaxOps
    BY <1>0, <1>2, StartTypes
  <2> QED BY <1>0, <2>1 DEF Types, ClerkTypes
<1> QED BY <1>1, <1>2 DEF LateSubmit

\* The rest of the Clerk and of Submit().
LEMMA ClerkStepTypes ==
  ASSUME Types,
         \/ \E c \in Client : CallFails(c) \/ CallAbandoned(c)
         \/ \E c \in Getter, key \in Key : Get(c, key)
         \/ \E c \in Putter, key \in Key, value \in Value, version \in 0 .. MaxVersion :
               Put(c, key, value, version)
  PROVE  Types'
<1>1. ASSUME NEW c \in Client, CallFails(c) PROVE Types'
  <2>1. ClerkTypes'
    BY <1>1, GoOnTypes DEF Types, CallFails
  <2> QED BY <1>1, <2>1 DEF Types, RaftTypes, RsmTypes, CallFails, raftVars, rsmVars
<1>4. ASSUME NEW c \in Client, CallAbandoned(c) PROVE Types'
  <2>1. ClerkTypes'
    BY <1>4, GoOnTypes DEF Types, CallAbandoned
  <2>2. PICK n \in 1 .. MaxLate :
           late' = late \cup {[n |-> n, client |-> c, server |-> clerk[c].leader, req |-> ReqOf(clerk[c])]}
    BY <1>4 DEF CallAbandoned
  <2>3. [n |-> n, client |-> c, server |-> clerk[c].leader, req |-> ReqOf(clerk[c])] \in LateType
    BY <1>4, ReqIs, ClerkFields DEF Types, LateType, CallAbandoned
  <2>4. late' \subseteq LateType
    BY <2>2, <2>3 DEF Types
  <2> QED BY <1>4, <2>1, <2>4 DEF Types, RaftTypes, RsmTypes, CallAbandoned, raftVars, rsmVars
<1>2. ASSUME NEW c \in Client, NEW op \in {"Get", "Put"}, NEW key \in Key,
             NEW value \in Value \cup {NoValue}, NEW version \in Nat,
             Begin(c, op, key, value, version)
      PROVE  Types'
  <2> DEFINE ck == [at |-> "call", op |-> op, key |-> key, value |-> value, version |-> version,
                    firstRpc |-> TRUE, leader |-> clerk[c].leader, id |-> 0, reply |-> Pending]
  <2>1. ck \in ClerkType /\ ck.op = op /\ ck.key = key
    BY ClerkFields, ReplyConstants DEF Types, ClerkType
  <2>2. clerk' = [clerk EXCEPT ![c] = ck]
    BY <1>2 DEF Begin
  <2>3. ClerkTypes'
    <3>1. UNCHANGED <<started, service, outcome>>
      BY <1>2 DEF Begin
    <3> HIDE DEF ck
    <3> QED BY <2>1, <2>2, <3>1 DEF Types, ClerkTypes
  <2> QED BY <1>2, <2>3 DEF Types, RaftTypes, RsmTypes, Begin, raftVars, rsmVars
<1>3. Getter \subseteq Client /\ Putter \subseteq Client /\ 0 .. MaxVersion \subseteq Nat
  BY KVRaftAssumption
<1> QED BY <1>1, <1>2, <1>3, <1>4 DEF Get, Put

LEMMA AnswersTypes ==
  ASSUME Types, SubmitInv, NEW g \in submits, SubmitReceive(g) \/ SubmitGivesUp(g)
  PROVE  Types'
<1>1. g.ch \in ReplyType /\ g.server \in Server /\ g.index \in Index
  BY SubmitFields DEF Types, SubmitInv, SubmitIs
<1>2. ClerkTypes' /\ submits' \subseteq SubmitType
  BY <1>1, AnswerTypes, ReplyConstants DEF Types, SubmitReceive, SubmitGivesUp
<1>3. waiter' \in [Server -> [Index -> Nat]]
  <2>1. waiter \in [Server -> [Index -> Nat]] /\ waiter[g.server] \in [Index -> Nat]
    BY <1>1 DEF Types, RsmTypes
  <2>2. waiter' = waiter \/ waiter' = [waiter EXCEPT ![g.server][g.index] = 0]
    BY DEF SubmitReceive, SubmitGivesUp
  <2> QED BY <1>1, <2>1, <2>2
<1> QED BY <1>2, <1>3 DEF Types, RaftTypes, RsmTypes, raftVars, SubmitReceive, SubmitGivesUp

\* The steps of reader().
LEMMA ReaderDoOpTypes ==
  ASSUME Types, LogInv, NEW s \in Server, ReaderDoOp(s)
  PROVE  Types'
<1> DEFINE index == lastApplied[s] + 1
           op == Command(s)
           rd == [at |-> "notify", index |-> index, id |-> op.id, to |-> 0,
                  reply |-> DoOpReply(data[s], op.req)]
<1>1. index \in Nat /\ index \in 1 .. Len(log[s]) /\ log[s] \in Seq(Op) /\ data[s] \in Data
  BY PeerFields, RsmFields DEF Types, LogInv, PeerAgrees, Agrees, ReaderDoOp, HasCommand
<1>2. op \in Op /\ op.id \in Nat /\ op.req \in Request
  BY <1>1, SeqFacts DEF Command
<1>3. /\ DoOpReply(data[s], op.req) \in ReplyType
      /\ DoOpData(data[s], op.req) \in Data
  BY <1>1, <1>2, DoOpReplies, DoOpLeaves
<1>4. rd \in ReaderType
  BY <1>1, <1>2, <1>3 DEF ReaderType
<1>5. RaftTypes'
  BY <1>1 DEF Types, RaftTypes, ReaderDoOp, SendCommand
<1>6. data' \in [Server -> Data] /\ appliedIndex' \in [Server -> Nat] /\ reader' \in [Server -> ReaderType]
  <2>1. CASE index > appliedIndex[s]
    <3>1. /\ data' = [data EXCEPT ![s] = DoOpData(data[s], op.req)]
          /\ appliedIndex' = [appliedIndex EXCEPT ![s] = index]
          /\ reader' = [reader EXCEPT ![s] = rd]
      BY <2>1 DEF ReaderDoOp
    <3> HIDE DEF rd, index
    <3> QED BY <1>1, <1>3, <1>4, <3>1 DEF Types, RsmTypes
  <2>2. CASE ~(index > appliedIndex[s])
    BY <2>2 DEF Types, RsmTypes, ReaderDoOp
  <2> QED BY <2>1, <2>2
<1> QED BY <1>5, <1>6 DEF Types, RsmTypes, ClerkTypes, ReaderDoOp

LEMMA AppliedType ==
  /\ AtRest \in ReaderType /\ AtRest.at = "idle"
  /\ \A i \in Nat : /\ Applied(i) \in ReaderType /\ Applied(i).at = "snapshot"
                    /\ Applied(i).index = i
BY ReplyConstants DEF AtRest, Applied, ReaderType

LEMMA NotifyTypes ==
  ASSUME Types, ReaderInv, NEW s \in Server, ReaderNotify(s) \/ ReaderSend(s)
  PROVE  Types'
<1>1. /\ reader[s] \in ReaderType /\ reader[s].index \in Nat /\ reader[s].index \in Index
      /\ reader[s].to \in Nat /\ reader[s].reply \in ReplyType /\ waiter[s] \in [Index -> Nat]
  BY RsmFields DEF Types, ReaderInv, ReaderIs, ReaderNotify, ReaderSend
<1>2. waiter[s][reader[s].index] \in Nat
  BY <1>1
<1>3. [reader[s] EXCEPT !.at = "send", !.to = waiter[s][reader[s].index]] \in ReaderType
  BY <1>1, <1>2 DEF ReaderType
<1>4. Applied(reader[s].index) \in ReaderType
  BY <1>1, AppliedType
<1>5. RaftTypes' /\ ClerkTypes' /\ late' = late
  BY DEF Types, RaftTypes, ClerkTypes, ReaderNotify, ReaderSend, raftVars
<1>6. CASE ReaderNotify(s)
  <2>1. waiter' \in [Server -> [Index -> Nat]]
    BY <1>1, <1>6 DEF Types, RsmTypes, ReaderNotify
  <2>2. reader' \in [Server -> ReaderType]
    BY <1>3, <1>4, <1>6 DEF Types, RsmTypes, ReaderNotify
  <2> QED BY <1>5, <1>6, <2>1, <2>2 DEF Types, RsmTypes, ReaderNotify
<1>7. CASE ReaderSend(s)
  <2>1. ResultFor(reader[s]) \in ReplyType /\ submits \in SUBSET SubmitType
    BY <1>1, ReplyConstants DEF ResultFor, Types, RsmTypes
  <2>2. submits' \subseteq SubmitType
    BY <1>1, <1>7, <2>1, SendIs DEF ReaderSend
  <2>3. reader' \in [Server -> ReaderType]
    BY <1>4, <1>7 DEF Types, RsmTypes, ReaderSend
  <2> QED BY <1>5, <1>7, <2>2, <2>3 DEF Types, RsmTypes, ReaderSend
<1> QED BY <1>6, <1>7

LEMMA SnapshotTypes ==
  ASSUME Types, NEW s \in Server, ReaderSnapshot(s) \/ ReaderRestore(s) \/ Restart(s)
  PROVE  Types'
<1>1. /\ data[s] \in Data /\ reader[s].index \in Nat
      /\ snapshot[s].index \in Nat /\ snapshot[s].data \in Data
  BY PeerFields, RsmFields DEF Types
<1>2. ClerkTypes' /\ late' \subseteq LateType
  BY DEF Types, ClerkTypes, ReaderSnapshot, ReaderRestore, Restart
<1>3. CASE ReaderSnapshot(s)
  <2>1. [index |-> reader[s].index, data |-> data[s]] \in [index: Nat, data: Data]
    BY <1>1
  <2>2. snapshot' \in [Server -> [index: Nat, data: Data]]
    BY <1>3, <2>1 DEF ReaderSnapshot, TakeSnapshot, Snapshot, Types, RaftTypes, raftVars
  <2>3. RaftTypes'
    BY <1>3, <2>2 DEF ReaderSnapshot, TakeSnapshot, Types, RaftTypes, raftVars
  <2>4. RsmTypes'
    BY <1>3, AppliedType DEF ReaderSnapshot, Types, RsmTypes
  <2> QED BY <1>2, <2>3, <2>4 DEF Types
<1>4. CASE ReaderRestore(s)
  <2>1. RaftTypes'
    BY <1>4 DEF ReaderRestore, SendSnapshot, Types, RaftTypes
  <2>2. RsmTypes'
    BY <1>1, <1>4 DEF ReaderRestore, Restore, Types, RsmTypes
  <2> QED BY <1>2, <2>1, <2>2 DEF Types
<1>5. CASE Restart(s)
  <2>1. RaftTypes'
    BY <1>1, <1>5 DEF Restart, RestartPeer, Types, RaftTypes
  <2>2. [i \in Index |-> 0] \in [Index -> Nat]
    OBVIOUS
  <2>3. RsmTypes'
    BY <1>1, <1>5, <2>2, AppliedType DEF Restart, Restore, Types, RsmTypes
  <2> QED BY <1>2, <2>1, <2>3 DEF Types
<1> QED BY <1>3, <1>4, <1>5

\* Raft commits an entry.
LEMMA CommitTypes ==
  ASSUME Types, NEW s \in Server, CommitOp(s)
  PROVE  Types'
<1> DEFINE op == NextCommitted(s)
<1>1. commitIndex[s] \in Nat /\ commitIndex[s] + 1 \in 1 .. Len(log[s]) /\ log[s] \in Seq(Op)
  BY PeerFields DEF Types, CommitOp, Commit, Commits
<1>2. op \in Op /\ op.client \in Client /\ op.req \in Request
  BY <1>1, SeqFacts DEF NextCommitted
<1>3. service \in Data /\ committed \in Seq(Op)
  BY DEF Types, ClerkTypes, RaftTypes
<1>4. DoOpReply(service, op.req) \in ReplyType /\ DoOpData(service, op.req) \in Data
  BY <1>2, <1>3, DoOpReplies, DoOpLeaves
<1> HIDE DEF op
<1>5. committed' \in Seq(Op)
  BY <1>2, <1>3, AppendFacts DEF CommitOp, Commit, op
<1>6. RaftTypes'
  BY <1>1, <1>5 DEF Types, RaftTypes, CommitOp, Commit
<1>7. service' \in Data
  BY <1>3, <1>4 DEF CommitOp, op
<1>8. outcome' \in [Client -> ReplyType]
  <2>1. outcome' = outcome \/ outcome' = [outcome EXCEPT ![op.client] = DoOpReply(service, op.req)]
    BY DEF CommitOp, op
  <2> QED BY <1>2, <1>4, <2>1 DEF Types, ClerkTypes
<1> QED BY <1>6, <1>7, <1>8 DEF Types, RsmTypes, ClerkTypes, CommitOp, rsmVars

LEMMA InitTypes ==
  ASSUME Init
  PROVE  Types
<1>1. NoData \in Data
  BY DEF NoData, Data, Entry
<1>2. RaftTypes
  <2>1. <<>> \in Seq(Op) /\ 0 \in 0 .. MaxTerm /\ [index |-> 0, data |-> NoData] \in [index: Nat, data: Data]
    BY <1>1, KVRaftAssumption
  <2> QED BY <2>1 DEF Init, RaftInit, RaftTypes
<1>3. RsmTypes
  BY <1>1, AppliedType DEF Init, RsmTypes
<1>4. Rest(0, Pending) \in ClerkType /\ Rest(0, Pending).at = "idle"
  BY ServerNumbers, ReplyConstants DEF Rest, ClerkType
<1>5. ClerkTypes /\ late \subseteq LateType
  BY <1>1, <1>4, ReplyConstants, KVRaftAssumption DEF Init, ClerkTypes
<1> QED BY <1>2, <1>3, <1>5 DEF Types

\* Every step keeps the types.
LEMMA NextTypes ==
  ASSUME RsmInv, [Next]_vars
  PROVE  Types'
<1> USE DEF RsmInv
<1>1. CASE Replicate /\ UNCHANGED <<rsmVars, late, clerk, started, service, outcome>>
  <2>1. RaftTypes'
    BY <1>1, ReplicateTypes DEF Types, LogInv
  <2> QED BY <1>1, <2>1 DEF Types, RsmTypes, ClerkTypes, rsmVars
<1>2. CASE UNCHANGED vars
  BY <1>2 DEF Types, RaftTypes, RsmTypes, ClerkTypes, vars, rsmVars, raftVars
<1>3. ASSUME NEW s \in Server, \/ CommitOp(s) \/ ReaderDoOp(s) \/ ReaderNotify(s) \/ ReaderSend(s)
                               \/ ReaderSnapshot(s) \/ ReaderRestore(s) \/ Restart(s)
      PROVE  Types'
  BY <1>3, CommitTypes, ReaderDoOpTypes, NotifyTypes, SnapshotTypes
<1>4. Crashing \subseteq Server
  BY KVRaftAssumption
<1> QED BY <1>1, <1>2, <1>3, <1>4, AnswersTypes, SubmitTypes, LateSubmitTypes,
           ClerkStepTypes DEF Next

-----------------------------------------------------------------------------
(* WHAT RAFT PROMISES IS KEPT *)

\* What is left of LeaderComplete to show for a step that makes no leader, commits nothing and
\* leaves the log of a leader alone.
LEMMA LeaderKept ==
  ASSUME RaftTypes, RaftTypes', NEW l \in Server, LeaderComplete(l),
         committed' = committed,
         \A m \in Server : leader'[m] => leader[m] /\ term'[m] = term[m] /\ log'[m] = log[m],
         \A s \in Server : term[s] =< term'[s],
         \A s \in Server : leader'[l] /\ term'[s] =< term[l] => Agrees(log[l], commitIndex'[s])
  PROVE  LeaderComplete(l)'
<1> SUFFICES ASSUME leader'[l]
             PROVE  /\ \A s \in Server : term'[s] =< term'[l] => Agrees(log[l], commitIndex[s])'
                    /\ (\A s \in Server : term'[s] =< term'[l]) => Agrees(log[l], Len(committed))'
                    /\ \A m \in Server : leader'[m] /\ term'[m] = term'[l] => m = l
  BY DEF LeaderComplete
<1>1. leader[l] /\ term'[l] = term[l] /\ log'[l] = log[l]
  OBVIOUS
<1>2. ASSUME NEW s \in Server, term'[s] =< term'[l] PROVE Agrees(log[l], commitIndex[s])'
  BY <1>1, <1>2 DEF Agrees
<1>3. ASSUME \A s \in Server : term'[s] =< term'[l] PROVE Agrees(log[l], Len(committed))'
  <2>1. ASSUME NEW s \in Server PROVE term[s] =< term[l]
    <3>1. /\ term[s] \in Nat /\ term[s]' \in Nat /\ term[l] \in Nat
          /\ term[s] =< term'[s] /\ term'[s] =< term'[l]
      BY <1>3, PeerFields, KVRaftAssumption DEF RaftTypes
    <3> QED BY <1>1, <3>1
  <2>2. Agrees(log[l], Len(committed))
    BY <1>1, <2>1 DEF LeaderComplete
  <2> QED BY <1>1, <2>2 DEF Agrees
<1>4. ASSUME NEW m \in Server, leader'[m] /\ term'[m] = term'[l] PROVE m = l
  BY <1>1, <1>4 DEF LeaderComplete
<1> QED BY <1>2, <1>3, <1>4

\* What a shorter stretch has of this.
LEMMA AgreesLess ==
  ASSUME NEW q, NEW n \in Nat, NEW m \in Nat, m =< n, Agrees(q, n), Len(q) \in Nat, Len(committed) \in Nat
  PROVE  Agrees(q, m)
BY DEF Agrees

LEMMA ElectionLog ==
  ASSUME RaftTypes, RaftTypes', LogInv, started \in Nat, started' = started, NEW s \in Server, BecomeLeader(s)
  PROVE  LogInv'
<1>0. /\ term' = [term EXCEPT ![s] = Newest + 1] /\ leader' = [leader EXCEPT ![s] = TRUE]
      /\ log' = log /\ commitIndex' = commitIndex /\ lastApplied' = lastApplied
      /\ snapshot' = snapshot /\ committed' = committed /\ IsPrefix(committed, log[s])
  BY DEF BecomeLeader
<1>1. Agrees(log[s], Len(committed))
  <2>1. Len(committed) \in Nat /\ committed \in Seq(Op) /\ log[s] \in Seq(Op) /\ Len(log[s]) \in Nat
    BY PeerFields DEF RaftTypes
  <2>2. Len(committed) =< Len(log[s]) /\ SubSeq(committed, 1, Len(committed)) = SubSeq(log[s], 1, Len(committed))
    BY <1>0 DEF IsPrefix
  <2>3. \A i \in 1 .. Len(committed) : SubSeq(committed, 1, Len(committed))[i] = committed[i]
    BY <2>1, PrefixFacts
  <2>4. \A i \in 1 .. Len(committed) : SubSeq(log[s], 1, Len(committed))[i] = log[s][i]
    BY <2>1, <2>2, PrefixFacts
  <2> QED BY <2>1, <2>2, <2>3, <2>4 DEF Agrees
<1>2. /\ Newest \in Nat /\ \A m \in Server : term[m] \in Nat /\ term[m] =< Newest
      /\ \A m \in Server : term'[m] = IF m = s THEN Newest + 1 ELSE term[m]
      /\ \A m \in Server : m # s => (leader'[m] <=> leader[m])
      /\ leader'[s]
  <2>1. Newest \in Nat /\ \A m \in Server : term[m] \in Nat /\ term[m] =< Newest
    BY NewestIs, PeerFields
  <2>2. \A m \in Server : term'[m] = IF m = s THEN Newest + 1 ELSE term[m]
    BY <1>0 DEF RaftTypes
  <2>3. /\ \A m \in Server : m # s => leader'[m] = leader[m]
        /\ leader'[s] = TRUE
    BY <1>0 DEF RaftTypes
  <2> QED BY <2>1, <2>2, <2>3
<1>3. ASSUME NEW m \in Server PROVE PeerAgrees(m)' /\ Numbered(log[m])'
  BY <1>0 DEF LogInv, PeerAgrees, Agrees, Numbered
<1>4. ASSUME NEW l \in Server PROVE LeaderComplete(l)'
  <2>1. CASE l = s
    <3>1. ASSUME NEW m \in Server PROVE Agrees(log[s], commitIndex[m])
      <4>1. commitIndex[m] \in Nat /\ Len(committed) \in Nat /\ Len(log[s]) \in Nat /\ commitIndex[m] =< Len(committed)
        BY PeerFields DEF LogInv, PeerAgrees, Agrees
      <4> QED BY <1>1, <4>1, AgreesLess
    <3>2. \A m \in Server : Agrees(log[s], commitIndex[m])'
      BY <1>0, <3>1 DEF Agrees
    <3>3. Agrees(log[s], Len(committed))'
      BY <1>0, <1>1 DEF Agrees
    <3>4. \A m \in Server : term'[m] = term'[s] => m = s
      BY <1>2
    <3> QED BY <2>1, <3>2, <3>3, <3>4 DEF LeaderComplete
  <2>2. CASE l # s
    <3> SUFFICES ASSUME leader'[l]
                 PROVE  /\ \A m \in Server : term'[m] =< term'[l] => Agrees(log[l], commitIndex[m])'
                        /\ ~(\A m \in Server : term'[m] =< term'[l])
                        /\ \A m \in Server : leader'[m] /\ term'[m] = term'[l] => m = l
      BY DEF LeaderComplete
    <3>1. leader[l] /\ LeaderComplete(l) /\ term'[l] = term[l] /\ ~(term'[s] =< term'[l])
      BY <1>2, <2>2 DEF LogInv
    <3>2. ASSUME NEW m \in Server, term'[m] =< term'[l] PROVE Agrees(log[l], commitIndex[m])'
      <4>1. m # s /\ term[m] =< term[l]
        BY <1>2, <3>1, <3>2
      <4>2. Agrees(log[l], commitIndex[m])
        BY <3>1, <4>1 DEF LeaderComplete
      <4> QED BY <1>0, <4>2 DEF Agrees
    <3>3. ASSUME NEW m \in Server, leader'[m], term'[m] = term'[l] PROVE m = l
      <4>1. m # s /\ leader[m] /\ term[m] = term[l]
        BY <1>2, <3>1, <3>3
      <4> QED BY <3>1, <4>1 DEF LeaderComplete
    <3> QED BY <3>1, <3>2, <3>3
  <2> QED BY <2>1, <2>2
<1>5. Numbered(committed)'
  BY <1>0 DEF LogInv, Numbered
<1> QED BY <1>3, <1>4, <1>5 DEF LogInv

LEMMA StepDownLog ==
  ASSUME RaftTypes, RaftTypes', LogInv, started \in Nat, started' = started, NEW s \in Server, StepDown(s)
  PROVE  LogInv'
<1>0. /\ term' = [term EXCEPT ![s] = Newest] /\ leader' = [leader EXCEPT ![s] = FALSE]
      /\ log' = log /\ commitIndex' = commitIndex /\ lastApplied' = lastApplied
      /\ snapshot' = snapshot /\ committed' = committed
  BY DEF StepDown
<1>2. /\ Newest \in Nat /\ \A m \in Server : term[m] \in Nat /\ term[m] =< Newest
      /\ \A m \in Server : term'[m] = IF m = s THEN Newest ELSE term[m]
      /\ \A m \in Server : m # s => (leader'[m] <=> leader[m])
      /\ ~leader'[s]
  <2>1. Newest \in Nat /\ \A m \in Server : term[m] \in Nat /\ term[m] =< Newest
    BY NewestIs, PeerFields
  <2>2. \A m \in Server : term'[m] = IF m = s THEN Newest ELSE term[m]
    BY <1>0 DEF RaftTypes
  <2>3. /\ \A m \in Server : m # s => leader'[m] = leader[m]
        /\ leader'[s] = FALSE
    BY <1>0 DEF RaftTypes
  <2> QED BY <2>1, <2>2, <2>3
<1>3. ASSUME NEW m \in Server PROVE PeerAgrees(m)' /\ Numbered(log[m])'
  BY <1>0 DEF LogInv, PeerAgrees, Agrees, Numbered
<1>4. ASSUME NEW l \in Server PROVE LeaderComplete(l)'
  <2>1. ASSUME NEW m \in Server, leader'[m] PROVE leader[m] /\ term'[m] = term[m] /\ log'[m] = log[m]
    BY <1>0, <1>2, <2>1
  <2>2. \A m \in Server : term[m] =< term'[m]
    BY <1>2
  <2>3. ASSUME NEW m \in Server, leader'[l], term'[m] =< term[l] PROVE Agrees(log[l], commitIndex'[m])
    <3>1. leader[l] /\ term[m] =< term[l]
      BY <1>2, <2>3
    <3> QED BY <1>0, <3>1 DEF LogInv, LeaderComplete
  <2> QED BY <1>0, <2>1, <2>2, <2>3, LeaderKept DEF LogInv
<1>5. Numbered(committed)'
  BY <1>0 DEF LogInv, Numbered
<1> QED BY <1>3, <1>4, <1>5 DEF LogInv

\* A follower takes over the first n entries of a leader's log, and knows i of them to be
\* committed, which the leader knows or the follower knew.
LEMMA FollowLog ==
  ASSUME RaftTypes, RaftTypes', LogInv, started \in Nat, started' = started, NEW s \in Server, NEW l \in Server,
         Follows(s, l), NEW n \in Nat, n =< Len(log[l]), NEW i \in Nat, i =< n,
         i =< commitIndex[l] \/ i =< commitIndex[s],
         log' = [log EXCEPT ![s] = SubSeq(log[l], 1, n)],
         term' = [term EXCEPT ![s] = term[l]], commitIndex' = [commitIndex EXCEPT ![s] = i],
         leader' = leader, committed' = committed,
         \A m \in Server : m # s => lastApplied'[m] = lastApplied[m] /\ snapshot'[m] = snapshot[m],
         lastApplied'[s] =< i, snapshot'[s].index =< lastApplied'[s]
  PROVE  LogInv'
<1>0. /\ leader[l] /\ ~leader[s] /\ l # s /\ term[s] =< term[l]
      /\ \A m \in Server : term[m] \in Nat /\ term'[m] = IF m = s THEN term[l] ELSE term[m]
      /\ \A m \in Server : commitIndex[m] \in Nat /\ commitIndex'[m] = IF m = s THEN i ELSE commitIndex[m]
      /\ \A m \in Server : m # s => log'[m] = log[m]
      /\ \A m \in Server : Len(log[m]) \in Nat /\ Len(committed) \in Nat
  BY PeerFields DEF Follows, RaftTypes
<1>1. log'[s] = SubSeq(log[l], 1, n) /\ log[l] \in Seq(Op)
  BY DEF RaftTypes
<1>2. Len(log'[s]) = n /\ \A k \in 1 .. n : log'[s][k] = log[l][k]
  BY <1>1, PrefixFacts
<1>3. \A m \in Server : leader[m] /\ term[l] =< term[m] => Agrees(log[m], i)
  <2> SUFFICES ASSUME NEW m \in Server, leader[m], term[l] =< term[m] PROVE Agrees(log[m], i)
    OBVIOUS
  <2>1. Agrees(log[m], commitIndex[l]) /\ Agrees(log[m], commitIndex[s])
    <3>1. term[s] =< term[m]
      BY <1>0
    <3> QED BY <3>1 DEF LogInv, LeaderComplete
  <2> QED BY <1>0, <2>1, AgreesLess
<1>4. ASSUME NEW m \in Server PROVE PeerAgrees(m)' /\ Numbered(log[m])'
  <2>1. CASE m = s
    <3>1. Agrees(log[l], i)
      BY <1>0, <1>3
    <3>2. Agrees(log[s], commitIndex[s])'
      BY <1>0, <1>2, <3>1 DEF Agrees
    <3>3. Numbered(log[l])
      BY DEF LogInv
    <3>4. n =< started /\ \A k \in 1 .. n : k \in 1 .. Len(log[l])
      BY <1>0, <3>3 DEF Numbered
    <3>5. Numbered(log[s])'
      BY <1>2, <3>3, <3>4 DEF Numbered
    <3> QED BY <1>0, <2>1, <3>2, <3>5 DEF PeerAgrees
  <2>2. CASE m # s
    <3>1. PeerAgrees(m) /\ Numbered(log[m]) /\ log'[m] = log[m] /\ commitIndex'[m] = commitIndex[m]
      BY <1>0, <2>2 DEF LogInv
    <3>2. PeerAgrees(m)'
      <4>1. Agrees(log[m], commitIndex[m])'
        BY <3>1 DEF PeerAgrees, Agrees
      <4>2. lastApplied'[m] = lastApplied[m] /\ snapshot'[m] = snapshot[m]
        BY <2>2
      <4> QED BY <3>1, <4>1, <4>2 DEF PeerAgrees
    <3>3. Numbered(log[m])'
      BY <3>1 DEF Numbered
    <3> QED BY <3>2, <3>3
  <2> QED BY <2>1, <2>2
<1>5. ASSUME NEW m \in Server PROVE LeaderComplete(m)'
  <2>1. ASSUME NEW k \in Server, leader'[k] PROVE leader[k] /\ term'[k] = term[k] /\ log'[k] = log[k]
    BY <1>0, <2>1
  <2>2. \A k \in Server : term[k] =< term'[k]
    BY <1>0
  <2>3. ASSUME NEW k \in Server, leader'[m], term'[k] =< term[m] PROVE Agrees(log[m], commitIndex'[k])
    <3>1. CASE k = s
      BY <1>0, <1>3, <2>3, <3>1
    <3>2. CASE k # s
      BY <1>0, <2>3, <3>2 DEF LogInv, LeaderComplete
    <3> QED BY <3>1, <3>2
  <2> QED BY <2>1, <2>2, <2>3, LeaderKept DEF LogInv
<1>6. Numbered(committed)'
  BY DEF LogInv, Numbered
<1> QED BY <1>4, <1>5, <1>6 DEF LogInv

LEMMA ReplicateLog ==
  ASSUME RaftTypes, RaftTypes', LogInv, started \in Nat, started' = started, Replicate
  PROVE  LogInv'
<1>1. ASSUME NEW s \in Server, NEW l \in Server, Adopt(s, l) PROVE LogInv'
  <2> DEFINE i == Max({commitIndex[s], commitIndex[l]})
             n == Len(log[l])
  <2>1. /\ commitIndex[s] \in Nat /\ commitIndex[l] \in Nat /\ n \in Nat /\ log[l] \in Seq(Op)
        /\ lastApplied[s] \in Nat
    BY PeerFields
  <2>2. i \in Nat /\ (i = commitIndex[s] \/ i = commitIndex[l]) /\ commitIndex[s] =< i
    BY <2>1, MaxOfTwo
  <2>3. Agrees(log[l], commitIndex[s]) /\ Agrees(log[l], commitIndex[l])
    <3>1. term[s] =< term[l] /\ leader[l]
      BY <1>1, PeerFields DEF Adopt, Follows
    <3> QED BY <3>1 DEF LogInv, LeaderComplete, PeerAgrees
  <2>4. i =< n
    BY <2>2, <2>3 DEF Agrees
  <2>5. SubSeq(log[l], 1, n) = log[l]
    BY <2>1, SubSeqFull
  <2>6. /\ log' = [log EXCEPT ![s] = SubSeq(log[l], 1, n)] /\ term' = [term EXCEPT ![s] = term[l]]
        /\ commitIndex' = [commitIndex EXCEPT ![s] = i] /\ leader' = leader /\ committed' = committed
        /\ lastApplied' = lastApplied /\ snapshot' = snapshot /\ Follows(s, l)
    BY <1>1, <2>5 DEF Adopt
  <2>7. lastApplied[s] =< i /\ snapshot[s].index =< lastApplied[s]
    <3>1. lastApplied[s] =< commitIndex[s] /\ snapshot[s].index =< lastApplied[s]
      BY DEF LogInv, PeerAgrees
    <3> QED BY <2>1, <2>2, <3>1
  <2> HIDE DEF i, n
  <2>8. n =< Len(log[l]) /\ (i =< commitIndex[l] \/ i =< commitIndex[s])
    BY <2>1, <2>2 DEF n
  <2> QED BY <2>1, <2>2, <2>4, <2>6, <2>7, <2>8, FollowLog
<1>2. ASSUME NEW s \in Server, NEW l \in Server, AdoptSnapshot(s, l) PROVE LogInv'
  <2> DEFINE i == snapshot[l].index
  <2>1. i \in Nat /\ i =< commitIndex[l] /\ i =< Len(log[l])
    BY PeerFields DEF LogInv, PeerAgrees, Agrees
  <2>2. /\ log' = [log EXCEPT ![s] = SubSeq(log[l], 1, i)] /\ term' = [term EXCEPT ![s] = term[l]]
        /\ commitIndex' = [commitIndex EXCEPT ![s] = i] /\ leader' = leader /\ committed' = committed
        /\ lastApplied' = [lastApplied EXCEPT ![s] = i]
        /\ snapshot' = [snapshot EXCEPT ![s] = snapshot[l]] /\ Follows(s, l)
    BY <1>2 DEF AdoptSnapshot
  <2>3. lastApplied'[s] = i /\ snapshot'[s].index = i
        /\ \A m \in Server : m # s => lastApplied'[m] = lastApplied[m] /\ snapshot'[m] = snapshot[m]
    BY <2>2 DEF RaftTypes
  <2> HIDE DEF i
  <2>4. i =< i
    BY <2>1
  <2> QED BY <2>1, <2>2, <2>3, <2>4, FollowLog
<1> QED BY <1>1, <1>2, ElectionLog, StepDownLog DEF Replicate

\* Start(): the new entry has the next number.
LEMMA StartLog ==
  ASSUME RaftTypes, RaftTypes', LogInv, started \in Nat, NEW s \in Server, NEW e \in Op,
         e.id = started + 1, started' = started + 1, Start(s, e)
  PROVE  LogInv'
<1>0. /\ log' = [log EXCEPT ![s] = Append(log[s], e)] /\ term' = term /\ leader' = leader
      /\ commitIndex' = commitIndex /\ lastApplied' = lastApplied
      /\ snapshot' = snapshot /\ committed' = committed
  BY DEF Start
<1>1. /\ log'[s] = Append(log[s], e) /\ \A m \in Server : m # s => log'[m] = log[m]
      /\ log[s] \in Seq(Op)
  BY <1>0 DEF RaftTypes
<1>2. /\ Len(log[s]) \in Nat /\ Len(log'[s]) = Len(log[s]) + 1 /\ log'[s][Len(log[s]) + 1] = e
      /\ \A i \in 1 .. Len(log[s]) : log'[s][i] = log[s][i]
  BY <1>1, AppendFacts
<1>3. ASSUME NEW m \in Server, NEW n \in Nat, Agrees(log[m], n) PROVE Agrees(log[m], n)'
  <2>1. CASE m = s
    BY <1>0, <1>2, <1>3, <2>1 DEF Agrees
  <2>2. CASE m # s
    BY <1>0, <1>1, <1>3, <2>2 DEF Agrees
  <2> QED BY <2>1, <2>2
<1>4. ASSUME NEW m \in Server PROVE PeerAgrees(m)'
  <2>1. commitIndex[m] \in Nat /\ Agrees(log[m], commitIndex[m])
    BY PeerFields DEF LogInv, PeerAgrees
  <2>2. Agrees(log'[m], commitIndex[m])
    BY <1>0, <1>3, <2>1 DEF Agrees
  <2> QED BY <1>0, <2>2 DEF LogInv, PeerAgrees, Agrees
<1>5. ASSUME NEW m \in Server PROVE LeaderComplete(m)'
  <2> SUFFICES ASSUME leader[m]
               PROVE  /\ \A k \in Server : term[k] =< term[m] => Agrees(log[m], commitIndex[k])'
                      /\ (\A k \in Server : term[k] =< term[m]) => Agrees(log[m], Len(committed))'
                      /\ \A k \in Server : leader[k] /\ term[k] = term[m] => k = m
    BY <1>0 DEF LeaderComplete
  <2>1. \A k \in Server : commitIndex[k] \in Nat /\ Len(committed) \in Nat
    BY PeerFields
  <2>2. ASSUME NEW n \in Nat, Agrees(log[m], n) PROVE Agrees(log'[m], n)
    BY <1>0, <1>3, <2>2 DEF Agrees
  <2>3. ASSUME NEW k \in Server, term[k] =< term[m] PROVE Agrees(log[m], commitIndex[k])'
    <3>1. Agrees(log'[m], commitIndex[k])
      BY <2>1, <2>2, <2>3 DEF LogInv, LeaderComplete
    <3> QED BY <1>0, <3>1 DEF Agrees
  <2>4. ASSUME \A k \in Server : term[k] =< term[m] PROVE Agrees(log[m], Len(committed))'
    <3>1. Agrees(log'[m], Len(committed))
      BY <2>1, <2>2, <2>4 DEF LogInv, LeaderComplete
    <3> QED BY <1>0, <3>1 DEF Agrees
  <2>5. \A k \in Server : leader[k] /\ term[k] = term[m] => k = m
    BY DEF LogInv, LeaderComplete
  <2> QED BY <2>3, <2>4, <2>5
<1>6. ASSUME NEW m \in Server PROVE Numbered(log[m])'
  <2>1. Numbered(log[m]) /\ Len(log[m]) \in Nat /\ \A i \in 1 .. Len(log[m]) : log[m][i].id \in Nat
    BY PeerFields, SeqFacts DEF LogInv
  <2>2. CASE m = s
    <3> DEFINE n == Len(log[s])
    <3>1. /\ n =< started /\ \A i \in 1 .. n : log[s][i].id \in Nat /\ log[s][i].id >= 1 /\ log[s][i].id =< started
          /\ \A i, j \in 1 .. n : i < j => log[s][i].id < log[s][j].id
      BY <2>1, <2>2 DEF Numbered
    <3>2. \A i \in 1 .. n + 1 : log'[s][i].id = IF i = n + 1 THEN started + 1 ELSE log[s][i].id
      BY <1>2
    <3>3. /\ n \in Nat /\ Len(log'[s]) = n + 1
      BY <1>2
    <3> HIDE DEF n
    <3>4. \A i \in 1 .. n + 1 : log'[s][i].id >= 1 /\ log'[s][i].id =< started + 1
      BY <3>1, <3>2, <3>3
    <3>5. \A i, j \in 1 .. n + 1 : i < j => log'[s][i].id < log'[s][j].id
      BY <3>1, <3>2, <3>3
    <3> QED BY <2>2, <3>1, <3>3, <3>4, <3>5 DEF Numbered
  <2>3. CASE m # s
    BY <1>1, <2>1, <2>3 DEF Numbered
  <2> QED BY <2>2, <2>3
<1>7. Numbered(committed)'
  <2>1. Numbered(committed) /\ Len(committed) \in Nat /\ \A i \in 1 .. Len(committed) : committed[i].id \in Nat
    BY SeqFacts DEF LogInv, RaftTypes
  <2> QED BY <1>0, <2>1 DEF Numbered
<1> QED BY <1>4, <1>5, <1>6, <1>7 DEF LogInv

\* Who leads in the newest term leads alone, and has everything that is committed.
LEMMA NewestLeader ==
  ASSUME RaftTypes, LogInv, NEW s \in Server, leader[s], term[s] = Newest
  PROVE  /\ Agrees(log[s], Len(committed))
         /\ \A l \in Server : leader[l] /\ term[s] =< term[l] => l = s
<1>1. \A m \in Server : term[m] \in Nat /\ term[m] =< term[s]
  BY NewestIs, PeerFields
<1>2. LeaderComplete(s)
  BY DEF LogInv
<1> QED BY <1>1, <1>2 DEF LeaderComplete

\* What is committed: the news are the entry after what was committed, and the rest is there.
LEMMA CommitIs ==
  ASSUME RaftTypes, LogInv, NEW s \in Server, Commit(s)
  PROVE  /\ commitIndex[s] + 1 \in 1 .. Len(log[s]) /\ NextCommitted(s) \in Op
         /\ Len(committed) \in Nat /\ commitIndex[s] =< Len(committed)
         /\ IF IsNews(s)
              THEN /\ Len(committed') = Len(committed) + 1 /\ committed' \in Seq(Op)
                   /\ committed'[Len(committed) + 1] = NextCommitted(s)
                   /\ \A i \in 1 .. Len(committed) : committed'[i] = committed[i]
              ELSE committed' = committed /\ commitIndex[s] + 1 =< Len(committed)
<1>1. /\ commitIndex[s] \in Nat /\ Len(committed) \in Nat /\ commitIndex[s] < Len(log[s])
      /\ log[s] \in Seq(Op) /\ Len(log[s]) \in Nat /\ committed \in Seq(Op)
      /\ commitIndex[s] =< Len(committed)
      /\ committed' = IF IsNews(s) THEN Append(committed, NextCommitted(s)) ELSE committed
  BY PeerFields DEF Commit, Commits, LogInv, PeerAgrees, Agrees, RaftTypes
<1>2. commitIndex[s] + 1 \in 1 .. Len(log[s]) /\ NextCommitted(s) \in Op
  BY <1>1, SeqFacts DEF NextCommitted
<1>3. CASE IsNews(s)
  BY <1>1, <1>2, <1>3, AppendFacts
<1>4. CASE ~IsNews(s)
  BY <1>1, <1>2, <1>4 DEF IsNews
<1> QED BY <1>3, <1>4

LEMMA CommitLog ==
  ASSUME RaftTypes, RaftTypes', LogInv, started \in Nat, started' = started, NEW s \in Server, Commit(s)
  PROVE  LogInv'
<1>0. /\ commitIndex' = [commitIndex EXCEPT ![s] = commitIndex[s] + 1] /\ term' = term /\ leader' = leader
      /\ log' = log /\ lastApplied' = lastApplied /\ snapshot' = snapshot
      /\ leader[s] /\ term[s] = Newest
  BY DEF Commit, Commits
<1>1. /\ commitIndex[s] \in Nat /\ commitIndex'[s] = commitIndex[s] + 1
      /\ \A m \in Server : commitIndex[m] \in Nat /\ (m # s => commitIndex'[m] = commitIndex[m])
      /\ \A m \in Server : Len(log[m]) \in Nat
      /\ Len(committed) \in Nat /\ \A m \in Server : lastApplied[m] \in Nat /\ term[m] \in Nat
  BY <1>0, PeerFields DEF RaftTypes
<1>2. /\ Agrees(log[s], Len(committed))
      /\ \A l \in Server : leader[l] /\ term[s] =< term[l] => l = s
  BY <1>0, NewestLeader
<1>3. ASSUME NEW q, NEW n \in Nat, Agrees(q, n) PROVE Agrees(q, n)'
  <2>1. Len(committed) =< Len(committed') /\ Len(committed') \in Nat
        /\ \A i \in 1 .. Len(committed) : committed'[i] = committed[i]
    BY CommitIs
  <2> QED BY <1>1, <1>3, <2>1 DEF Agrees
<1>4. Agrees(log[s], Len(committed))' /\ commitIndex'[s] =< Len(committed') /\ Len(committed') \in Nat
  <2>1. CASE IsNews(s)
    <3>1. /\ commitIndex[s] = Len(committed) /\ Len(committed') = Len(committed) + 1
          /\ committed'[Len(committed) + 1] = log[s][Len(committed) + 1]
          /\ \A i \in 1 .. Len(committed) : committed'[i] = committed[i]
          /\ Len(committed) + 1 =< Len(log[s])
      BY <2>1, CommitIs DEF IsNews, NextCommitted
    <3>2. \A i \in 1 .. Len(committed) : log[s][i] = committed[i]
      BY <1>2 DEF Agrees
    <3>3. \A i \in 1 .. Len(committed') : log[s][i] = committed'[i]
      BY <1>1, <3>1, <3>2
    <3> QED BY <1>0, <1>1, <3>1, <3>3 DEF Agrees
  <2>2. CASE ~IsNews(s)
    <3>1. committed' = committed /\ commitIndex[s] + 1 =< Len(committed)
      BY <2>2, CommitIs
    <3> QED BY <1>0, <1>1, <1>2, <3>1 DEF Agrees
  <2> QED BY <2>1, <2>2
<1>5. Agrees(log[s], commitIndex[s])'
  BY <1>0, <1>1, <1>4 DEF Agrees
<1>6. ASSUME NEW m \in Server PROVE PeerAgrees(m)'
  <2>1. CASE m = s
    <3>1. lastApplied[s] =< commitIndex[s] /\ snapshot[s].index =< lastApplied[s]
      BY DEF LogInv, PeerAgrees
    <3> QED BY <1>0, <1>1, <1>5, <2>1, <3>1 DEF PeerAgrees
  <2>2. CASE m # s
    <3>1. Agrees(log[m], commitIndex[m])
      BY DEF LogInv, PeerAgrees
    <3>2. Agrees(log[m], commitIndex[m])'
      BY <1>0, <1>1, <1>3, <2>2, <3>1 DEF Agrees
    <3> QED BY <1>0, <1>1, <2>2, <3>2 DEF LogInv, PeerAgrees
  <2> QED BY <2>1, <2>2
<1>7. ASSUME NEW l \in Server PROVE LeaderComplete(l)'
  <2> SUFFICES ASSUME leader[l]
               PROVE  /\ \A k \in Server : term[k] =< term[l] => Agrees(log[l], commitIndex[k])'
                      /\ (\A k \in Server : term[k] =< term[l]) => Agrees(log[l], Len(committed))'
                      /\ \A k \in Server : leader[k] /\ term[k] = term[l] => k = l
    BY <1>0 DEF LeaderComplete
  <2>1. ASSUME NEW k \in Server, term[k] =< term[l] PROVE Agrees(log[l], commitIndex[k])'
    <3>1. CASE k = s
      BY <1>2, <1>5, <2>1, <3>1
    <3>2. CASE k # s
      <4>1. Agrees(log[l], commitIndex[k])
        BY <2>1 DEF LogInv, LeaderComplete
      <4> QED BY <1>0, <1>1, <1>3, <3>2, <4>1 DEF Agrees
    <3> QED BY <3>1, <3>2
  <2>2. ASSUME \A k \in Server : term[k] =< term[l] PROVE Agrees(log[l], Len(committed))'
    <3>1. l = s
      BY <1>2, <2>2
    <3> QED BY <1>4, <3>1
  <2>3. \A k \in Server : leader[k] /\ term[k] = term[l] => k = l
    BY DEF LogInv, LeaderComplete
  <2> QED BY <2>1, <2>2, <2>3
<1>8. ASSUME NEW m \in Server PROVE Numbered(log[m])'
  BY <1>0 DEF LogInv, Numbered
<1>9. Numbered(committed)'
  <2>1. Numbered(log[s]) /\ \A i \in 1 .. Len(committed') : log[s][i] = committed'[i] /\ i \in 1 .. Len(log[s])
    BY <1>0, <1>1, <1>4 DEF LogInv, Agrees
  <2>2. Len(committed') =< started
    BY <1>0, <1>1, <1>4 DEF LogInv, Agrees, Numbered
  <2> QED BY <2>1, <2>2 DEF Numbered
<1> QED BY <1>6, <1>7, <1>8, <1>9 DEF LogInv

\* The steps that only move what is applied or saved, and a restart.
LEMMA OtherLog ==
  ASSUME RaftTypes, RaftTypes', LogInv, started' = started,
         term' = term, log' = log, committed' = committed,
         \A s \in Server : leader'[s] => leader[s],
         \A s \in Server : /\ snapshot'[s].index =< lastApplied'[s] /\ lastApplied'[s] =< commitIndex'[s]
                           /\ commitIndex'[s] =< commitIndex[s]
  PROVE  LogInv'
<1>1. \A s \in Server : /\ commitIndex[s] \in Nat /\ commitIndex'[s] \in Nat
                        /\ Len(log[s]) \in Nat /\ Len(committed) \in Nat /\ term[s] \in Nat
  BY PeerFields DEF RaftTypes
<1>2. ASSUME NEW q, Len(q) \in Nat, NEW s \in Server, Agrees(q, commitIndex[s]) PROVE Agrees(q, commitIndex'[s])
  BY <1>1, <1>2, AgreesLess
<1>3. ASSUME NEW s \in Server PROVE PeerAgrees(s)'
  <2>1. Agrees(log[s], commitIndex[s])
    BY DEF LogInv, PeerAgrees
  <2>2. Agrees(log[s], commitIndex'[s])
    BY <1>1, <1>2, <2>1
  <2> QED BY <2>2 DEF PeerAgrees, Agrees
<1>4. ASSUME NEW l \in Server PROVE LeaderComplete(l)'
  <2>1. \A m \in Server : leader'[m] => leader[m] /\ term'[m] = term[m] /\ log'[m] = log[m]
    OBVIOUS
  <2>2. \A m \in Server : term[m] =< term'[m]
    BY <1>1
  <2>3. ASSUME NEW m \in Server, leader'[l], term'[m] =< term[l] PROVE Agrees(log[l], commitIndex'[m])
    <3>1. Agrees(log[l], commitIndex[m])
      BY <2>3 DEF LogInv, LeaderComplete
    <3> QED BY <1>1, <1>2, <3>1
  <2> QED BY <2>1, <2>2, <2>3, LeaderKept DEF LogInv
<1>5. ASSUME NEW m \in Server PROVE Numbered(log[m])'
  BY DEF LogInv, Numbered
<1>6. Numbered(committed)'
  BY DEF LogInv, Numbered
<1> QED BY <1>3, <1>4, <1>5, <1>6 DEF LogInv

LEMMA ReaderLog ==
  ASSUME Types, Types', LogInv, ReaderInv, NEW s \in Server,
         \/ ReaderDoOp(s) \/ ReaderSnapshot(s) \/ ReaderRestore(s) \/ Restart(s)
  PROVE  LogInv'
<1>0. \A m \in Server : /\ snapshot[m].index \in Nat /\ lastApplied[m] \in Nat /\ commitIndex[m] \in Nat
                        /\ snapshot[m].index =< lastApplied[m] /\ lastApplied[m] =< commitIndex[m]
  BY PeerFields DEF Types, LogInv, PeerAgrees
<1>1. /\ started' = started /\ term' = term /\ log' = log /\ committed' = committed
  BY DEF ReaderDoOp, SendCommand, ReaderSnapshot, TakeSnapshot, ReaderRestore, SendSnapshot, Restart,
         RestartPeer, raftVars
<1>2. CASE ReaderDoOp(s)
  <2>1. leader' = leader /\ commitIndex' = commitIndex /\ snapshot' = snapshot
        /\ lastApplied' = [lastApplied EXCEPT ![s] = lastApplied[s] + 1] /\ lastApplied[s] < commitIndex[s]
    BY <1>2 DEF ReaderDoOp, SendCommand, HasCommand
  <2>2. \A m \in Server : lastApplied'[m] = IF m = s THEN lastApplied[s] + 1 ELSE lastApplied[m]
    BY <2>1 DEF Types, RaftTypes
  <2>3. ASSUME NEW m \in Server
        PROVE  /\ snapshot'[m].index =< lastApplied'[m] /\ lastApplied'[m] =< commitIndex'[m]
               /\ commitIndex'[m] =< commitIndex[m]
    BY <1>0, <2>1, <2>2
  <2> QED BY <1>1, <2>1, <2>3, OtherLog DEF Types
<1>3. CASE ReaderSnapshot(s)
  <2>1. /\ leader' = leader /\ commitIndex' = commitIndex /\ lastApplied' = lastApplied
        /\ \/ snapshot' = snapshot
           \/ snapshot' = [snapshot EXCEPT ![s] = [index |-> reader[s].index, data |-> data[s]]]
    BY <1>3 DEF ReaderSnapshot, TakeSnapshot, Snapshot, raftVars
  <2>2. reader[s].index =< lastApplied[s]
    BY <1>3 DEF ReaderInv, ReaderIs, ReaderSnapshot
  <2>3. ASSUME NEW m \in Server
        PROVE  /\ snapshot'[m].index =< lastApplied'[m] /\ lastApplied'[m] =< commitIndex'[m]
               /\ commitIndex'[m] =< commitIndex[m]
    <3>0. m = s => [snapshot EXCEPT ![s] = [index |-> reader[s].index, data |-> data[s]]][m].index = reader[s].index
      BY DEF Types, RaftTypes
    <3>1. snapshot'[m].index = snapshot[m].index \/ (m = s /\ snapshot'[m].index = reader[s].index)
      <4>1. CASE m = s
        BY <2>1, <3>0, <4>1
      <4>2. CASE m # s
        BY <2>1, <4>2 DEF Types, RaftTypes
      <4> QED BY <4>1, <4>2
    <3> QED BY <1>0, <2>1, <2>2, <3>1
  <2> QED BY <1>1, <2>1, <2>3, OtherLog DEF Types
<1>4. CASE ReaderRestore(s)
  <2>1. leader' = leader /\ commitIndex' = commitIndex /\ lastApplied' = lastApplied /\ snapshot' = snapshot
    BY <1>4 DEF ReaderRestore, SendSnapshot
  <2> QED BY <1>0, <1>1, <2>1, OtherLog DEF Types
<1>5. CASE Restart(s)
  <2>1. /\ leader' = [leader EXCEPT ![s] = FALSE] /\ snapshot' = snapshot
        /\ commitIndex' = [commitIndex EXCEPT ![s] = snapshot[s].index]
        /\ lastApplied' = [lastApplied EXCEPT ![s] = snapshot[s].index]
    BY <1>5 DEF Restart, RestartPeer
  <2>2. ASSUME NEW m \in Server
        PROVE  /\ snapshot'[m].index =< lastApplied'[m] /\ lastApplied'[m] =< commitIndex'[m]
               /\ commitIndex'[m] =< commitIndex[m]
    <3>1. CASE m = s
      <4>1. commitIndex'[m] = snapshot[m].index /\ lastApplied'[m] = snapshot[m].index
        BY <2>1, <3>1 DEF Types, RaftTypes
      <4> QED BY <1>0, <2>1, <4>1
    <3>2. CASE m # s
      <4>1. commitIndex'[m] = commitIndex[m] /\ lastApplied'[m] = lastApplied[m]
        BY <2>1, <3>2 DEF Types, RaftTypes
      <4> QED BY <1>0, <2>1, <4>1
    <3> QED BY <3>1, <3>2
  <2>3. ASSUME NEW m \in Server, leader'[m] PROVE leader[m]
    BY <2>1, <2>3 DEF Types, RaftTypes
  <2> QED BY <1>1, <2>2, <2>3, OtherLog DEF Types
<1> QED BY <1>2, <1>3, <1>4, <1>5

\* An operation is started.
LEMMA SubmitLog ==
  ASSUME Types, Types', LogInv, NEW s \in Server, NEW c \in Client, NEW req \in Request,
         StartAndWait(s, c, started + 1, req)
  PROVE  LogInv'
<1> DEFINE op == [id |-> started + 1, client |-> c, req |-> req]
<1>1. started \in Nat
  BY KVRaftAssumption DEF Types, ClerkTypes
<1>2. op \in Op /\ op.id = started + 1
  BY <1>1 DEF Op
<1>3. Start(s, op) /\ started' = started + 1
  BY DEF StartAndWait
<1> HIDE DEF op
<1> QED BY <1>1, <1>2, <1>3, StartLog DEF Types

LEMMA NextLog ==
  ASSUME RsmInv, Types', [Next]_vars
  PROVE  LogInv'
<1> USE DEF RsmInv
<1>0. started \in Nat
  BY KVRaftAssumption DEF Types, ClerkTypes
<1>1. CASE UNCHANGED <<raftVars, started>>
  BY <1>1 DEF LogInv, PeerAgrees, Agrees, LeaderComplete, Numbered, raftVars
<1>2. CASE Replicate /\ UNCHANGED <<rsmVars, late, clerk, started, service, outcome>>
  BY <1>0, <1>2, ReplicateLog DEF Types
<1>3. ASSUME NEW s \in Server, CommitOp(s) PROVE LogInv'
  BY <1>0, <1>3, CommitLog DEF Types, CommitOp
<1>4. ASSUME NEW s \in Server, ReaderNotify(s) \/ ReaderSend(s) PROVE UNCHANGED <<raftVars, started>>
  BY <1>4 DEF ReaderNotify, ReaderSend
<1>5. ASSUME NEW s \in Server, ReaderDoOp(s) \/ ReaderSnapshot(s) \/ ReaderRestore(s) \/ Restart(s) PROVE LogInv'
  BY <1>5, ReaderLog
<1>6. ASSUME NEW g \in submits, SubmitReceive(g) \/ SubmitGivesUp(g) PROVE UNCHANGED <<raftVars, started>>
  BY <1>6 DEF SubmitReceive, SubmitGivesUp
<1>7. ASSUME NEW c \in Client, CallFails(c) \/ CallAbandoned(c) PROVE UNCHANGED <<raftVars, started>>
  BY <1>7 DEF CallFails, CallAbandoned
<1>11. ASSUME NEW c \in Client, Submit(c) PROVE LogInv'
  <2>1. clerk[c].leader \in Server /\ ReqOf(clerk[c]) \in Request
    BY <1>11, ClerkFields, ReqIs DEF Types, Submit
  <2> QED BY <1>1, <1>11, <2>1, SubmitLog DEF Submit
<1>12. ASSUME NEW h \in late, LateSubmit(h) PROVE LogInv'
  <2>1. h.client \in Client /\ h.server \in Server /\ h.req \in Request
    BY LateFields DEF Types
  <2> QED BY <1>1, <1>12, <2>1, SubmitLog DEF LateSubmit
<1>8. ASSUME NEW c, NEW op, NEW key, NEW value, NEW version, Begin(c, op, key, value, version)
      PROVE  UNCHANGED <<raftVars, started>>
  BY <1>8 DEF Begin
<1>9. CASE UNCHANGED vars
  BY <1>1, <1>9 DEF vars
<1>10. Crashing \subseteq Server
  BY KVRaftAssumption
<1> QED BY <1>1, <1>2, <1>3, <1>4, <1>5, <1>6, <1>7, <1>8, <1>9, <1>10, <1>11, <1>12
        DEF Next, Get, Put

-----------------------------------------------------------------------------
(* THE READER *)

LEMMA ReaderSame ==
  ASSUME NEW s \in Server, ReaderIs(s), appliedIndex'[s] = appliedIndex[s], lastApplied'[s] = lastApplied[s],
         pending'[s] = pending[s], snapshot'[s].index = snapshot[s].index, reader'[s] = reader[s]
  PROVE  ReaderIs(s)'
BY DEF ReaderIs

LEMMA ReplicateReader ==
  ASSUME Types, LogInv, ReaderInv, Replicate, UNCHANGED rsmVars
  PROVE  ReaderInv'
<1>1. CASE UNCHANGED <<lastApplied, snapshot, pending>>
  BY <1>1, ReaderSame DEF ReaderInv, rsmVars
<1>2. ASSUME NEW s \in Server, NEW l \in Server, AdoptSnapshot(s, l) PROVE ReaderInv'
  <2>1. /\ lastApplied' = [lastApplied EXCEPT ![s] = snapshot[l].index]
        /\ snapshot' = [snapshot EXCEPT ![s] = snapshot[l]]
        /\ pending' = [pending EXCEPT ![s] = TRUE] /\ snapshot[l].index > commitIndex[s]
    BY <1>2 DEF AdoptSnapshot
  <2>2. \A m \in Server : m # s => /\ lastApplied'[m] = lastApplied[m] /\ snapshot'[m] = snapshot[m]
                                   /\ pending'[m] = pending[m]
    BY <2>1 DEF Types, RaftTypes
  <2>3. lastApplied'[s] = snapshot[l].index /\ snapshot'[s] = snapshot[l] /\ pending'[s] = TRUE
    BY <2>1 DEF Types, RaftTypes
  <2>4. ASSUME NEW m \in Server PROVE ReaderIs(m)'
    <3>1. CASE m # s
      BY <2>2, <3>1, ReaderSame DEF ReaderInv, rsmVars
    <3>2. CASE m = s
      <4>1. /\ appliedIndex[s] =< lastApplied[s] /\ lastApplied[s] =< commitIndex[s]
            /\ commitIndex[s] < snapshot[l].index /\ appliedIndex[s] \in Nat /\ lastApplied[s] \in Nat
            /\ commitIndex[s] \in Nat /\ snapshot[l].index \in Nat
        BY <2>1, PeerFields, RsmFields DEF ReaderInv, ReaderIs, LogInv, PeerAgrees, Types
      <4>2. appliedIndex[s] < snapshot[l].index /\ appliedIndex[s] =< snapshot[l].index
        BY <4>1
      <4> QED BY <2>3, <3>2, <4>2 DEF ReaderInv, ReaderIs, rsmVars
    <3> QED BY <3>1, <3>2
  <2> QED BY <2>4 DEF ReaderInv
<1> QED BY <1>1, <1>2 DEF Replicate, BecomeLeader, StepDown, Adopt

\* A command is always one that has not been applied.
LEMMA DoOpApplies ==
  ASSUME Types, LogInv, ReaderInv, NEW s \in Server, ReaderDoOp(s)
  PROVE  LET index == lastApplied[s] + 1
             op == Command(s)
         IN  /\ index \in Index /\ index \in 1 .. Len(log[s]) /\ index \in 1 .. commitIndex[s]
             /\ op \in Op /\ op = log[s][index] /\ ~pending[s] /\ reader[s].at = "idle"
             /\ op = committed[index] /\ index \in 1 .. Len(committed)
             /\ \A m \in Server : lastApplied'[m] = IF m = s THEN index ELSE lastApplied[m]
             /\ data' = [data EXCEPT ![s] = DoOpData(data[s], op.req)]
             /\ appliedIndex' = [appliedIndex EXCEPT ![s] = index]
             /\ reader' = [reader EXCEPT ![s] = [at |-> "notify", index |-> index, id |-> op.id, to |-> 0,
                                                 reply |-> DoOpReply(data[s], op.req)]]
             /\ UNCHANGED <<term, leader, log, commitIndex, snapshot, pending, committed>>
<1> DEFINE index == lastApplied[s] + 1
<1>1. /\ lastApplied[s] \in Nat /\ appliedIndex[s] \in Nat /\ commitIndex[s] \in Nat /\ Len(log[s]) \in Nat
      /\ log[s] \in Seq(Op) /\ Len(committed) \in Nat /\ lastApplied[s] < commitIndex[s]
      /\ ~pending[s] /\ reader[s].at = "idle" /\ Agrees(log[s], commitIndex[s])
      /\ appliedIndex[s] =< lastApplied[s]
  BY PeerFields, RsmFields DEF Types, LogInv, PeerAgrees, ReaderDoOp, HasCommand, ReaderInv, ReaderIs
<1>2. /\ index \in 1 .. Len(log[s]) /\ index \in 1 .. commitIndex[s] /\ index \in 1 .. Len(committed)
      /\ log[s][index] = committed[index] /\ index > appliedIndex[s]
  BY <1>1 DEF Agrees
<1>3. Command(s) = log[s][index] /\ Command(s) \in Op
  BY <1>1, <1>2, SeqFacts DEF Command
<1>4. index \in Index
  <2>1. Len(log[s]) =< started /\ started =< MaxOps /\ started \in Nat /\ MaxOps \in Nat
    BY KVRaftAssumption DEF LogInv, Numbered, Types, ClerkTypes
  <2> QED BY <1>1, <1>2, <2>1 DEF Index
<1>5. \A m \in Server : lastApplied'[m] = IF m = s THEN index ELSE lastApplied[m]
  BY DEF ReaderDoOp, SendCommand, Types, RaftTypes
<1>6. /\ data' = [data EXCEPT ![s] = DoOpData(data[s], Command(s).req)]
      /\ appliedIndex' = [appliedIndex EXCEPT ![s] = index]
      /\ reader' = [reader EXCEPT ![s] = [at |-> "notify", index |-> index, id |-> Command(s).id, to |-> 0,
                                          reply |-> DoOpReply(data[s], Command(s).req)]]
      /\ UNCHANGED <<term, leader, log, commitIndex, snapshot, pending, committed>>
  BY <1>2 DEF ReaderDoOp, SendCommand
<1> HIDE DEF index
<1> QED BY <1>1, <1>2, <1>3, <1>4, <1>5, <1>6 DEF index

LEMMA DoOpReader ==
  ASSUME Types, LogInv, ReaderInv, NEW s \in Server, ReaderDoOp(s)
  PROVE  ReaderInv'
<1> DEFINE index == lastApplied[s] + 1
           op == Command(s)
           rd == [at |-> "notify", index |-> index, id |-> op.id, to |-> 0,
                  reply |-> DoOpReply(data[s], op.req)]
<1>1. /\ index \in Index /\ op \in Op /\ ~pending[s]
      /\ \A m \in Server : lastApplied'[m] = IF m = s THEN index ELSE lastApplied[m]
      /\ appliedIndex' = [appliedIndex EXCEPT ![s] = index]
      /\ reader' = [reader EXCEPT ![s] = rd]
      /\ UNCHANGED <<term, leader, log, commitIndex, snapshot, pending, committed>>
  BY DoOpApplies
<1>2. rd.reply.err \in {"OK", "ErrNoKey", "ErrVersion"}
  <2>1. op.req \in Request /\ data[s] \in Data
    BY <1>1, RsmFields DEF Op, Types
  <2>2. DoOpReply(data[s], op.req).err \in {"OK", "ErrNoKey", "ErrVersion"}
    BY <2>1, DoOpReplies
  <2> QED BY <2>2
<1>3. rd.at = "notify" /\ rd.index = index /\ index \in Nat /\ index =< index
  <2>1. index \in Nat
    BY PeerFields DEF Types
  <2> QED BY <2>1
<1> HIDE DEF rd, index
<1>4. ASSUME NEW m \in Server, m # s PROVE ReaderIs(m)'
  <2>1. reader'[m] = reader[m] /\ appliedIndex'[m] = appliedIndex[m]
    BY <1>1, <1>4 DEF Types, RsmTypes
  <2> QED BY <1>1, <1>4, <2>1, ReaderSame DEF ReaderInv
<1>5. ReaderIs(s)'
  <2>1. reader'[s] = rd /\ appliedIndex'[s] = index
    BY <1>1 DEF Types, RsmTypes
  <2> QED BY <1>1, <1>2, <1>3, <2>1 DEF ReaderIs
<1> QED BY <1>4, <1>5 DEF ReaderInv

LEMMA NotifyReader ==
  ASSUME Types, ReaderInv, NEW s \in Server, ReaderNotify(s) \/ ReaderSend(s)
  PROVE  ReaderInv'
<1> DEFINE me == reader[s]
           snd == [me EXCEPT !.at = "send", !.to = waiter[s][me.index]]
<1>1. /\ UNCHANGED <<raftVars, appliedIndex>> /\ me.at \in {"notify", "send"} /\ me \in ReaderType
      /\ me.index \in Nat
      /\ reader' = [reader EXCEPT ![s] = Applied(me.index)] \/ reader' = [reader EXCEPT ![s] = snd]
  BY RsmFields DEF ReaderNotify, ReaderSend, Types
<1>2. snd.at = "send" /\ snd.index = me.index /\ snd.reply = me.reply
  BY <1>1 DEF ReaderType
<1>3. Applied(me.index).at = "snapshot" /\ Applied(me.index).index = me.index
  BY <1>1, AppliedType
<1> HIDE DEF snd
<1>4. ASSUME NEW m \in Server, m # s PROVE ReaderIs(m)'
  <2>1. reader'[m] = reader[m]
    BY <1>1, <1>4 DEF Types, RsmTypes
  <2> QED BY <1>1, <2>1, ReaderSame DEF ReaderInv, raftVars
<1>5. ReaderIs(s)'
  <2>1. reader'[s] = Applied(me.index) \/ reader'[s] = snd
    BY <1>1 DEF Types, RsmTypes
  <2> QED BY <1>1, <1>2, <1>3, <2>1 DEF ReaderIs, ReaderInv, raftVars
<1> QED BY <1>4, <1>5 DEF ReaderInv

LEMMA SnapshotReader ==
  ASSUME Types, LogInv, ReaderInv, NEW s \in Server, ReaderSnapshot(s) \/ ReaderRestore(s) \/ Restart(s)
  PROVE  ReaderInv'
<1>0. /\ appliedIndex[s] \in Nat /\ lastApplied[s] \in Nat /\ snapshot[s].index \in Nat
      /\ snapshot[s].index =< lastApplied[s] /\ reader[s].index \in Nat /\ ReaderIs(s)
  BY PeerFields, RsmFields DEF Types, LogInv, PeerAgrees, ReaderInv
<1>1. CASE ReaderSnapshot(s)
  <2>1. /\ reader' = [reader EXCEPT ![s] = AtRest] /\ UNCHANGED <<lastApplied, pending, appliedIndex>>
        /\ \/ snapshot' = snapshot
           \/ /\ snapshot' = [snapshot EXCEPT ![s] = [index |-> reader[s].index, data |-> data[s]]]
              /\ reader[s].index > snapshot[s].index
    BY <1>1 DEF ReaderSnapshot, TakeSnapshot, Snapshot, raftVars
  <2>2. ASSUME NEW m \in Server, m # s PROVE ReaderIs(m)'
    BY <2>1, <2>2, ReaderSame DEF ReaderInv, Types, RsmTypes, RaftTypes
  <2>3. reader'[s].at = "idle"
    BY <2>1, AppliedType DEF Types, RsmTypes
  <2>4. pending[s] => snapshot' = snapshot
    BY <1>0, <1>1, <2>1 DEF ReaderIs, ReaderSnapshot
  <2>5. ReaderIs(s)'
    BY <1>0, <2>1, <2>3, <2>4 DEF ReaderIs
  <2> QED BY <2>2, <2>5 DEF ReaderInv
<1>2. CASE ReaderRestore(s)
  <2>1. /\ pending' = [pending EXCEPT ![s] = FALSE] /\ UNCHANGED <<lastApplied, snapshot, reader>>
        /\ reader[s].at = "idle" /\ pending[s]
        /\ \/ appliedIndex' = [appliedIndex EXCEPT ![s] = snapshot[s].index]
           \/ appliedIndex' = appliedIndex
    BY <1>2 DEF ReaderRestore, SendSnapshot
  <2>2. ASSUME NEW m \in Server, m # s PROVE ReaderIs(m)'
    <3>1. pending'[m] = pending[m] /\ appliedIndex'[m] = appliedIndex[m]
      BY <2>1, <2>2 DEF Types, RsmTypes, RaftTypes
    <3> QED BY <2>1, <3>1, ReaderSame DEF ReaderInv
  <2>3. pending'[s] = FALSE /\ (appliedIndex'[s] = snapshot[s].index \/ appliedIndex'[s] = appliedIndex[s])
    BY <2>1 DEF Types, RaftTypes, RsmTypes
  <2>4. ReaderIs(s)'
    BY <1>0, <2>1, <2>3 DEF ReaderIs
  <2> QED BY <2>2, <2>4 DEF ReaderInv
<1>3. CASE Restart(s)
  <2>1. /\ pending' = [pending EXCEPT ![s] = FALSE] /\ lastApplied' = [lastApplied EXCEPT ![s] = snapshot[s].index]
        /\ snapshot' = snapshot /\ reader' = [reader EXCEPT ![s] = AtRest]
        /\ appliedIndex' = [appliedIndex EXCEPT ![s] = 0]
    BY <1>3 DEF Restart, RestartPeer
  <2>2. ASSUME NEW m \in Server, m # s PROVE ReaderIs(m)'
    <3>1. /\ pending'[m] = pending[m] /\ appliedIndex'[m] = appliedIndex[m] /\ lastApplied'[m] = lastApplied[m]
          /\ reader'[m] = reader[m]
      BY <2>1, <2>2 DEF Types, RsmTypes, RaftTypes
    <3> QED BY <2>1, <3>1, ReaderSame DEF ReaderInv
  <2>3. /\ pending'[s] = FALSE /\ appliedIndex'[s] = 0 /\ lastApplied'[s] = snapshot[s].index
        /\ reader'[s].at = "idle"
    BY <2>1, AppliedType DEF Types, RaftTypes, RsmTypes
  <2>4. ReaderIs(s)'
    BY <1>0, <2>3 DEF ReaderIs
  <2> QED BY <2>2, <2>4 DEF ReaderInv
<1> QED BY <1>1, <1>2, <1>3

LEMMA NextReader ==
  ASSUME RsmInv, [Next]_vars
  PROVE  ReaderInv'
<1> USE DEF RsmInv
<1>1. CASE UNCHANGED <<lastApplied, snapshot, pending, appliedIndex, reader>>
  BY <1>1, ReaderSame DEF ReaderInv
<1>2. CASE Replicate /\ UNCHANGED <<rsmVars, late, clerk, started, service, outcome>>
  BY <1>2, ReplicateReader
<1>3. ASSUME NEW s \in Server, CommitOp(s) PROVE ReaderInv'
  BY <1>1, <1>3 DEF CommitOp, Commit, rsmVars
<1>4. ASSUME NEW s \in Server, ReaderNotify(s) \/ ReaderSend(s) PROVE ReaderInv'
  BY <1>4, NotifyReader
<1>5. ASSUME NEW s \in Server, ReaderDoOp(s) \/ ReaderSnapshot(s) \/ ReaderRestore(s) \/ Restart(s) PROVE ReaderInv'
  BY <1>5, DoOpReader, SnapshotReader
<1>6. ASSUME NEW g \in submits, SubmitReceive(g) \/ SubmitGivesUp(g) PROVE ReaderInv'
  BY <1>1, <1>6 DEF SubmitReceive, SubmitGivesUp, raftVars
<1>7. ASSUME NEW c \in Client, CallFails(c) \/ CallAbandoned(c) \/ Submit(c) PROVE ReaderInv'
  BY <1>1, <1>7 DEF CallFails, CallAbandoned, Submit, StartAndWait, Start, raftVars, rsmVars
<1>11. ASSUME NEW h \in late, LateSubmit(h) PROVE ReaderInv'
  BY <1>1, <1>11 DEF LateSubmit, StartAndWait, Start, raftVars
<1>8. ASSUME NEW c, NEW op, NEW key, NEW value, NEW version, Begin(c, op, key, value, version)
      PROVE  ReaderInv'
  BY <1>1, <1>8 DEF Begin, raftVars, rsmVars
<1>9. CASE UNCHANGED vars
  BY <1>1, <1>9 DEF vars, raftVars, rsmVars
<1>10. Crashing \subseteq Server
  BY KVRaftAssumption
<1> QED BY <1>2, <1>3, <1>4, <1>5, <1>6, <1>7, <1>8, <1>9, <1>10, <1>11 DEF Next, Get, Put

-----------------------------------------------------------------------------
(* SUBMIT *)

\* A goroutine is attended to as long as nothing about its server changes but the loss of
\* leadership.
LEMMA AttendedKept ==
  ASSUME NEW g \in submits, Attended(g),
         LET s == g.server
         IN  /\ reader'[s] = reader[s]
             /\ waiter[s][g.index] = g.id => waiter'[s][g.index] = g.id
             /\ LostLeadership(g) => LostLeadership(g)'
             /\ LostLeadership(g)' \/ (log'[s] = log[s] /\ lastApplied'[s] = lastApplied[s])
  PROVE  Attended(g)'
<1>1. CASE g.ch # Pending \/ (reader[g.server].at = "send" /\ reader[g.server].to = g.id)
  BY <1>1 DEF Attended
<1>2. CASE waiter[g.server][g.index] = g.id /\ LostLeadership(g)'
  BY <1>2 DEF Attended
<1>3. CASE /\ waiter[g.server][g.index] = g.id /\ InPlace(g)
           /\ lastApplied[g.server] < g.index \/ (reader[g.server].at = "notify" /\ reader[g.server].index = g.index)
           /\ log'[g.server] = log[g.server] /\ lastApplied'[g.server] = lastApplied[g.server]
  <2>1. InPlace(g)'
    BY <1>3 DEF InPlace
  <2> QED BY <1>3, <2>1 DEF Attended
<1> QED BY <1>1, <1>2, <1>3 DEF Attended

\* What is left to show when submits stays or shrinks.
LEMMA SubmitKept ==
  ASSUME RsmTypes, ClerkTypes, RaftTypes, RaftTypes', SubmitInv, submits' \subseteq submits, started' = started,
         \A s \in Server : term[s] =< term'[s],
         \A g \in submits' : Attended(g) => Attended(g)'
  PROVE  SubmitInv'
<1>1. ASSUME NEW g \in submits' PROVE SubmitIs(g)'
  <2>1. SubmitIs(g) /\ g \in submits
    BY DEF SubmitInv
  <2>2. g.server \in Server /\ g.term \in Nat
    BY <2>1, SubmitFields
  <2>3. term[g.server] \in Nat /\ term'[g.server] \in Nat /\ term[g.server] =< term'[g.server]
    BY <2>2, KVRaftAssumption DEF RaftTypes
  <2>4. g.term =< term'[g.server]
    BY <2>1, <2>2, <2>3 DEF SubmitIs
  <2>5. Attended(g)'
    BY <2>1 DEF SubmitIs
  <2> QED BY <2>1, <2>4, <2>5 DEF SubmitIs
<1> QED BY <1>1 DEF SubmitInv

\* A new term of a peer ends what was waiting for the old one.
LEMMA ReplicateSubmit ==
  ASSUME Types, RaftTypes', LogInv, SubmitInv, Replicate,
         UNCHANGED <<rsmVars, late, clerk, started, service, outcome>>
  PROVE  SubmitInv'
<1>0. /\ waiter' = waiter /\ reader' = reader /\ submits' = submits /\ started' = started
      /\ RaftTypes /\ RsmTypes /\ ClerkTypes
  BY DEF rsmVars, Types
<1>1. \A m \in Server : term[m] \in Nat /\ term'[m] \in Nat /\ term[m] =< Newest /\ Newest \in Nat
  <2>1. \A m \in Server : term'[m] \in Nat
    BY KVRaftAssumption DEF RaftTypes
  <2>2. \A m \in Server : term[m] \in Nat
    BY <1>0, PeerFields
  <2>3. Newest \in Nat /\ \A m \in Server : term[m] =< Newest
    BY <1>0, NewestIs
  <2> QED BY <2>1, <2>2, <2>3
<1>2. PICK s \in Server : BecomeLeader(s) \/ StepDown(s) \/ \E l \in Server : Adopt(s, l) \/ AdoptSnapshot(s, l)
  BY DEF Replicate
<1>3. ASSUME NEW m \in Server, m # s
      PROVE  /\ term'[m] = term[m] /\ leader'[m] = leader[m] /\ log'[m] = log[m]
             /\ lastApplied'[m] = lastApplied[m]
  <2>1. /\ term' = term \/ \E x : term' = [term EXCEPT ![s] = x]
        /\ leader' = leader \/ \E x : leader' = [leader EXCEPT ![s] = x]
        /\ log' = log \/ \E x : log' = [log EXCEPT ![s] = x]
        /\ lastApplied' = lastApplied \/ \E x : lastApplied' = [lastApplied EXCEPT ![s] = x]
    BY <1>2, Zenon DEF BecomeLeader, StepDown, Adopt, AdoptSnapshot
  <2> QED BY <1>0, <1>3, <2>1 DEF RaftTypes
<1>4. term[s] =< term'[s] /\ (leader'[s] = FALSE \/ term'[s] > term[s])
  <2>1. CASE BecomeLeader(s)
    <3>1. term'[s] = Newest + 1
      BY <1>0, <2>1 DEF BecomeLeader, RaftTypes
    <3> QED BY <1>1, <3>1
  <2>2. CASE StepDown(s)
    <3>1. term'[s] = Newest /\ leader'[s] = FALSE
      BY <1>0, <2>2 DEF StepDown, RaftTypes
    <3> QED BY <1>1, <3>1
  <2>3. ASSUME NEW l \in Server, Adopt(s, l) \/ AdoptSnapshot(s, l) PROVE term[s] =< term'[s] /\ leader'[s] = FALSE
    <3>1. /\ term' = [term EXCEPT ![s] = term[l]] /\ leader' = leader /\ ~leader[s] /\ term[l] >= term[s]
      BY <2>3 DEF Adopt, AdoptSnapshot, Follows
    <3>2. term'[s] = term[l] /\ leader'[s] = FALSE
      BY <1>0, <3>1 DEF RaftTypes
    <3> QED BY <1>1, <3>1, <3>2
  <2> QED BY <1>2, <2>1, <2>2, <2>3
<1>5. ASSUME NEW g \in submits, Attended(g) PROVE Attended(g)'
  <2>1. g.server \in Server /\ g.term \in Nat /\ g.term =< term[g.server]
    BY <1>0, SubmitFields DEF SubmitInv, SubmitIs
  <2>2. CASE g.server = s
    <3>1. LostLeadership(g)'
      BY <1>1, <1>4, <2>1, <2>2 DEF LostLeadership
    <3>2. /\ reader'[g.server] = reader[g.server] /\ waiter'[g.server][g.index] = waiter[g.server][g.index]
      BY <1>0
    <3>3. CASE g.ch # Pending \/ (reader[g.server].at = "send" /\ reader[g.server].to = g.id)
      BY <3>2, <3>3 DEF Attended
    <3>4. CASE waiter[g.server][g.index] = g.id
      BY <3>1, <3>2, <3>4 DEF Attended
    <3> QED BY <1>5, <3>3, <3>4 DEF Attended
  <2>3. CASE g.server # s
    <3>1. /\ log'[g.server] = log[g.server] /\ lastApplied'[g.server] = lastApplied[g.server]
          /\ LostLeadership(g) => LostLeadership(g)'
      BY <1>3, <2>1, <2>3 DEF LostLeadership
    <3> QED BY <1>0, <1>5, <3>1, AttendedKept
  <2> QED BY <2>2, <2>3
<1>6. \A m \in Server : term[m] =< term'[m]
  BY <1>1, <1>3, <1>4
<1> QED BY <1>0, <1>5, <1>6, SubmitKept

\* The reader comes to the index somebody waits at.
LEMMA DoOpSubmit ==
  ASSUME Types, RaftTypes', LogInv, ReaderInv, SubmitInv, NEW s \in Server, ReaderDoOp(s)
  PROVE  SubmitInv'
<1> DEFINE index == lastApplied[s] + 1
<1>0. /\ waiter' = waiter /\ submits' = submits /\ started' = started /\ term' = term
      /\ leader' = leader /\ log' = log
      /\ \A m \in Server : lastApplied'[m] = IF m = s THEN index ELSE lastApplied[m]
      /\ reader[s].at = "idle"
  <2>1. waiter' = waiter /\ submits' = submits /\ started' = started
    BY DEF ReaderDoOp
  <2> QED BY <2>1, DoOpApplies
<1>1. reader'[s].at = "notify" /\ reader'[s].index = index /\ \A m \in Server : m # s => reader'[m] = reader[m]
  <2>1. reader' = [reader EXCEPT ![s] = [at |-> "notify", index |-> index, id |-> Command(s).id, to |-> 0,
                                         reply |-> DoOpReply(data[s], Command(s).req)]]
    BY DoOpApplies
  <2> QED BY <2>1 DEF Types, RsmTypes
<1>2. ASSUME NEW g \in submits, Attended(g) PROVE Attended(g)'
  <2>1. g.server \in Server /\ g.index \in Nat /\ lastApplied[s] \in Nat
    BY SubmitFields, PeerFields DEF Types
  <2>2. CASE g.server # s
    BY <1>0, <1>1, <1>2, <2>1, <2>2, AttendedKept DEF LostLeadership
  <2>3. CASE g.server = s
    <3>1. CASE g.ch # Pending
      BY <3>1 DEF Attended
    <3>2. CASE waiter[s][g.index] = g.id /\ LostLeadership(g)
      BY <1>0, <2>3, <3>2 DEF Attended, LostLeadership
    <3>3. CASE waiter[s][g.index] = g.id /\ InPlace(g) /\ lastApplied[s] < g.index
      <4>1. InPlace(g)'
        BY <1>0, <3>3 DEF InPlace
      <4>2. lastApplied'[s] < g.index \/ reader'[s].index = g.index
        BY <1>0, <1>1, <2>1, <3>3
      <4> QED BY <1>0, <1>1, <2>3, <3>3, <4>1, <4>2 DEF Attended
    <3> QED BY <1>0, <1>2, <2>3, <3>1, <3>2, <3>3 DEF Attended
  <2> QED BY <2>2, <2>3
<1>3. \A m \in Server : term[m] =< term'[m]
  BY <1>0, PeerFields DEF Types
<1> QED BY <1>0, <1>2, <1>3, SubmitKept DEF Types

\* notifyWaiter() takes the waiter out, and now knows whom to send the result.
LEMMA NotifySubmit ==
  ASSUME Types, RaftTypes', ReaderInv, SubmitInv, NEW s \in Server, ReaderNotify(s)
  PROVE  SubmitInv'
<1> DEFINE i == reader[s].index
<1>0. /\ UNCHANGED <<term, leader, log, lastApplied, submits, started>> /\ reader[s].at = "notify"
      /\ waiter' = [waiter EXCEPT ![s][i] = 0] /\ i \in Index /\ waiter[s] \in [Index -> Nat]
      /\ reader[s] \in ReaderType /\ waiter \in [Server -> [Index -> Nat]]
  BY RsmFields DEF ReaderNotify, raftVars, ReaderInv, ReaderIs, Types, RsmTypes
<1>1. /\ \A m \in Server : m # s => waiter'[m] = waiter[m] /\ reader'[m] = reader[m]
      /\ \A j \in Index : j # i => waiter'[s][j] = waiter[s][j]
      /\ waiter[s][i] # 0 => reader'[s].at = "send" /\ reader'[s].to = waiter[s][i]
  <2>1. reader' = [reader EXCEPT ![s] = IF waiter[s][i] = 0 THEN Applied(i)
                                        ELSE [reader[s] EXCEPT !.at = "send", !.to = waiter[s][i]]]
    BY DEF ReaderNotify
  <2>2. waiter[s][i] # 0 => reader'[s] = [reader[s] EXCEPT !.at = "send", !.to = waiter[s][i]]
    BY <2>1 DEF Types, RsmTypes
  <2>3. waiter[s][i] # 0 => reader'[s].at = "send" /\ reader'[s].to = waiter[s][i]
    BY <1>0, <2>2 DEF ReaderType
  <2>4. \A m \in Server : m # s => waiter'[m] = waiter[m] /\ reader'[m] = reader[m]
    BY <1>0, <2>1 DEF Types, RsmTypes
  <2>5. \A j \in Index : j # i => waiter'[s][j] = waiter[s][j]
    BY <1>0
  <2> QED BY <2>3, <2>4, <2>5
<1> HIDE DEF i
<1>2. ASSUME NEW g \in submits, Attended(g) PROVE Attended(g)'
  <2>1. g.server \in Server /\ g.id \in Nat /\ g.id >= 1 /\ g.index \in Index
    BY SubmitFields DEF Types, SubmitInv, SubmitIs
  <2>2. CASE g.server # s
    BY <1>0, <1>1, <1>2, <2>1, <2>2, AttendedKept DEF LostLeadership
  <2>3. CASE g.server = s
    <3>1. CASE g.ch # Pending
      BY <3>1 DEF Attended
    <3>2. CASE waiter[s][g.index] = g.id /\ g.index = i
      <4>1. waiter[s][i] = g.id /\ waiter[s][i] # 0
        BY <2>1, <3>2
      <4> QED BY <1>1, <2>3, <4>1 DEF Attended
    <3>3. CASE waiter[s][g.index] = g.id /\ LostLeadership(g) /\ g.index # i
      <4>1. waiter'[s][g.index] = g.id /\ LostLeadership(g)'
        BY <1>0, <1>1, <2>1, <2>3, <3>3 DEF LostLeadership
      <4> QED BY <2>3, <4>1 DEF Attended
    <3>4. CASE waiter[s][g.index] = g.id /\ InPlace(g) /\ lastApplied[s] < g.index /\ g.index # i
      <4>1. waiter'[s][g.index] = g.id /\ InPlace(g)' /\ lastApplied'[s] < g.index
        BY <1>0, <1>1, <2>1, <2>3, <3>4 DEF InPlace
      <4> QED BY <2>3, <4>1 DEF Attended
    <3> QED BY <1>0, <1>2, <2>3, <3>1, <3>2, <3>3, <3>4 DEF Attended, i
  <2> QED BY <2>2, <2>3
<1>3. \A m \in Server : term[m] =< term'[m]
  BY <1>0, PeerFields DEF Types
<1> QED BY <1>0, <1>2, <1>3, SubmitKept DEF Types

\* What is left to show when results are sent.
LEMMA SentKept ==
  ASSUME RsmTypes, ClerkTypes, RaftTypes, SubmitInv, started' \in Nat, started =< started', term' = term,
         NEW id \in Nat, NEW r \in ReplyType, r # Pending, NEW T \in SUBSET Send(submits, id, r),
         \A g \in submits : Attended(g) /\ g.id # id => Attended(g)'
  PROVE  /\ \A f \in T : SubmitIs(f)'
         /\ \A f \in T : f.id >= 1 /\ f.id =< started /\ f.id \in Nat
         /\ \A f, g \in T : g.id = f.id => g = f
<1>0. submits \in SUBSET SubmitType /\ started \in Nat
  BY KVRaftAssumption DEF RsmTypes, ClerkTypes
<1>1. ASSUME NEW f \in T PROVE SubmitIs(f)' /\ f.id >= 1 /\ f.id =< started /\ f.id \in Nat
  <2>1. PICK g \in submits : /\ f.id = g.id /\ f.client = g.client /\ f.server = g.server
                             /\ f.index = g.index /\ f.term = g.term
                             /\ IF g.id = id THEN f = [g EXCEPT !.ch = r] /\ f.ch = r ELSE f = g
    BY <1>0, SendIs
  <2>2. SubmitIs(g) /\ g.id \in Nat
    BY SubmitFields DEF SubmitInv
  <2>3. Attended(f)'
    <3>1. CASE g.id = id
      BY <2>1, <3>1 DEF Attended
    <3>2. CASE g.id # id
      BY <2>1, <2>2, <3>2 DEF SubmitIs
    <3> QED BY <3>1, <3>2
  <2> QED BY <1>0, <2>1, <2>2, <2>3 DEF SubmitIs
<1>2. ASSUME NEW f \in T, NEW e \in T, e.id = f.id PROVE e = f
  <2>1. PICK g \in submits : /\ f.id = g.id /\ f.client = g.client /\ f.server = g.server
                             /\ f.index = g.index /\ f.term = g.term
                             /\ IF g.id = id THEN f = [g EXCEPT !.ch = r] /\ f.ch = r ELSE f = g
    BY <1>0, SendIs
  <2>2. PICK h \in submits : /\ e.id = h.id /\ e.client = h.client /\ e.server = h.server
                             /\ e.index = h.index /\ e.term = h.term
                             /\ IF h.id = id THEN e = [h EXCEPT !.ch = r] /\ e.ch = r ELSE e = h
    BY <1>0, SendIs
  <2>3. g = h
    BY <1>2, <2>1, <2>2 DEF SubmitInv
  <2> QED BY <2>1, <2>2, <2>3
<1> QED BY <1>1, <1>2

LEMMA SendSubmit ==
  ASSUME Types, ReaderInv, SubmitInv, NEW s \in Server, ReaderSend(s)
  PROVE  SubmitInv'
<1> DEFINE me == reader[s]
<1>0. /\ UNCHANGED <<term, leader, log, lastApplied, waiter, started>> /\ me.at = "send"
      /\ submits' = Send(submits, me.to, ResultFor(me)) /\ me.to \in Nat /\ me.reply \in ReplyType
      /\ reader' = [reader EXCEPT ![s] = Applied(me.index)] /\ me.index \in Nat
      /\ started \in Nat
  BY RsmFields, KVRaftAssumption DEF ReaderSend, raftVars, Types, ClerkTypes
<1>1. ResultFor(me) \in ReplyType /\ ResultFor(me) # Pending
  <2>1. me.reply.err \in {"OK", "ErrNoKey", "ErrVersion"}
    BY <1>0 DEF ReaderInv, ReaderIs
  <2> QED BY <1>0, <2>1, ReplyConstants DEF ResultFor
<1>2. reader'[s].at = "snapshot" /\ \A m \in Server : m # s => reader'[m] = reader[m]
  BY <1>0, AppliedType DEF Types, RsmTypes
<1> HIDE DEF me
<1>3. ASSUME NEW g \in submits, Attended(g), g.id # me.to PROVE Attended(g)'
  <2>1. g.server \in Server
    BY SubmitFields DEF Types
  <2>2. CASE g.server # s
    BY <1>0, <1>2, <1>3, <2>1, <2>2, AttendedKept DEF LostLeadership
  <2>3. CASE g.server = s
    BY <1>0, <1>3, <2>3 DEF Attended, LostLeadership, InPlace, me
  <2> QED BY <2>2, <2>3
<1>4. started =< started' /\ started' \in Nat
  BY <1>0
<1>5. /\ \A f \in submits' : SubmitIs(f)'
      /\ \A f, g \in submits' : g.id = f.id => g = f
  BY <1>0, <1>1, <1>3, <1>4, SentKept DEF Types
<1> QED BY <1>5 DEF SubmitInv

\* An operation is started: who waited at its index is told, and it waits there itself.
LEMMA StartSubmit ==
  ASSUME Types, LogInv, SubmitInv, NEW s \in Server, NEW c \in Client, NEW req \in Request, started < MaxOps,
         StartAndWait(s, c, started + 1, req), UNCHANGED reader
  PROVE  SubmitInv'
<1> DEFINE index == IndexOf(s)
           id == started + 1
           op == [id |-> id, client |-> c, req |-> req]
           new == [id |-> id, client |-> c, server |-> s, index |-> index, term |-> term[s], ch |-> Pending]
<1>0. /\ Start(s, op) /\ started' = id /\ submits' = Displaced(s, index) \cup {new}
       /\ waiter' = [waiter EXCEPT ![s][index] = id]
  BY DEF StartAndWait
<1>1. /\ s \in Server /\ started \in Nat /\ started < MaxOps /\ MaxOps \in Nat
      /\ log[s] \in Seq(Op) /\ Len(log[s]) \in Nat /\ term[s] \in Nat /\ waiter[s] \in [Index -> Nat]
      /\ Len(log[s]) =< started /\ lastApplied[s] \in Nat /\ lastApplied[s] =< Len(log[s])
  <2>1. s \in Server /\ started \in Nat /\ started < MaxOps /\ MaxOps \in Nat
    BY KVRaftAssumption DEF Types, ClerkTypes
  <2>2. Len(log[s]) =< started
    BY <2>1 DEF LogInv, Numbered
  <2>3. /\ log[s] \in Seq(Op) /\ Len(log[s]) \in Nat /\ term[s] \in Nat /\ waiter[s] \in [Index -> Nat]
        /\ lastApplied[s] \in Nat /\ commitIndex[s] \in Nat
    BY <2>1, PeerFields, RsmFields DEF Types
  <2>4. lastApplied[s] =< commitIndex[s] /\ commitIndex[s] =< Len(log[s])
    BY <2>1 DEF LogInv, PeerAgrees, Agrees
  <2> QED BY <2>1, <2>2, <2>3, <2>4
<1>2. index = Len(log[s]) + 1 /\ index \in Nat /\ index \in Index /\ id \in Nat /\ lastApplied[s] < index
  BY <1>1 DEF IndexOf, Index
<1>3. /\ UNCHANGED <<term, leader, lastApplied, reader>>
      /\ log'[s] = Append(log[s], op) /\ \A m \in Server : m # s => log'[m] = log[m]
  <2>1. UNCHANGED <<term, leader, lastApplied, reader>> /\ log' = [log EXCEPT ![s] = Append(log[s], op)]
    BY <1>0 DEF Start
  <2> HIDE DEF op
  <2> QED BY <1>1, <2>1 DEF Types, RaftTypes
<1>4. op \in Op /\ op.id = id
  BY <1>2 DEF Op
<1>5. /\ Len(log'[s]) = index /\ log'[s][index].id = id
      /\ \A i \in 1 .. Len(log[s]) : log'[s][i] = log[s][i]
  <2> HIDE DEF op
  <2> QED BY <1>1, <1>2, <1>3, <1>4, AppendFacts
<1>6. /\ \A m \in Server : m # s => waiter'[m] = waiter[m]
      /\ \A i \in Index : i # index => waiter'[s][i] = waiter[s][i]
      /\ waiter'[s][index] = id
  <2> HIDE DEF index, id
  <2> QED BY <1>0, <1>1, <1>2 DEF Types, RsmTypes
<1>7. PICK g0 : /\ g0 = new /\ g0.id = id /\ g0.client = c /\ g0.server = s /\ g0.index = index
                /\ g0.term = term[s]
  <2>1. /\ new.id = id /\ new.client = c /\ new.server = s /\ new.index = index /\ new.term = term[s]
    OBVIOUS
  <2> HIDE DEF new
  <2> QED BY <2>1
<1> DEFINE w == waiter[s][index]
<1>8. w \in Nat
  BY <1>1, <1>2
<1> HIDE DEF op, new, id, index, w
<1>9. InPlace(g0)'
  BY <1>2, <1>5, <1>7 DEF InPlace
<1>10. SubmitIs(g0)'
  <2>1. Attended(g0)'
    BY <1>2, <1>3, <1>6, <1>7, <1>9 DEF Attended
  <2>2. g0.id >= 1 /\ g0.id =< started' /\ g0.term =< term'[g0.server] /\ g0.index \in Index
    BY <1>0, <1>1, <1>2, <1>3, <1>7 DEF id
  <2> QED BY <2>1, <2>2 DEF SubmitIs
<1>11. ASSUME NEW g \in submits, Attended(g), w = 0 \/ g.id # w PROVE Attended(g)'
  <2>1. g.server \in Server /\ g.id \in Nat /\ g.id >= 1 /\ g.index \in Index /\ g.index \in Nat
    BY SubmitFields DEF Types, SubmitInv, SubmitIs
  <2>2. waiter[g.server][g.index] = g.id => waiter'[g.server][g.index] = g.id
    <3>1. CASE g.server = s /\ g.index = index
      BY <1>11, <2>1, <3>1 DEF w
    <3>2. CASE ~(g.server = s /\ g.index = index)
      BY <1>6, <2>1, <3>2
    <3> QED BY <3>1, <3>2
  <2>3. CASE g.server # s
    BY <1>3, <1>11, <2>1, <2>2, <2>3, AttendedKept DEF LostLeadership
  <2>4. CASE g.server = s
    <3>1. InPlace(g) => InPlace(g)'
      <4>1. ASSUME InPlace(g) PROVE g.index \in 1 .. Len(log[s]) /\ g.index =< index
        BY <1>1, <1>2, <2>1, <2>4, <4>1 DEF InPlace, Index
      <4> QED BY <1>5, <2>4, <4>1 DEF InPlace
    <3>2. LostLeadership(g) => LostLeadership(g)'
      BY <1>3 DEF LostLeadership
    <3> QED BY <1>3, <1>11, <2>2, <2>4, <3>1, <3>2 DEF Attended
  <2> QED BY <2>3, <2>4
<1>12. /\ \A f \in Displaced(s, index) : SubmitIs(f)'
       /\ \A f \in Displaced(s, index) : f.id >= 1 /\ f.id =< started /\ f.id \in Nat
       /\ \A f, g \in Displaced(s, index) : g.id = f.id => g = f
  <2>0. started' \in Nat /\ started =< started' /\ term' = term
    BY <1>0, <1>1, <1>2, <1>3 DEF id
  <2>1. CASE w = 0
    <3>1. Displaced(s, index) = submits
      BY <2>1 DEF Displaced, w
    <3>2. ASSUME NEW f \in submits PROVE SubmitIs(f)' /\ f.id >= 1 /\ f.id =< started /\ f.id \in Nat
      <4>1. SubmitIs(f) /\ f.id \in Nat
        BY SubmitFields DEF Types, SubmitInv
      <4>2. Attended(f)'
        BY <1>11, <2>1, <4>1 DEF SubmitIs
      <4> QED BY <1>1, <2>0, <4>1, <4>2 DEF SubmitIs
    <3> QED BY <3>1, <3>2 DEF SubmitInv
  <2>2. CASE w # 0
    <3>1. Displaced(s, index) = Send(submits, w, WrongLeader)
      BY <2>2 DEF Displaced, w
    <3>2. \A g \in submits : Attended(g) /\ g.id # w => Attended(g)'
      BY <1>11
    <3> QED BY <1>8, <2>0, <3>1, <3>2, SentKept, ReplyConstants DEF Types
  <2> QED BY <2>1, <2>2
<1>13. ASSUME NEW f \in submits', NEW g \in submits', g.id = f.id PROVE g = f
  <2>1. \A h \in Displaced(s, index) : h.id # g0.id
    BY <1>1, <1>7, <1>12 DEF id
  <2> QED BY <1>0, <1>7, <1>12, <1>13, <2>1
<1>14. ASSUME NEW f \in submits' PROVE SubmitIs(f)'
  <2>1. f \in Displaced(s, index) \/ f = g0
    BY <1>0, <1>7
  <2>2. CASE f = g0
    BY <1>10, <2>2
  <2> QED BY <1>12, <2>1, <2>2
<1> QED BY <1>13, <1>14 DEF SubmitInv

\* Submit() is left.
LEMMA LeaveSubmit ==
  ASSUME Types, RaftTypes', SubmitInv, NEW g \in submits, SubmitReceive(g) \/ SubmitGivesUp(g)
  PROVE  SubmitInv'
<1>0. /\ submits' = submits \ {g} /\ UNCHANGED <<term, leader, log, lastApplied, reader, started>>
      /\ waiter' = waiter \/ (/\ waiter' = [waiter EXCEPT ![g.server][g.index] = 0]
                              /\ waiter[g.server][g.index] = g.id)
      /\ g.server \in Server /\ g.index \in Index
  BY SubmitFields DEF SubmitReceive, SubmitGivesUp, Answer, raftVars, Types, SubmitInv, SubmitIs
<1>1. ASSUME NEW f \in submits', Attended(f) PROVE Attended(f)'
  <2>1. f.server \in Server /\ f.index \in Index /\ f \in submits /\ f.id # g.id
    BY <1>0, SubmitFields DEF Types, SubmitInv, SubmitIs
  <2>2. waiter[f.server][f.index] = f.id => waiter'[f.server][f.index] = f.id
    <3>1. waiter[g.server] \in [Index -> Nat] /\ waiter \in [Server -> [Index -> Nat]]
      BY <1>0 DEF Types, RsmTypes
    <3> QED BY <1>0, <2>1, <3>1
  <2> QED BY <1>0, <1>1, <2>1, <2>2, AttendedKept DEF LostLeadership
<1>2. \A m \in Server : term[m] =< term'[m]
  BY <1>0, PeerFields DEF Types
<1> QED BY <1>0, <1>1, <1>2, SubmitKept DEF Types

\* The steps that are not about anybody who waits.
LEMMA OtherSubmit ==
  ASSUME Types, RaftTypes', SubmitInv, submits' \subseteq submits,
         UNCHANGED <<started, term, log>>,
         \A g \in submits' : LET m == g.server
                             IN  /\ leader'[m] = leader[m] /\ lastApplied'[m] = lastApplied[m]
                                 /\ waiter'[m] = waiter[m]
                                 /\ reader'[m] = reader[m] \/ reader[m].at = "snapshot"
  PROVE  SubmitInv'
<1>1. ASSUME NEW g \in submits', Attended(g) PROVE Attended(g)'
  BY <1>1 DEF Attended, LostLeadership, InPlace
<1>2. \A m \in Server : term[m] =< term'[m]
  BY PeerFields DEF Types
<1> QED BY <1>1, <1>2, SubmitKept DEF Types

LEMMA NextSubmit ==
  ASSUME RsmInv, Types', [Next]_vars
  PROVE  SubmitInv'
<1> USE DEF RsmInv
<1>0. \A g \in submits : g.server \in Server
  BY SubmitFields DEF Types
<1>1. CASE UNCHANGED <<submits, started, term, leader, log, lastApplied, waiter, reader>>
  BY <1>1, OtherSubmit DEF Types
<1>2. CASE Replicate /\ UNCHANGED <<rsmVars, late, clerk, started, service, outcome>>
  BY <1>2, ReplicateSubmit DEF Types
<1>3. ASSUME NEW s \in Server, CommitOp(s) PROVE SubmitInv'
  BY <1>1, <1>3 DEF CommitOp, Commit, rsmVars
<1>4. ASSUME NEW s \in Server, ReaderDoOp(s) PROVE SubmitInv'
  BY <1>4, DoOpSubmit DEF Types
<1>5. ASSUME NEW s \in Server, ReaderNotify(s) PROVE SubmitInv'
  BY <1>5, NotifySubmit DEF Types
<1>6. ASSUME NEW s \in Server, ReaderSend(s) PROVE SubmitInv'
  BY <1>6, SendSubmit
<1>7. ASSUME NEW s \in Server, ReaderSnapshot(s) PROVE SubmitInv'
  <2>1. /\ UNCHANGED <<submits, started, term, log, leader, lastApplied, waiter>>
        /\ reader' = [reader EXCEPT ![s] = AtRest] /\ reader[s].at = "snapshot"
    BY <1>7 DEF ReaderSnapshot, TakeSnapshot, raftVars
  <2>2. \A m \in Server : reader'[m] = reader[m] \/ reader[m].at = "snapshot"
    BY <2>1 DEF Types, RsmTypes
  <2> QED BY <1>0, <2>1, <2>2, OtherSubmit DEF Types
<1>8. ASSUME NEW s \in Server, ReaderRestore(s) PROVE SubmitInv'
  BY <1>1, <1>8 DEF ReaderRestore, SendSnapshot
<1>9. ASSUME NEW s \in Server, Restart(s) PROVE SubmitInv'
  <2>1. /\ submits' = {g \in submits : g.server # s} /\ UNCHANGED <<started, term, log>>
        /\ leader' = [leader EXCEPT ![s] = FALSE]
        /\ lastApplied' = [lastApplied EXCEPT ![s] = snapshot[s].index]
        /\ waiter' = [waiter EXCEPT ![s] = [i \in Index |-> 0]]
        /\ reader' = [reader EXCEPT ![s] = AtRest]
    BY <1>9 DEF Restart, RestartPeer
  <2>2. \A m \in Server : m # s => /\ leader'[m] = leader[m] /\ lastApplied'[m] = lastApplied[m]
                                   /\ waiter'[m] = waiter[m] /\ reader'[m] = reader[m]
    BY <2>1 DEF Types, RsmTypes, RaftTypes
  <2> QED BY <1>0, <2>1, <2>2, OtherSubmit DEF Types
<1>10. ASSUME NEW g \in submits, SubmitReceive(g) \/ SubmitGivesUp(g) PROVE SubmitInv'
  BY <1>10, LeaveSubmit DEF Types
<1>11. ASSUME NEW c \in Client, Submit(c) PROVE SubmitInv'
  <2>1. clerk[c].leader \in Server /\ ReqOf(clerk[c]) \in Request /\ started < MaxOps /\ reader' = reader
    BY <1>11, ClerkFields, ReqIs DEF Types, Submit
  <2>2. CASE UNCHANGED <<raftVars, waiter, submits, started>>
    BY <1>1, <2>1, <2>2 DEF raftVars
  <2> QED BY <1>11, <2>1, <2>2, StartSubmit DEF Submit
<1>16. ASSUME NEW h \in late, LateSubmit(h) PROVE SubmitInv'
  <2>1. /\ h.client \in Client /\ h.server \in Server /\ h.req \in Request
        /\ started < MaxOps /\ reader' = reader
    BY <1>16, LateFields DEF Types, LateSubmit
  <2>2. CASE UNCHANGED <<raftVars, waiter, submits, started>>
    BY <1>1, <2>1, <2>2 DEF raftVars
  <2> QED BY <1>16, <2>1, <2>2, StartSubmit DEF LateSubmit
<1>12. ASSUME NEW c \in Client, CallFails(c) \/ CallAbandoned(c) PROVE SubmitInv'
  BY <1>1, <1>12 DEF CallFails, CallAbandoned, raftVars, rsmVars
<1>13. ASSUME NEW c, NEW op, NEW key, NEW value, NEW version, Begin(c, op, key, value, version)
      PROVE  SubmitInv'
  BY <1>1, <1>13 DEF Begin, raftVars, rsmVars
<1>14. CASE UNCHANGED vars
  BY <1>1, <1>14 DEF vars, raftVars, rsmVars
<1>15. Crashing \subseteq Server
  BY KVRaftAssumption
<1> QED BY <1>2, <1>3, <1>4, <1>5, <1>6, <1>7, <1>8, <1>9, <1>10, <1>11, <1>12, <1>13, <1>14, <1>15,
           <1>16 DEF Next, Get, Put

LEMMA InitRsm ==
  ASSUME Init
  PROVE  RsmInv
<1>0. Types
  BY InitTypes
<1>1. LogInv
  <2>1. /\ log = [s \in Server |-> <<>>] /\ committed = <<>> /\ leader = [s \in Server |-> FALSE]
        /\ commitIndex = [s \in Server |-> 0] /\ lastApplied = [s \in Server |-> 0]
        /\ snapshot = [s \in Server |-> [index |-> 0, data |-> NoData]] /\ started = 0
    BY DEF Init, RaftInit
  <2>2. Len(<<>>) = 0
    OBVIOUS
  <2> QED BY <2>1, <2>2 DEF LogInv, PeerAgrees, LeaderComplete, Numbered, Agrees
<1>2. SubmitInv
  BY DEF Init, SubmitInv
<1>3. ReaderInv
  BY AppliedType DEF Init, RaftInit, ReaderInv, ReaderIs
<1> QED BY <1>0, <1>1, <1>2, <1>3 DEF RsmInv

LEMMA NextRsm ==
  ASSUME RsmInv, [Next]_vars
  PROVE  RsmInv'
<1>1. Types'
  BY NextTypes
<1> QED BY <1>1, NextLog, NextReader, NextSubmit DEF RsmInv

LEMMA RsmInvAlways == Spec => []RsmInv
<1>1. Init => RsmInv
  BY InitRsm
<1>2. RsmInv /\ [Next]_vars => RsmInv'
  BY NextRsm
<1> QED BY <1>1, <1>2, PTL DEF Spec

\* For any number of servers, Clerks, terms and operations, across restarts, lost leaderships
\* and snapshots, no goroutine of Submit() (rsm.go) is ever left waiting for nothing: it has its
\* result, or reader() is about to send it, or its waiter is registered and either its own entry
\* is the one that reader() will get at its index or the ticker finds the term over.
THEOREM SubmitsEnd == Spec => []NoSubmitIsStuck
<1>1. RsmInv => NoSubmitIsStuck
  <2> SUFFICES ASSUME RsmInv, NEW g \in submits
               PROVE  LET s == g.server
                      IN  \/ g.ch # Pending
                          \/ reader[s].at = "send" /\ reader[s].to = g.id
                          \/ /\ waiter[s][g.index] = g.id
                             /\ \/ appliedIndex[s] < g.index /\ IndexOf(s) > g.index /\ log[s][g.index].id = g.id
                                \/ reader[s].at = "notify" /\ reader[s].index = g.index
                                \/ LostLeadership(g)
    BY DEF NoSubmitIsStuck
  <2> DEFINE s == g.server
  <2>1. s \in Server /\ g.index \in Nat /\ Attended(g)
    BY SubmitFields DEF RsmInv, Types, SubmitInv, SubmitIs
  <2>2. /\ appliedIndex[s] \in Nat /\ lastApplied[s] \in Nat /\ Len(log[s]) \in Nat
        /\ appliedIndex[s] =< lastApplied[s]
    BY <2>1, PeerFields, RsmFields DEF RsmInv, Types, ReaderInv, ReaderIs
  <2>3. InPlace(g) => IndexOf(s) > g.index /\ log[s][g.index].id = g.id
    BY <2>1, <2>2 DEF InPlace, IndexOf
  <2>4. lastApplied[s] < g.index => appliedIndex[s] < g.index
    BY <2>1, <2>2
  <2> QED BY <2>1, <2>3, <2>4 DEF Attended
<1> QED BY <1>1, RsmInvAlways, PTL

-----------------------------------------------------------------------------
(* THE CLERKS AND WHAT THEY HAVE ASKED FOR *)

\* What the fields of a Clerk are after its steps.
LEMMA GoOnIs ==
  ASSUME ClerkTypes, NEW c \in Client, GoOn(c)
  PROVE  /\ clerk'[c].at = "call" /\ clerk'[c].id = 0 /\ clerk'[c].firstRpc = FALSE
         /\ clerk'[c].op = clerk[c].op /\ clerk'[c].key = clerk[c].key
         /\ clerk'[c].value = clerk[c].value /\ clerk'[c].version = clerk[c].version
         /\ ReqOf(clerk'[c]) = ReqOf(clerk[c])
         /\ outcome'[c] = (IF Changes(clerk[c], outcome[c]) THEN outcome[c] ELSE Pending)
         /\ \A d \in Client : d # c => clerk'[d] = clerk[d] /\ outcome'[d] = outcome[d]
<1> DEFINE me == [clerk[c] EXCEPT !.at = "call", !.id = 0, !.firstRpc = FALSE,
                                  !.leader = (@ + 1) % Cardinality(Server)]
           out == IF Changes(clerk[c], outcome[c]) THEN outcome[c] ELSE Pending
<1>1. clerk[c] \in ClerkType
  BY ClerkFields
<1>2. /\ me.at = "call" /\ me.id = 0 /\ me.firstRpc = FALSE
      /\ me.op = clerk[c].op /\ me.key = clerk[c].key /\ me.value = clerk[c].value
      /\ me.version = clerk[c].version
  BY <1>1 DEF ClerkType
<1>3. clerk' = [clerk EXCEPT ![c] = me] /\ outcome' = [outcome EXCEPT ![c] = out]
  BY DEF GoOn
<1> HIDE DEF me, out
<1>4. clerk'[c] = me /\ outcome'[c] = out /\ \A d \in Client : d # c => clerk'[d] = clerk[d] /\ outcome'[d] = outcome[d]
  BY <1>3 DEF ClerkTypes
<1> QED BY <1>2, <1>4 DEF out, ReqOf

LEMMA ReturnIs ==
  ASSUME ClerkTypes, NEW c \in Client, NEW r \in ReplyType, Return(c, r)
  PROVE  /\ clerk'[c].at = "idle" /\ clerk'[c].id = 0 /\ clerk'[c].firstRpc = TRUE
         /\ clerk'[c].op = "none"
         /\ clerk'[c].reply = [r EXCEPT !.err = ErrOf(clerk[c], r.err)]
         /\ outcome'[c] = Pending
         /\ \A d \in Client : d # c => clerk'[d] = clerk[d] /\ outcome'[d] = outcome[d]
<1> DEFINE me == Rest(clerk[c].leader, [r EXCEPT !.err = ErrOf(clerk[c], r.err)])
<1>1. /\ me.at = "idle" /\ me.id = 0 /\ me.firstRpc = TRUE /\ me.op = "none"
      /\ me.reply = [r EXCEPT !.err = ErrOf(clerk[c], r.err)]
  BY DEF Rest
<1>2. clerk' = [clerk EXCEPT ![c] = me] /\ outcome' = [outcome EXCEPT ![c] = Pending]
  BY DEF Return
<1> HIDE DEF me
<1>3. clerk'[c] = me /\ outcome'[c] = Pending /\ \A d \in Client : d # c => clerk'[d] = clerk[d] /\ outcome'[d] = outcome[d]
  BY <1>2 DEF ClerkTypes
<1> QED BY <1>1, <1>3

LEMMA BeginIs ==
  ASSUME ClerkTypes, NEW c \in Client, NEW op, NEW key, NEW value, NEW version, Begin(c, op, key, value, version)
  PROVE  /\ clerk[c].at = "idle"
         /\ clerk'[c].at = "call" /\ clerk'[c].id = 0 /\ clerk'[c].firstRpc = TRUE
         /\ clerk'[c].op = op /\ clerk'[c].key = key /\ clerk'[c].value = value
         /\ clerk'[c].version = version
         /\ \A d \in Client : d # c => clerk'[d] = clerk[d]
         /\ UNCHANGED <<raftVars, rsmVars, late, started, service, outcome>>
<1> DEFINE me == [at |-> "call", op |-> op, key |-> key, value |-> value, version |-> version,
                  firstRpc |-> TRUE, leader |-> clerk[c].leader, id |-> 0, reply |-> Pending]
<1>1. /\ me.at = "call" /\ me.id = 0 /\ me.firstRpc = TRUE /\ me.op = op
      /\ me.key = key /\ me.value = value /\ me.version = version
  OBVIOUS
<1>2. clerk' = [clerk EXCEPT ![c] = me]
  BY DEF Begin
<1> HIDE DEF me
<1>3. clerk'[c] = me /\ \A d \in Client : d # c => clerk'[d] = clerk[d]
  BY <1>2 DEF ClerkTypes
<1> QED BY <1>1, <1>3 DEF Begin

\* Numbers of committed operations are at least 1, ascend, and none is used twice.
LEMMA CommittedIds ==
  ASSUME RsmInv
  PROVE  /\ Len(committed) \in Nat /\ started \in Nat
         /\ \A i \in 1 .. Len(committed) : /\ committed[i] \in Op /\ committed[i].id \in Nat
                                           /\ committed[i].id >= 1 /\ committed[i].id =< started
                                           /\ committed[i].req \in Request
         /\ \A i, j \in 1 .. Len(committed) : i < j => committed[i].id < committed[j].id
         /\ \A i, j \in 1 .. Len(committed) : committed[i].id = committed[j].id => i = j
<1>1. committed \in Seq(Op) /\ started \in Nat
  BY KVRaftAssumption DEF RsmInv, Types, RaftTypes, ClerkTypes
<1>2. /\ Len(committed) \in Nat
      /\ \A i \in 1 .. Len(committed) : committed[i] \in Op /\ committed[i].id \in Nat /\ committed[i].req \in Request
  BY <1>1, SeqFacts
<1>3. /\ \A i \in 1 .. Len(committed) : committed[i].id >= 1 /\ committed[i].id =< started
      /\ \A i, j \in 1 .. Len(committed) : i < j => committed[i].id < committed[j].id
  BY DEF RsmInv, LogInv, Numbered
<1>4. ASSUME NEW i \in 1 .. Len(committed), NEW j \in 1 .. Len(committed), committed[i].id = committed[j].id
      PROVE  i = j
  BY <1>2, <1>3, <1>4
<1> QED BY <1>1, <1>2, <1>3, <1>4

\* Versions are natural numbers, and what they make of a request stays as they grow.
LEMMA ReqsKept ==
  ASSUME NEW req \in Request, service \in Data
  PROVE  /\ req.key \in Key /\ req.version \in Nat /\ service[req.key].version \in Nat
         /\ Harmless(req) => ReqKnown(req)
         /\ service' \in Data /\ (\A k \in Key : service[k].version =< service'[k].version) =>
               (ReqKnown(req) => ReqKnown(req)') /\ (Harmless(req) => Harmless(req)')
<1>1. req.key \in Key /\ req.version \in Nat
  BY DEF Request
<1>2. \A d \in Data : d[req.key].version \in Nat
  BY <1>1 DEF Data, Entry
<1>3. Harmless(req) => ReqKnown(req)
  BY <1>1, <1>2 DEF Harmless, ReqKnown
<1>4. ASSUME service' \in Data, \A k \in Key : service[k].version =< service'[k].version
      PROVE  (ReqKnown(req) => ReqKnown(req)') /\ (Harmless(req) => Harmless(req)')
  <2>1. /\ service[req.key].version \in Nat /\ service'[req.key].version \in Nat
        /\ service[req.key].version =< service'[req.key].version
    BY <1>1, <1>2, <1>4
  <2> QED BY <1>1, <2>1 DEF ReqKnown, Harmless
<1> QED BY <1>1, <1>2, <1>3, <1>4

\* A committed Put has met its version or a later one, so that its key is past it now.
LEMMA CommittedHarmless ==
  ASSUME RsmInv, NEW st, StatesAre(st), ClerksAre(st), NEW i \in 1 .. Len(committed)
  PROVE  /\ Harmless(committed[i].req)
         /\ committed[i].req.op = "Put" =>
               Out(st, i) = Reply("OK", NoValue, 0) \/ Out(st, i) = Reply("ErrVersion", NoValue, 0)
<1>0. Len(committed) \in Nat /\ committed[i].req \in Request
  BY CommittedIds
<1>1. PICK req \in Request : req = committed[i].req
  BY <1>0
<1>2. CASE req.op # "Put"
  BY <1>1, <1>2 DEF Harmless
<1>3. CASE req.op = "Put"
  <2> DEFINE n == Len(committed)
             k == req.key
             v == req.version
  <2>1. /\ i - 1 \in Nat /\ i \in Nat /\ i - 1 \in 0 .. n /\ i \in 0 .. n /\ n \in 0 .. n /\ n \in Nat
        /\ i - 1 =< i /\ i =< n /\ k \in Key /\ v \in Nat
    BY <1>0 DEF Request
  <2>2. /\ st[i - 1] \in Data /\ st[i] \in Data /\ st[i] = DoOpData(st[i - 1], req) /\ st[n] = service
        /\ st[i - 1][k].version =< st[i][k].version /\ st[i][k].version =< st[n][k].version
    BY <1>1, <2>1 DEF StatesAre
  <2>3. st[i - 1][k].version \in Nat /\ st[i][k].version \in Nat /\ service[k].version \in Nat
    <3>1. \A d \in Data : d[k].version \in Nat
      BY <2>1 DEF Data, Entry
    <3>2. service \in Data
      BY DEF RsmInv, Types, ClerkTypes
    <3> QED BY <2>2, <3>1, <3>2
  <2>4. v =< st[i - 1][k].version
    BY <1>1, <1>3 DEF ClerksAre, CommittedInTime
  <2>5. Out(st, i) = DoOpReply(st[i - 1], req)
    BY <1>1 DEF Out
  <2>6. CASE st[i - 1][k].version = v
    <3>1. DoOpReply(st[i - 1], req) = Reply("OK", NoValue, 0)
      BY <1>3, <2>6 DEF DoOpReply
    <3>2. Changes(req, DoOpReply(st[i - 1], req))
      BY <1>3, <3>1 DEF Changes, Reply
    <3>3. st[i][k].version = v + 1
      BY <2>2, <3>2, DoOpLeaves
    <3>4. v < service[k].version
      BY <2>1, <2>2, <2>3, <3>3
    <3> QED BY <1>1, <2>5, <3>1, <3>4 DEF Harmless
  <2>7. CASE st[i - 1][k].version # v
    <3>1. v < st[i - 1][k].version /\ st[i - 1][k].version # 0
      BY <2>1, <2>3, <2>4, <2>7
    <3>2. DoOpReply(st[i - 1], req) = Reply("ErrVersion", NoValue, 0)
      BY <1>3, <2>7, <3>1 DEF DoOpReply
    <3>3. v < service[k].version
      BY <2>1, <2>2, <2>3, <3>1
    <3> QED BY <1>1, <2>5, <3>2, <3>3 DEF Harmless
  <2> QED BY <2>6, <2>7
<1> QED BY <1>2, <1>3

\* What is known of the Clerks after a step that leaves the logs and the service alone.
LEMMA ClerksChange ==
  ASSUME RsmInv, NEW st, ClerksAre(st), UNCHANGED <<log, committed>>,
         \A d \in Client : ClerkState(d)' /\ OutcomeIs(st, d)',
         \A e \in Op : e.id >= 1 /\ e.id =< started /\ EntryIs(e) => EntryIs(e)',
         \A h \in late' : LateIs(h)'
  PROVE  ClerksAre(st)'
<1>1. ASSUME NEW q \in Seq(Op), Numbered(q), EntriesAre(q) PROVE EntriesAre(q)'
  <2>1. ASSUME NEW i \in 1 .. Len(q) PROVE EntryIs(q[i])'
    <3>1. q[i] \in Op /\ q[i].id >= 1 /\ q[i].id =< started /\ EntryIs(q[i])
      BY <1>1, SeqFacts DEF Numbered, EntriesAre
    <3> QED BY <3>1
  <2> QED BY <2>1 DEF EntriesAre
<1>2. ASSUME NEW s \in Server PROVE EntriesAre(log[s])'
  <2>1. PICK q \in Seq(Op) : q = log[s]
    BY DEF RsmInv, Types, RaftTypes
  <2>2. EntriesAre(q)'
    BY <1>1, <2>1 DEF ClerksAre, RsmInv, LogInv
  <2> QED BY <2>1, <2>2 DEF EntriesAre
<1>3. EntriesAre(committed)'
  <2>1. PICK q \in Seq(Op) : q = committed
    BY DEF RsmInv, Types, RaftTypes
  <2>2. EntriesAre(q)'
    BY <1>1, <2>1 DEF ClerksAre, RsmInv, LogInv
  <2> QED BY <2>1, <2>2 DEF EntriesAre
<1>4. CommittedInTime(st)'
  BY DEF ClerksAre, CommittedInTime
<1> QED BY <1>2, <1>3, <1>4 DEF ClerksAre

\* A Clerk that the step is not about.
LEMMA OtherClerk ==
  ASSUME NEW st, NEW d \in Client, clerk[d].id \in Nat, started \in Nat, started' \in Nat,
         ClerkState(d), OutcomeIs(st, d), clerk'[d] = clerk[d], outcome'[d] = outcome[d],
         committed' = committed, service' = service, started =< started'
  PROVE  ClerkState(d)' /\ OutcomeIs(st, d)'
<1>1. ClerkState(d)'
  BY DEF ClerkState, ReqKnown
<1>2. OutcomeIs(st, d)'
  BY DEF OutcomeIs, Result, Out, PerformedBefore
<1> QED BY <1>1, <1>2

\* The Clerks after a step that is not one of theirs and commits nothing, given what has
\* become of the logs.
LEMMA ClerksKept ==
  ASSUME RsmInv, NEW st, ClerksAre(st), UNCHANGED <<clerk, outcome, started, committed, service>>,
         late' \subseteq late,
         \A s \in Server : EntriesAre(log[s]) => EntriesAre(log'[s])
  PROVE  ClerksAre(st)'
<1>1. ASSUME NEW c \in Client PROVE ClerkState(c)' /\ OutcomeIs(st, c)'
  <2>1. clerk[c].id \in Nat /\ started \in Nat
    BY ClerkFields, KVRaftAssumption DEF RsmInv, Types, ClerkTypes
  <2> QED BY <2>1, OtherClerk DEF ClerksAre
<1>2. ASSUME NEW q, EntriesAre(q) PROVE EntriesAre(q)'
  BY <1>2 DEF EntriesAre, EntryIs, ReqKnown, Harmless, Current
<1>3. ASSUME NEW s \in Server PROVE EntriesAre(log[s])'
  <2>1. EntriesAre(log'[s])
    BY DEF ClerksAre
  <2>2. PICK q : q = log'[s]
    OBVIOUS
  <2>3. EntriesAre(q)'
    BY <1>2, <2>1, <2>2
  <2> QED BY <2>2, <2>3 DEF EntriesAre
<1>4. EntriesAre(committed)'
  <2>1. PICK q : q = committed
    OBVIOUS
  <2>2. EntriesAre(q)'
    BY <1>2, <2>1 DEF ClerksAre
  <2> QED BY <2>1, <2>2 DEF EntriesAre
<1>5. ASSUME NEW h \in late' PROVE LateIs(h)'
  BY DEF ClerksAre, LateIs, ReqKnown, Harmless, Current
<1>6. CommittedInTime(st)'
  BY DEF ClerksAre, CommittedInTime
<1> QED BY <1>1, <1>3, <1>4, <1>5, <1>6 DEF ClerksAre

\* The Clerk goes on, and may leave a handler behind: what its operation came to is kept
\* only if it changed the data.
LEMMA GoOnClerks ==
  ASSUME RsmInv, NEW st, StatesAre(st), ClerksAre(st), NEW c \in Client, clerk[c].at # "idle", GoOn(c),
         UNCHANGED <<log, committed, started, service>>,
         \A h \in late' : h \in late \/ (h.client = c /\ h.req = ReqOf(clerk[c]))
  PROVE  ClerksAre(st)'
<1>0. ClerkTypes /\ late \subseteq LateType
  BY DEF RsmInv, Types
<1>1. /\ clerk'[c].at = "call" /\ clerk'[c].id = 0 /\ clerk'[c].firstRpc = FALSE
      /\ clerk'[c].op = clerk[c].op /\ clerk'[c].key = clerk[c].key
      /\ clerk'[c].version = clerk[c].version
      /\ ReqOf(clerk'[c]) = ReqOf(clerk[c])
      /\ outcome'[c] = (IF Changes(clerk[c], outcome[c]) THEN outcome[c] ELSE Pending)
      /\ \A d \in Client : d # c => clerk'[d] = clerk[d] /\ outcome'[d] = outcome[d]
  BY <1>0, GoOnIs
<1>2. ClerkState(c)'
  <2>1. ReqKnown(ReqOf(clerk[c]))
    BY DEF ClerksAre, ClerkState
  <2>2. PICK req : req = ReqOf(clerk[c])
    OBVIOUS
  <2>3. ReqKnown(req)'
    BY <2>1, <2>2 DEF ReqKnown
  <2>4. ReqKnown(ReqOf(clerk[c]))'
    BY <1>1, <2>2, <2>3 DEF ReqKnown
  <2> QED BY <1>1, <2>4 DEF ClerkState
<1>3. OutcomeIs(st, c)'
  <2>1. CASE Changes(clerk[c], outcome[c])
    <3>1. clerk[c].op = "Put" /\ outcome[c].err = "OK" /\ outcome'[c] = outcome[c]
      BY <1>1, <2>1 DEF Changes
    <3>2. outcome[c] = Reply("OK", NoValue, 0) /\ clerk[c].version < service[clerk[c].key].version
      <4>1. CASE Result(st, clerk[c].id, outcome[c])
        <5>1. PICK i \in 1 .. Len(committed) : committed[i].id = clerk[c].id /\ outcome[c] = Out(st, i)
          BY <4>1 DEF Result
        <5>2. committed[i].req = ReqOf(clerk[c])
          BY <5>1 DEF ClerksAre, EntriesAre, EntryIs
        <5>3. /\ Harmless(ReqOf(clerk[c]))
              /\ Out(st, i) = Reply("OK", NoValue, 0) \/ Out(st, i) = Reply("ErrVersion", NoValue, 0)
          <6>1. committed[i].req.op = "Put"
            BY <3>1, <5>2 DEF ReqOf
          <6> QED BY <5>2, <6>1, CommittedHarmless
        <5>4. Out(st, i) # Reply("ErrVersion", NoValue, 0)
          BY <3>1, <5>1 DEF Reply
        <5> QED BY <3>1, <5>1, <5>3, <5>4 DEF Harmless, ReqOf
      <4>2. CASE PerformedBefore(c) /\ outcome[c] = Reply("OK", NoValue, 0)
        BY <4>2 DEF PerformedBefore
      <4>3. outcome[c] # Pending
        BY <3>1 DEF Pending, Reply
      <4> QED BY <4>1, <4>2, <4>3 DEF ClerksAre, OutcomeIs
    <3> QED BY <1>1, <3>1, <3>2 DEF OutcomeIs, PerformedBefore
  <2>2. CASE ~Changes(clerk[c], outcome[c])
    <3>1. outcome'[c] = Pending /\ \A i \in 1 .. Len(committed) : committed[i].id # 0
      BY <1>1, <2>2, CommittedIds
    <3> QED BY <1>1, <3>1 DEF OutcomeIs
  <2> QED BY <2>1, <2>2
<1>4. ASSUME NEW d \in Client PROVE ClerkState(d)' /\ OutcomeIs(st, d)'
  <2>1. CASE d = c
    BY <1>2, <1>3, <2>1
  <2>2. CASE d # c
    <3>1. clerk[d].id \in Nat /\ started \in Nat /\ clerk'[d] = clerk[d] /\ outcome'[d] = outcome[d]
      BY <1>0, <1>1, <2>2, ClerkFields, KVRaftAssumption DEF ClerkTypes
    <3> QED BY <3>1, OtherClerk DEF ClerksAre
  <2> QED BY <2>1, <2>2
<1>5. ASSUME NEW d \in Client, NEW req
      PROVE  /\ ReqKnown(req) => ReqKnown(req)'
             /\ Harmless(req) => Harmless(req)'
             /\ Current(d, req) => Current(d, req)'
             /\ ~clerk[d].firstRpc => ~clerk'[d].firstRpc
  <2>1. CASE d = c
    BY <1>1, <2>1 DEF ReqKnown, Harmless, Current
  <2>2. CASE d # c
    BY <1>1, <2>2 DEF ReqKnown, Harmless, Current
  <2> QED BY <2>1, <2>2
<1>6. ASSUME NEW e \in Op, e.id >= 1, EntryIs(e) PROVE EntryIs(e)'
  <2>1. e.client \in Client /\ e.id \in Nat /\ e.id # 0
    BY <1>6 DEF Op
  <2>2. ReqKnown(e.req)'
    BY <1>5, <1>6, <2>1 DEF EntryIs
  <2>3. Harmless(e.req)' \/ (Current(e.client, e.req)' /\ (clerk'[e.client].firstRpc => e.id = clerk'[e.client].id))
    <3>1. CASE Harmless(e.req)
      BY <1>5, <2>1, <3>1
    <3>2. CASE Current(e.client, e.req) /\ (clerk[e.client].firstRpc => e.id = clerk[e.client].id)
      <4>1. CASE e.client = c
        BY <1>1, <1>5, <2>1, <3>2, <4>1
      <4>2. CASE e.client # c
        BY <1>1, <1>5, <2>1, <3>2, <4>2
      <4> QED BY <4>1, <4>2
    <3> QED BY <1>6, <3>1, <3>2 DEF EntryIs
  <2>4. ASSUME NEW d \in Client, e.id = clerk'[d].id PROVE e.client = d /\ e.req = ReqOf(clerk'[d])
    <3>1. d # c /\ clerk'[d] = clerk[d]
      BY <1>1, <2>1, <2>4
    <3> QED BY <1>6, <2>4, <3>1 DEF EntryIs
  <2> QED BY <2>2, <2>3, <2>4 DEF EntryIs
<1>7. ASSUME NEW h \in late' PROVE LateIs(h)'
  <2>1. CASE h \in late
    <3>1. h.client \in Client /\ LateIs(h)
      BY <1>0, <2>1, LateFields DEF ClerksAre
    <3> QED BY <1>5, <3>1 DEF LateIs
  <2>2. CASE h.client = c /\ h.req = ReqOf(clerk[c])
    <3>1. ReqKnown(h.req) /\ Current(c, h.req)
      BY <2>2 DEF ClerksAre, ClerkState, Current
    <3>2. ReqKnown(h.req)' /\ Current(c, h.req)'
      BY <1>5, <3>1
    <3> QED BY <1>1, <2>2, <3>2 DEF LateIs
  <2> QED BY <2>1, <2>2
<1> QED BY <1>4, <1>6, <1>7, ClerksChange

\* The Clerk returns: what it was answered is committed, so that whatever else it has asked
\* for and is still in some log or handler can do nothing any more.
LEMMA ReturnClerks ==
  ASSUME RsmInv, NEW st, StatesAre(st), ClerksAre(st), NEW c \in Client, clerk[c].at = "wait",
         NEW r \in ReplyType, Result(st, clerk[c].id, r), Return(c, r),
         UNCHANGED <<log, committed, started, service, late>>
  PROVE  ClerksAre(st)'
<1>0. ClerkTypes /\ late \subseteq LateType
  BY DEF RsmInv, Types
<1>1. /\ clerk'[c].at = "idle" /\ clerk'[c].id = 0 /\ clerk'[c].op = "none" /\ outcome'[c] = Pending
      /\ \A d \in Client : d # c => clerk'[d] = clerk[d] /\ outcome'[d] = outcome[d]
  BY <1>0, ReturnIs
<1>2. Harmless(ReqOf(clerk[c]))
  <2>1. PICK i \in 1 .. Len(committed) : committed[i].id = clerk[c].id
    BY DEF Result
  <2>2. committed[i].req = ReqOf(clerk[c])
    BY <2>1 DEF ClerksAre, EntriesAre, EntryIs
  <2> QED BY <2>2, CommittedHarmless
<1>3. ClerkState(c)' /\ OutcomeIs(st, c)'
  <2>1. \A i \in 1 .. Len(committed) : committed[i].id # 0
    BY CommittedIds
  <2> QED BY <1>1, <2>1 DEF ClerkState, OutcomeIs
<1>4. ASSUME NEW d \in Client PROVE ClerkState(d)' /\ OutcomeIs(st, d)'
  <2>1. CASE d = c
    BY <1>3, <2>1
  <2>2. CASE d # c
    <3>1. clerk[d].id \in Nat /\ started \in Nat /\ clerk'[d] = clerk[d] /\ outcome'[d] = outcome[d]
      BY <1>0, <1>1, <2>2, ClerkFields, KVRaftAssumption DEF ClerkTypes
    <3> QED BY <3>1, OtherClerk DEF ClerksAre
  <2> QED BY <2>1, <2>2
<1>5. ASSUME NEW d \in Client, NEW req
      PROVE  /\ ReqKnown(req) => ReqKnown(req)'
             /\ Harmless(req) => Harmless(req)'
             /\ Current(d, req) => Harmless(req)' \/ (Current(d, req)' /\ clerk'[d] = clerk[d])
  <2>1. CASE d = c
    BY <1>2, <2>1 DEF ReqKnown, Harmless, Current
  <2>2. CASE d # c
    BY <1>1, <2>2 DEF ReqKnown, Harmless, Current
  <2> QED BY <2>1, <2>2
<1>6. ASSUME NEW e \in Op, e.id >= 1, EntryIs(e) PROVE EntryIs(e)'
  <2>1. e.client \in Client /\ e.id \in Nat /\ e.id # 0
    BY <1>6 DEF Op
  <2>2. ReqKnown(e.req)'
    BY <1>5, <1>6, <2>1 DEF EntryIs
  <2>3. Harmless(e.req)' \/ (Current(e.client, e.req)' /\ (clerk'[e.client].firstRpc => e.id = clerk'[e.client].id))
    BY <1>5, <1>6, <2>1 DEF EntryIs
  <2>4. ASSUME NEW d \in Client, e.id = clerk'[d].id PROVE e.client = d /\ e.req = ReqOf(clerk'[d])
    <3>1. d # c /\ clerk'[d] = clerk[d]
      BY <1>1, <2>1, <2>4
    <3> QED BY <1>6, <2>4, <3>1 DEF EntryIs
  <2> QED BY <2>2, <2>3, <2>4 DEF EntryIs
<1>7. ASSUME NEW h \in late' PROVE LateIs(h)'
  <2>1. h.client \in Client /\ LateIs(h)
    BY <1>0, LateFields DEF ClerksAre
  <2> QED BY <1>5, <2>1 DEF LateIs
<1> QED BY <1>4, <1>6, <1>7, ClerksChange

\* The Clerk begins, with a version its key has reached.
LEMMA BeginClerks ==
  ASSUME RsmInv, NEW st, ClerksAre(st), NEW c \in Client, NEW op, NEW key, NEW value, NEW version,
         Begin(c, op, key, value, version), op = "Put" => version =< service[key].version
  PROVE  ClerksAre(st)' /\ outcome[c] = Pending
<1>0. ClerkTypes /\ late \subseteq LateType
  BY DEF RsmInv, Types
<1>1. /\ clerk[c].at = "idle" /\ clerk'[c].at = "call" /\ clerk'[c].id = 0
      /\ clerk'[c].op = op /\ clerk'[c].key = key /\ clerk'[c].version = version
      /\ \A d \in Client : d # c => clerk'[d] = clerk[d]
      /\ UNCHANGED <<log, committed, started, service, late, outcome>>
  BY <1>0, BeginIs DEF raftVars
<1>2. clerk[c].id = 0 /\ \A i \in 1 .. Len(committed) : committed[i].id # 0
  BY <1>1, CommittedIds DEF ClerksAre, ClerkState
<1>3. outcome[c] = Pending
  BY <1>1, <1>2 DEF ClerksAre, OutcomeIs, Result, PerformedBefore
<1>4. ClerkState(c)' /\ OutcomeIs(st, c)'
  BY <1>1, <1>2, <1>3 DEF ClerkState, OutcomeIs, ReqKnown, ReqOf
<1>5. ASSUME NEW d \in Client PROVE ClerkState(d)' /\ OutcomeIs(st, d)'
  <2>1. CASE d = c
    BY <1>4, <2>1
  <2>2. CASE d # c
    <3>1. clerk[d].id \in Nat /\ started \in Nat /\ clerk'[d] = clerk[d] /\ outcome'[d] = outcome[d]
      BY <1>0, <1>1, <2>2, ClerkFields, KVRaftAssumption DEF ClerkTypes
    <3> QED BY <1>1, <3>1, OtherClerk DEF ClerksAre
  <2> QED BY <2>1, <2>2
<1>6. ASSUME NEW d \in Client, NEW req
      PROVE  /\ ReqKnown(req) => ReqKnown(req)'
             /\ Harmless(req) => Harmless(req)'
             /\ Current(d, req) => Current(d, req)' /\ clerk'[d] = clerk[d]
  <2>1. CASE d = c
    BY <1>1, <2>1 DEF ReqKnown, Harmless, Current
  <2>2. CASE d # c
    BY <1>1, <2>2 DEF ReqKnown, Harmless, Current
  <2> QED BY <2>1, <2>2
<1>7. ASSUME NEW e \in Op, e.id >= 1, EntryIs(e) PROVE EntryIs(e)'
  <2>1. e.client \in Client /\ e.id \in Nat /\ e.id # 0
    BY <1>7 DEF Op
  <2>2. ReqKnown(e.req)'
    BY <1>6, <1>7, <2>1 DEF EntryIs
  <2>3. Harmless(e.req)' \/ (Current(e.client, e.req)' /\ (clerk'[e.client].firstRpc => e.id = clerk'[e.client].id))
    BY <1>6, <1>7, <2>1 DEF EntryIs
  <2>4. ASSUME NEW d \in Client, e.id = clerk'[d].id PROVE e.client = d /\ e.req = ReqOf(clerk'[d])
    <3>1. d # c /\ clerk'[d] = clerk[d]
      BY <1>1, <2>1, <2>4
    <3> QED BY <1>7, <2>4, <3>1 DEF EntryIs
  <2> QED BY <2>2, <2>3, <2>4 DEF EntryIs
<1>8. ASSUME NEW h \in late' PROVE LateIs(h)'
  <2>1. h.client \in Client /\ LateIs(h)
    BY <1>0, <1>1, LateFields DEF ClerksAre
  <2> QED BY <1>6, <2>1 DEF LateIs
<1> QED BY <1>1, <1>3, <1>5, <1>7, <1>8, ClerksChange

\* What is known of the Clerks after a step that starts the operation op under a new number.
LEMMA ClerksStart ==
  ASSUME RsmInv, NEW st, ClerksAre(st), NEW s \in Server, NEW op \in Op, Start(s, op),
         \A d \in Client : ClerkState(d)' /\ OutcomeIs(st, d)',
         EntryIs(op)', \A e \in Op : e.id >= 1 /\ e.id =< started /\ EntryIs(e) => EntryIs(e)',
         \A h \in late' : LateIs(h)'
  PROVE  ClerksAre(st)'
<1>0. /\ RaftTypes /\ committed' = committed /\ log' = [log EXCEPT ![s] = Append(log[s], op)]
      /\ committed \in Seq(Op)
  BY DEF RsmInv, Types, RaftTypes, Start
<1>1. ASSUME NEW q \in Seq(Op), Numbered(q), EntriesAre(q), NEW i \in 1 .. Len(q)
      PROVE  EntryIs(q[i])'
  <2>1. q[i] \in Op /\ q[i].id >= 1 /\ q[i].id =< started /\ EntryIs(q[i])
    BY <1>1, SeqFacts DEF Numbered, EntriesAre
  <2> QED BY <2>1
<1>2. ASSUME NEW m \in Server PROVE EntriesAre(log[m])'
  <2>1. PICK q \in Seq(Op) : q = log[m]
    BY <1>0 DEF RaftTypes
  <2>2. Numbered(q) /\ EntriesAre(q)
    BY <2>1 DEF RsmInv, LogInv, ClerksAre
  <2>3. CASE m = s
    <3>1. log'[m] = Append(q, op)
      BY <1>0, <2>1, <2>3 DEF RaftTypes
    <3>2. /\ Len(q) \in Nat /\ Len(log'[m]) = Len(q) + 1 /\ log'[m][Len(q) + 1] = op
          /\ \A i \in 1 .. Len(q) : log'[m][i] = q[i]
      BY <3>1, AppendFacts
    <3>3. PICK r : r = log'[m]
      OBVIOUS
    <3>4. ASSUME NEW i \in 1 .. Len(r) PROVE EntryIs(r[i])'
      <4>1. CASE i = Len(q) + 1
        BY <3>2, <3>3, <4>1
      <4>2. CASE i # Len(q) + 1
        <5>1. i \in 1 .. Len(q) /\ r[i] = q[i]
          BY <3>2, <3>3, <4>2
        <5> QED BY <1>1, <2>2, <5>1
      <4> QED BY <4>1, <4>2
    <3>5. EntriesAre(r)'
      BY <3>4 DEF EntriesAre
    <3> QED BY <3>3, <3>5 DEF EntriesAre
  <2>4. CASE m # s
    <3>1. log'[m] = q
      BY <1>0, <2>1, <2>4 DEF RaftTypes
    <3>2. EntriesAre(q)'
      BY <1>1, <2>2 DEF EntriesAre
    <3> QED BY <3>1, <3>2 DEF EntriesAre
  <2> QED BY <2>3, <2>4
<1>3. EntriesAre(committed)'
  <2>1. PICK q \in Seq(Op) : q = committed
    BY <1>0
  <2>2. Numbered(q) /\ EntriesAre(q)
    BY <2>1 DEF RsmInv, LogInv, ClerksAre
  <2>3. EntriesAre(q)'
    BY <1>1, <2>2 DEF EntriesAre
  <2> QED BY <1>0, <2>1, <2>3 DEF EntriesAre
<1>4. CommittedInTime(st)'
  BY <1>0 DEF ClerksAre, CommittedInTime
<1> QED BY <1>2, <1>3, <1>4 DEF ClerksAre

\* The Clerk's operation is started, and the Clerk waits for it.
LEMMA StartClerks ==
  ASSUME RsmInv, NEW st, ClerksAre(st), NEW c \in Client, clerk[c].at = "call", NEW s \in Server,
         NEW op \in Op, op.id = started + 1, op.client = c, op.req = ReqOf(clerk[c]), Start(s, op),
         started' = started + 1, UNCHANGED <<outcome, service, late>>,
         clerk' = [clerk EXCEPT ![c].at = "wait", ![c].id = op.id]
  PROVE  ClerksAre(st)'
<1>0. ClerkTypes /\ late \subseteq LateType /\ started \in Nat /\ clerk[c] \in ClerkType
  BY ClerkFields, KVRaftAssumption DEF RsmInv, Types, ClerkTypes
<1>1. committed' = committed
  BY DEF Start
<1>2. /\ clerk'[c].at = "wait" /\ clerk'[c].id = op.id /\ clerk'[c].op = clerk[c].op
      /\ clerk'[c].firstRpc = clerk[c].firstRpc /\ clerk'[c].key = clerk[c].key
      /\ clerk'[c].version = clerk[c].version /\ ReqOf(clerk'[c]) = ReqOf(clerk[c])
      /\ \A d \in Client : d # c => clerk'[d] = clerk[d]
  <2> DEFINE me == [clerk[c] EXCEPT !.at = "wait", !.id = op.id]
  <2>1. /\ me.at = "wait" /\ me.id = op.id /\ me.op = clerk[c].op
        /\ me.firstRpc = clerk[c].firstRpc /\ me.key = clerk[c].key /\ me.value = clerk[c].value
        /\ me.version = clerk[c].version
    BY <1>0 DEF ClerkType
  <2>2. clerk' = [clerk EXCEPT ![c] = me]
    OBVIOUS
  <2> HIDE DEF me
  <2>3. clerk'[c] = me /\ \A d \in Client : d # c => clerk'[d] = clerk[d]
    BY <1>0, <2>2 DEF ClerkTypes
  <2> QED BY <2>1, <2>3 DEF ReqOf
<1>3. clerk[c].id = 0 /\ ReqKnown(op.req)
  BY DEF ClerksAre, ClerkState
<1>4. \A i \in 1 .. Len(committed) : committed[i].id # op.id /\ committed[i].id # 0
  BY CommittedIds
<1>5. ClerkState(c)' /\ OutcomeIs(st, c)'
  <2>1. ClerkState(c)'
    <3>1. ReqKnown(ReqOf(clerk[c]))'
      BY <1>2, <1>3 DEF ReqKnown
    <3>2. op.id >= 1 /\ op.id =< started'
      BY <1>0
    <3> QED BY <1>2, <3>1, <3>2 DEF ClerkState
  <2>2. CASE outcome[c] = Pending
    BY <1>1, <1>2, <1>4, <2>1, <2>2 DEF OutcomeIs
  <2>3. CASE Result(st, clerk[c].id, outcome[c])
    BY <1>3, <1>4, <2>3 DEF Result
  <2>4. CASE outcome[c] = Reply("OK", NoValue, 0) /\ PerformedBefore(c)
    BY <1>2, <2>1, <2>4 DEF OutcomeIs, PerformedBefore
  <2> QED BY <2>2, <2>3, <2>4 DEF ClerksAre, OutcomeIs
<1>6. ASSUME NEW d \in Client PROVE ClerkState(d)' /\ OutcomeIs(st, d)'
  <2>1. CASE d = c
    BY <1>5, <2>1
  <2>2. CASE d # c
    <3>1. clerk[d].id \in Nat
      BY <1>0, ClerkFields
    <3>2. clerk'[d] = clerk[d] /\ outcome'[d] = outcome[d]
      BY <1>2, <2>2
    <3>3. started' \in Nat /\ started =< started'
      BY <1>0
    <3> QED BY <1>0, <1>1, <3>1, <3>2, <3>3, OtherClerk DEF ClerksAre
  <2> QED BY <2>1, <2>2
<1>7. ASSUME NEW d \in Client, NEW req
      PROVE  /\ ReqKnown(req) => ReqKnown(req)'
             /\ Harmless(req) => Harmless(req)'
             /\ Current(d, req) => Current(d, req)'
             /\ clerk'[d].firstRpc = clerk[d].firstRpc
  <2>1. CASE d = c
    BY <1>2, <2>1 DEF ReqKnown, Harmless, Current
  <2>2. CASE d # c
    BY <1>2, <2>2 DEF ReqKnown, Harmless, Current
  <2> QED BY <2>1, <2>2
<1>8. ASSUME NEW e \in Op, e.id >= 1, e.id =< started, EntryIs(e) PROVE EntryIs(e)'
  <2>1. e.client \in Client /\ e.id \in Nat /\ e.id # 0 /\ e.id # op.id
    BY <1>0, <1>8 DEF Op
  <2>2. ReqKnown(e.req)'
    BY <1>7, <1>8, <2>1 DEF EntryIs
  <2>3. Harmless(e.req)' \/ (Current(e.client, e.req)' /\ (clerk'[e.client].firstRpc => e.id = clerk'[e.client].id))
    <3>1. CASE Harmless(e.req)
      BY <1>7, <2>1, <3>1
    <3>2. CASE Current(e.client, e.req) /\ (clerk[e.client].firstRpc => e.id = clerk[e.client].id)
      <4>1. CASE e.client = c
        BY <1>3, <1>7, <2>1, <3>2, <4>1
      <4>2. CASE e.client # c
        BY <1>2, <1>7, <2>1, <3>2, <4>2
      <4> QED BY <4>1, <4>2
    <3> QED BY <1>8, <3>1, <3>2 DEF EntryIs
  <2>4. ASSUME NEW d \in Client, e.id = clerk'[d].id PROVE e.client = d /\ e.req = ReqOf(clerk'[d])
    <3>1. d # c /\ clerk'[d] = clerk[d]
      BY <1>2, <2>1, <2>4
    <3> QED BY <1>8, <2>4, <3>1 DEF EntryIs
  <2> QED BY <2>2, <2>3, <2>4 DEF EntryIs
<1>9. EntryIs(op)'
  <2>1. ReqKnown(op.req)' /\ Current(c, op.req)'
    BY <1>2, <1>3, <1>7 DEF Current
  <2>2. ASSUME NEW d \in Client, op.id = clerk'[d].id PROVE d = c
    <3>1. CASE d # c
      <4>1. clerk[d].id = 0 \/ clerk[d].id =< started
        BY DEF ClerksAre, ClerkState
      <4>2. clerk[d].id \in Nat
        BY <1>0, ClerkFields
      <4>3. clerk[d].id # op.id
        BY <1>0, <4>1, <4>2
      <4>4. clerk'[d] = clerk[d]
        BY <1>2, <3>1
      <4> QED BY <2>2, <4>3, <4>4
    <3> QED BY <3>1
  <2> QED BY <1>2, <2>1, <2>2 DEF EntryIs
<1>10. ASSUME NEW h \in late' PROVE LateIs(h)'
  <2>1. h.client \in Client /\ LateIs(h)
    BY <1>0, LateFields DEF ClerksAre
  <2> QED BY <1>7, <2>1 DEF LateIs
<1> QED BY <1>6, <1>8, <1>9, <1>10, ClerksStart

\* The operation of a handler that labrpc has given up is started, and no Clerk waits for it.
LEMMA LateClerks ==
  ASSUME RsmInv, NEW st, ClerksAre(st), NEW h \in late, NEW s \in Server,
         NEW op \in Op, op.id = started + 1, op.client = h.client, op.req = h.req, Start(s, op),
         started' = started + 1, UNCHANGED <<clerk, outcome, service>>, late' \subseteq late
  PROVE  ClerksAre(st)'
<1>0. ClerkTypes /\ late \subseteq LateType /\ started \in Nat /\ started' \in Nat /\ started =< started'
  BY KVRaftAssumption DEF RsmInv, Types, ClerkTypes
<1>1. committed' = committed
  BY DEF Start
<1>2. ASSUME NEW d \in Client
      PROVE  ClerkState(d)' /\ OutcomeIs(st, d)' /\ clerk[d].id # op.id
  <2>1. clerk[d].id \in Nat
    BY <1>0, ClerkFields
  <2>2. ClerkState(d)' /\ OutcomeIs(st, d)'
    BY <1>0, <1>1, <2>1, OtherClerk DEF ClerksAre
  <2>3. clerk[d].id = 0 \/ clerk[d].id =< started
    BY DEF ClerksAre, ClerkState
  <2> QED BY <1>0, <2>1, <2>2, <2>3
<1>3. ASSUME NEW e, EntryIs(e) PROVE EntryIs(e)'
  BY <1>3 DEF EntryIs, ReqKnown, Harmless, Current
<1>4. EntryIs(op)'
  <2>1. LateIs(h)
    BY DEF ClerksAre
  <2>2. EntryIs(op)
    BY <1>2, <2>1 DEF LateIs, EntryIs
  <2> QED BY <1>3, <2>2
<1>5. ASSUME NEW g \in late' PROVE LateIs(g)'
  BY DEF ClerksAre, LateIs, ReqKnown, Harmless, Current
<1> QED BY <1>2, <1>3, <1>4, <1>5, ClerksStart

\* What is known of an operation when it is committed for the first time: it is later than
\* whatever is committed.
LEMMA NewsIs ==
  ASSUME RsmInv, LogInv', NEW st, ClerksAre(st), NEW s \in Server, Commit(s), IsNews(s),
         NEW op, op = NextCommitted(s), started' = started
  PROVE  /\ op \in Op /\ op.client \in Client /\ op.req \in Request /\ op.id \in Nat /\ op.id >= 1
         /\ op.id =< started /\ EntryIs(op)
         /\ Len(committed) \in Nat /\ Len(committed') = Len(committed) + 1
         /\ committed'[Len(committed) + 1] = op
         /\ \A i \in 1 .. Len(committed) : committed'[i] = committed[i] /\ committed[i].id < op.id
<1>0. RaftTypes /\ LogInv /\ log[s] \in Seq(Op)
  BY PeerFields DEF RsmInv, Types
<1>1. /\ commitIndex[s] + 1 \in 1 .. Len(log[s]) /\ op \in Op /\ op = log[s][commitIndex[s] + 1]
      /\ Len(committed) \in Nat /\ Len(committed') = Len(committed) + 1
      /\ committed'[Len(committed) + 1] = op
      /\ \A i \in 1 .. Len(committed) : committed'[i] = committed[i]
  BY <1>0, CommitIs DEF NextCommitted
<1>2. op.client \in Client /\ op.req \in Request /\ op.id \in Nat
  BY <1>1 DEF Op
<1>3. EntryIs(op)
  BY <1>1 DEF ClerksAre, EntriesAre
<1>4. op.id >= 1 /\ op.id =< started
  BY <1>0, <1>1 DEF LogInv, Numbered
<1>5. ASSUME NEW i \in 1 .. Len(committed) PROVE committed[i].id < op.id
  <2>1. i \in 1 .. Len(committed') /\ Len(committed) + 1 \in 1 .. Len(committed') /\ i < Len(committed) + 1
    BY <1>1
  <2>2. committed'[i].id < committed'[Len(committed) + 1].id
    BY <2>1 DEF LogInv, Numbered
  <2> QED BY <1>1, <2>2
<1> QED BY <1>1, <1>2, <1>3, <1>4, <1>5

\* A Put whose version fits is its Clerk's call, which has come to nothing yet, and in the first
\* RPC of the call it is what the Clerk waits for.
LEMMA FirstChange ==
  ASSUME RsmInv, LogInv', NEW st, StatesAre(st), ClerksAre(st), NEW s \in Server, Commit(s), IsNews(s),
         NEW op, op = NextCommitted(s), started' = started,
         Changes(op.req, DoOpReply(service, op.req))
  PROVE  /\ outcome[op.client] = Pending /\ Current(op.client, op.req)
         /\ clerk[op.client].firstRpc => op.id = clerk[op.client].id
         /\ op.req.op = "Put" /\ service[op.req.key].version = op.req.version
<1> DEFINE c == op.client
           n == Len(committed)
<1>0. /\ op.client \in Client /\ op.req \in Request /\ op.id \in Nat /\ n \in Nat /\ EntryIs(op)
      /\ service \in Data
  BY NewsIs DEF RsmInv, Types, ClerkTypes
<1>1. op.req.op = "Put" /\ service[op.req.key].version = op.req.version
  BY <1>0, DoOpLeaves DEF Changes
<1>2. ~Harmless(op.req)
  <2>1. op.req.version \in Nat
    BY <1>0 DEF Request
  <2> QED BY <1>1, <2>1 DEF Harmless
<1>3. Current(c, op.req) /\ (clerk[c].firstRpc => op.id = clerk[c].id)
  BY <1>0, <1>2 DEF EntryIs
<1>4. ~Result(st, clerk[c].id, outcome[c])
  <2> SUFFICES ASSUME NEW i \in 1 .. n, committed[i].id = clerk[c].id PROVE FALSE
    BY DEF Result
  <2>1. committed[i].req = op.req
    BY <1>0, <1>3 DEF ClerksAre, EntriesAre, EntryIs, Current
  <2> QED BY <1>2, <2>1, CommittedHarmless
<1>5. ~PerformedBefore(c)
  <2>1. op.req.version = clerk[c].version /\ op.req.key = clerk[c].key /\ op.req.op = clerk[c].op
    BY <1>3 DEF Current, ReqOf
  <2> QED BY <1>2, <2>1 DEF PerformedBefore, Harmless
<1> QED BY <1>0, <1>1, <1>3, <1>4, <1>5 DEF ClerksAre, OutcomeIs

\* The states after a commit: one more, which leaves the others alone.
NextStates(st, op) ==
    [i \in Nat |-> IF i = Len(committed) + 1 THEN DoOpData(service, op.req) ELSE st[i]]

LEMMA CommitStates ==
  ASSUME RsmInv, LogInv', NEW st, StatesAre(st), ClerksAre(st), NEW s \in Server, Commit(s), IsNews(s),
         NEW op, op = NextCommitted(s), started' = started, service' = DoOpData(service, op.req),
         NEW nx, nx = NextStates(st, op)
  PROVE  /\ StatesAre(nx)'
         /\ \A i \in 0 .. Len(committed) : nx[i] = st[i]
         /\ nx \in [Nat -> Data]
<1> DEFINE n == Len(committed)
<1>0. /\ op.req \in Request /\ n \in Nat /\ Len(committed') = n + 1 /\ committed'[n + 1] = op
      /\ \A i \in 1 .. n : committed'[i] = committed[i]
  BY NewsIs
<1>1. service \in Data /\ st \in [Nat -> Data] /\ st[n] = service
  BY DEF RsmInv, Types, ClerkTypes, StatesAre
<1>2. /\ DoOpData(service, op.req) \in Data
      /\ \A k \in Key : DoOpData(service, op.req)[k].version >= service[k].version
  BY <1>0, <1>1, DoOpLeaves
<1>3. nx \in [Nat -> Data]
  BY <1>1, <1>2 DEF NextStates
<1>4. (\A i \in 0 .. n : nx[i] = st[i]) /\ nx[n + 1] = DoOpData(service, op.req)
  BY <1>0 DEF NextStates
<1>5. nx[0] = NoData /\ nx[n + 1] = service'
  BY <1>0, <1>4 DEF StatesAre
<1>6. ASSUME NEW i \in 1 .. n + 1 PROVE nx[i] = DoOpData(nx[i - 1], committed'[i].req)
  <2>1. CASE i = n + 1
    BY <1>0, <1>1, <1>4, <2>1
  <2>2. CASE i # n + 1
    <3>1. i \in 1 .. n /\ i \in 0 .. n /\ i - 1 \in 0 .. n
      BY <1>0, <2>2
    <3> QED BY <1>0, <1>4, <3>1 DEF StatesAre
  <2> QED BY <2>1, <2>2
<1>7. ASSUME NEW i \in 0 .. n + 1, NEW j \in 0 .. n + 1, i =< j, NEW k \in Key
      PROVE  nx[i][k].version =< nx[j][k].version
  <2>0. \A d \in Data : d[k].version \in Nat
    BY DEF Data, Entry
  <2>1. CASE j = n + 1 /\ i = n + 1
    BY <1>2, <1>4, <2>0, <2>1
  <2>2. CASE j = n + 1 /\ i # n + 1
    <3>1. i \in 0 .. n /\ n \in 0 .. n /\ i =< n /\ i \in Nat
      BY <1>0, <2>2
    <3>2. nx[i] = st[i] /\ nx[j] = DoOpData(service, op.req)
      BY <1>4, <2>2, <3>1
    <3>3. st[i][k].version =< st[n][k].version
      BY <3>1 DEF StatesAre
    <3>4. st[i] \in Data /\ st[n] \in Data
      BY <1>0, <1>1, <3>1
    <3> QED BY <1>1, <1>2, <2>0, <3>2, <3>3, <3>4
  <2>3. CASE j # n + 1
    <3>1. i \in 0 .. n /\ j \in 0 .. n
      BY <1>0, <1>7, <2>3
    <3> QED BY <1>4, <1>7, <3>1 DEF StatesAre
  <2> QED BY <1>0, <2>1, <2>2, <2>3
<1> HIDE DEF n
<1>8. StatesAre(nx)'
  BY <1>0, <1>3, <1>5, <1>6, <1>7 DEF StatesAre
<1> QED BY <1>3, <1>4, <1>8 DEF n

\* What earlier operations came to stays; what the new one came to is what CommitOp records.
LEMMA CommitOut ==
  ASSUME RsmInv, LogInv', NEW st, StatesAre(st), ClerksAre(st), NEW s \in Server, Commit(s), IsNews(s),
         NEW op, op = NextCommitted(s), started' = started,
         NEW nx, nx = NextStates(st, op)
  PROVE  /\ \A i \in 1 .. Len(committed) : Out(nx, i)' = Out(st, i)
         /\ \A k : k = Len(committed) + 1 => Out(nx, k)' = DoOpReply(service, op.req)
         /\ \A id, r : Result(nx, id, r)' <=> Result(st, id, r) \/ (id = op.id /\ r = DoOpReply(service, op.req))
<1> DEFINE n == Len(committed)
<1>0. /\ n \in Nat /\ Len(committed') = n + 1 /\ committed'[n + 1] = op
      /\ \A i \in 1 .. n : committed'[i] = committed[i]
  BY NewsIs
<1>1. (\A i \in 0 .. n : nx[i] = st[i]) /\ st[n] = service
  BY <1>0 DEF NextStates, StatesAre
<1>2. ASSUME NEW i \in 1 .. n PROVE Out(nx, i)' = Out(st, i)
  <2>1. i - 1 \in 0 .. n
    BY <1>0
  <2> QED BY <1>0, <1>1, <2>1 DEF Out
<1>3. ASSUME NEW i, i = n + 1 PROVE Out(nx, i)' = DoOpReply(service, op.req)
  <2>1. i - 1 = n /\ n \in 0 .. n
    BY <1>0, <1>3
  <2> QED BY <1>0, <1>1, <1>3, <2>1 DEF Out
<1>4. PICK k : k = n + 1
  OBVIOUS
<1>5. \A id, r : Result(nx, id, r)' <=> \E i \in 1 .. k : committed'[i].id = id /\ r = Out(nx, i)'
  BY <1>0, <1>4 DEF Result
<1>6. ASSUME NEW id, NEW r
      PROVE  (\E i \in 1 .. k : committed'[i].id = id /\ r = Out(nx, i)')
               <=> Result(st, id, r) \/ (id = op.id /\ r = DoOpReply(service, op.req))
  <2>1. \A i : i \in 1 .. k <=> i \in 1 .. n \/ i = k
    BY <1>0, <1>4
  <2>2. Out(nx, k)' = DoOpReply(service, op.req) /\ committed'[k] = op
    BY <1>0, <1>3, <1>4
  <2> QED BY <1>0, <1>2, <2>1, <2>2 DEF Result
<1> QED BY <1>2, <1>3, <1>5, <1>6

\* An operation takes effect: what CommitOp makes of the outcomes.
LEMMA CommitOutcome ==
  ASSUME RsmInv, LogInv', NEW st, StatesAre(st), ClerksAre(st), NEW s \in Server, CommitOp(s), IsNews(s),
         NEW op, op = NextCommitted(s), NEW nx, nx = NextStates(st, op), NEW d \in Client
  PROVE  OutcomeIs(nx, d)'
<1> DEFINE n == Len(committed)
           c == op.client
           out == DoOpReply(service, op.req)
           counts == Changes(op.req, out) \/ (op.id = clerk[c].id /\ outcome[c] = Pending)
<1>0. /\ Commit(s) /\ started' = started /\ clerk' = clerk /\ service' = DoOpData(service, op.req)
      /\ outcome' = IF counts THEN [outcome EXCEPT ![c] = out] ELSE outcome
  BY DEF CommitOp
<1>1. /\ c \in Client /\ op.req \in Request /\ op.id \in Nat /\ n \in Nat /\ EntryIs(op)
      /\ Len(committed') = n + 1 /\ committed'[n + 1] = op
      /\ \A i \in 1 .. n : committed'[i] = committed[i]
  BY <1>0, NewsIs
<1>2. \A id, r : Result(nx, id, r)' <=> Result(st, id, r) \/ (id = op.id /\ r = out)
  BY <1>0, CommitOut
<1>3. ClerkTypes /\ outcome \in [Client -> ReplyType] /\ service \in Data /\ OutcomeIs(st, d)
  BY DEF RsmInv, Types, ClerkTypes, ClerksAre
<1>4. service' \in Data /\ \A k \in Key : service[k].version =< service'[k].version
  <2>1. /\ DoOpData(service, op.req) \in Data
        /\ \A k \in Key : DoOpData(service, op.req)[k].version >= service[k].version
    BY <1>1, <1>3, DoOpLeaves
  <2>2. \A k \in Key : service[k].version \in Nat /\ service'[k].version \in Nat
    BY <1>0, <1>3, <2>1 DEF Data, Entry
  <2> QED BY <1>0, <2>1, <2>2
<1>5. PerformedBefore(d) => PerformedBefore(d)'
  <2> SUFFICES ASSUME PerformedBefore(d) PROVE PerformedBefore(d)'
    OBVIOUS
  <2>1. PICK req \in Request : req = ReqOf(clerk[d])
    BY <1>3, ReqIs DEF PerformedBefore
  <2>2. req.op = clerk[d].op /\ req.key = clerk[d].key /\ req.version = clerk[d].version
    BY <2>1 DEF ReqOf
  <2>3. Harmless(req) /\ req.op = "Put"
    BY <2>2 DEF PerformedBefore, Harmless
  <2>4. Harmless(req)'
    BY <1>3, <1>4, <2>3, ReqsKept
  <2> QED BY <1>0, <2>2, <2>3, <2>4 DEF PerformedBefore, Harmless
<1>6. ASSUME outcome'[d] = outcome[d], outcome[d] = Pending => op.id # clerk[d].id
      PROVE  OutcomeIs(nx, d)'
  <2>1. CASE outcome[d] = Pending /\ \A i \in 1 .. n : committed[i].id # clerk[d].id
    <3>1. \A i \in 1 .. Len(committed') : i \in 1 .. n \/ i = n + 1
      BY <1>1
    <3>2. \A i \in 1 .. Len(committed') : committed'[i].id # clerk[d].id
      BY <1>1, <1>6, <2>1, <3>1
    <3> QED BY <1>0, <1>6, <2>1, <3>2 DEF OutcomeIs
  <2>2. CASE Result(st, clerk[d].id, outcome[d])
    <3>1. PICK id, r : id = clerk[d].id /\ r = outcome[d]
      OBVIOUS
    <3>2. Result(nx, id, r)'
      BY <1>2, <2>2, <3>1
    <3> QED BY <1>0, <1>6, <3>1, <3>2 DEF OutcomeIs, Result
  <2>3. CASE outcome[d] = Reply("OK", NoValue, 0) /\ PerformedBefore(d)
    BY <1>5, <1>6, <2>3 DEF OutcomeIs
  <2> QED BY <1>3, <2>1, <2>2, <2>3 DEF OutcomeIs
<1>7. ASSUME d = c, op.id = clerk[c].id, outcome'[c] = out PROVE OutcomeIs(nx, d)'
  <2>1. PICK id, r : id = clerk[c].id /\ r = outcome'[c]
    OBVIOUS
  <2>2. Result(nx, id, r)'
    BY <1>2, <1>7, <2>1
  <2> QED BY <1>0, <1>7, <2>1, <2>2 DEF OutcomeIs, Result
<1>8. CASE d # c
  <2>1. outcome'[d] = outcome[d] /\ op.id # clerk[d].id
    BY <1>0, <1>1, <1>3, <1>8 DEF EntryIs
  <2> QED BY <1>6, <2>1
<1>9. CASE d = c /\ Changes(op.req, out)
  <2>1. outcome'[c] = out
    BY <1>0, <1>1, <1>3, <1>9
  <2>2. /\ Current(c, op.req) /\ (clerk[c].firstRpc => op.id = clerk[c].id)
        /\ op.req.op = "Put" /\ service[op.req.key].version = op.req.version
    BY <1>0, <1>9, FirstChange
  <2>3. CASE op.id = clerk[c].id
    BY <1>7, <1>9, <2>1, <2>3
  <2>4. CASE op.id # clerk[c].id
    <3>1. out = Reply("OK", NoValue, 0) /\ service'[op.req.key].version = op.req.version + 1
      BY <1>0, <1>1, <1>3, <1>9, DoOpLeaves
    <3>2. op.req.op = clerk[c].op /\ op.req.key = clerk[c].key /\ op.req.version = clerk[c].version
      BY <2>2 DEF Current, ReqOf
    <3>3. op.req.version < service'[op.req.key].version
      <4>1. op.req.version \in Nat
        BY <1>1 DEF Request
      <4> QED BY <3>1, <4>1
    <3>4. PerformedBefore(c)'
      BY <1>0, <2>2, <2>4, <3>2, <3>3 DEF PerformedBefore, Current
    <3> QED BY <1>9, <2>1, <3>1, <3>4 DEF OutcomeIs
  <2> QED BY <2>3, <2>4
<1>10. CASE d = c /\ ~Changes(op.req, out)
  <2>1. CASE op.id = clerk[c].id /\ outcome[c] = Pending
    <3>1. outcome'[c] = out
      BY <1>0, <1>1, <1>3, <2>1
    <3> QED BY <1>7, <1>10, <2>1, <3>1
  <2>2. CASE ~(op.id = clerk[c].id /\ outcome[c] = Pending)
    <3>1. outcome' = outcome
      BY <1>0, <1>10, <2>2
    <3> QED BY <1>6, <1>10, <2>2, <3>1
  <2> QED BY <2>1, <2>2
<1> QED BY <1>8, <1>9, <1>10

LEMMA CommitClerks ==
  ASSUME RsmInv, LogInv', NEW st, StatesAre(st), ClerksAre(st), NEW s \in Server, CommitOp(s), IsNews(s),
         NEW op, op = NextCommitted(s), NEW nx, nx = NextStates(st, op)
  PROVE  ClerksAre(nx)'
<1> DEFINE n == Len(committed)
<1>0. /\ Commit(s) /\ started' = started /\ clerk' = clerk /\ log' = log /\ late' = late
      /\ service' = DoOpData(service, op.req)
      /\ RaftTypes /\ ClerkTypes /\ late \subseteq LateType /\ service \in Data
  BY DEF CommitOp, Commit, RsmInv, Types, ClerkTypes
<1>1. /\ op \in Op /\ op.req \in Request /\ EntryIs(op)
      /\ n \in Nat /\ Len(committed') = n + 1 /\ committed'[n + 1] = op
      /\ \A i \in 1 .. n : committed'[i] = committed[i]
  BY <1>0, NewsIs
<1>2. ASSUME NEW req \in Request
      PROVE  (ReqKnown(req) => ReqKnown(req)') /\ (Harmless(req) => Harmless(req)')
  <2>1. /\ DoOpData(service, op.req) \in Data
        /\ \A k \in Key : DoOpData(service, op.req)[k].version >= service[k].version
    BY <1>0, <1>1, DoOpLeaves
  <2>2. \A k \in Key : service[k].version \in Nat /\ service'[k].version \in Nat
    BY <1>0, <2>1 DEF Data, Entry
  <2>3. service' \in Data /\ \A k \in Key : service[k].version =< service'[k].version
    BY <1>0, <2>1, <2>2
  <2> QED BY <1>0, <2>3, ReqsKept
<1>3. ASSUME NEW d \in Client PROVE ClerkState(d)' /\ OutcomeIs(nx, d)'
  <2>1. ClerkState(d)
    BY DEF ClerksAre
  <2>2. clerk[d].at # "idle" => ReqKnown(ReqOf(clerk[d]))'
    <3>1. ASSUME clerk[d].at # "idle" PROVE ReqKnown(ReqOf(clerk[d]))'
      <4>1. PICK req \in Request : req = ReqOf(clerk[d])
        BY <1>0, <3>1, ReqIs
      <4>2. ReqKnown(req)'
        BY <1>2, <2>1, <3>1, <4>1 DEF ClerkState
      <4> QED BY <1>0, <4>1, <4>2 DEF ReqKnown
    <3> QED BY <3>1
  <2>3. ClerkState(d)'
    BY <1>0, <2>1, <2>2 DEF ClerkState
  <2> QED BY <2>3, CommitOutcome
<1>4. ASSUME NEW e \in Op, EntryIs(e) PROVE EntryIs(e)'
  <2>1. e.req \in Request
    BY DEF Op
  <2> QED BY <1>0, <1>2, <1>4, <2>1 DEF EntryIs, Current
<1>5. ASSUME NEW q \in Seq(Op), EntriesAre(q) PROVE EntriesAre(q)'
  BY <1>4, <1>5, SeqFacts DEF EntriesAre
<1>6. ASSUME NEW m \in Server PROVE EntriesAre(log[m])'
  <2>1. PICK q \in Seq(Op) : q = log[m]
    BY <1>0 DEF RaftTypes
  <2>2. EntriesAre(q)'
    BY <1>5, <2>1 DEF ClerksAre
  <2> QED BY <1>0, <2>1, <2>2 DEF EntriesAre
<1>7. EntriesAre(committed)'
  <2>1. PICK q \in Seq(Op) : q = committed
    BY <1>0 DEF RaftTypes
  <2>2. EntriesAre(q)' /\ EntryIs(op)'
    BY <1>1, <1>4, <1>5, <2>1 DEF ClerksAre
  <2>3. PICK r : r = committed'
    OBVIOUS
  <2>4. ASSUME NEW i \in 1 .. Len(r) PROVE EntryIs(r[i])'
    <3>1. CASE i = n + 1
      BY <1>1, <2>2, <2>3, <3>1
    <3>2. CASE i # n + 1
      <4>1. i \in 1 .. Len(q) /\ r[i] = q[i]
        BY <1>1, <2>1, <2>3, <3>2
      <4> QED BY <2>2, <4>1 DEF EntriesAre
    <3> QED BY <3>1, <3>2
  <2>5. EntriesAre(r)'
    BY <2>4 DEF EntriesAre
  <2> QED BY <2>3, <2>5 DEF EntriesAre
<1>8. ASSUME NEW h \in late' PROVE LateIs(h)'
  <2>1. h.req \in Request /\ LateIs(h)
    BY <1>0, LateFields DEF ClerksAre
  <2> QED BY <1>0, <1>2, <2>1 DEF LateIs, Current
<1>9. CommittedInTime(nx)'
  <2>1. (\A i \in 0 .. n : nx[i] = st[i]) /\ st[n] = service
    BY <1>1 DEF NextStates, StatesAre
  <2> SUFFICES ASSUME NEW i \in 1 .. Len(committed'), committed'[i].req.op = "Put"
               PROVE  committed'[i].req.version =< nx[i - 1][committed'[i].req.key].version
    BY DEF CommittedInTime
  <2>2. CASE i = n + 1
    <3>1. nx[i - 1] = service /\ committed'[i] = op
      BY <1>1, <2>1, <2>2
    <3> QED BY <1>1, <3>1 DEF EntryIs, ReqKnown
  <2>3. CASE i # n + 1
    <3>1. i \in 1 .. n /\ i - 1 \in 0 .. n
      BY <1>1, <2>3
    <3>2. nx[i - 1] = st[i - 1] /\ committed'[i] = committed[i]
      BY <1>1, <2>1, <3>1
    <3> QED BY <3>1, <3>2 DEF ClerksAre, CommittedInTime
  <2> QED BY <2>2, <2>3
<1> QED BY <1>3, <1>6, <1>7, <1>8, <1>9 DEF ClerksAre

-----------------------------------------------------------------------------
(* THE REPLICAS AND THEIR ANSWERS *)

LEMMA ReplicaKept ==
  ASSUME NEW st, NEW s \in Server, ReplicaIs(st, s), committed' = committed, data'[s] = data[s],
         lastApplied'[s] = lastApplied[s], pending'[s] = pending[s], snapshot'[s] = snapshot[s],
         reader'[s] = reader[s]
  PROVE  ReplicaIs(st, s)'
BY DEF ReplicaIs, Result, Out

LEMMA AnswersKept ==
  ASSUME NEW st, \A g \in submits : AnswerIs(st, g), committed' = committed, submits' \subseteq submits
  PROVE  \A g \in submits' : AnswerIs(st, g)'
BY DEF AnswerIs, Result, Out

LEMMA StatesKept ==
  ASSUME NEW st, StatesAre(st), committed' = committed, service' = service
  PROVE  StatesAre(st)'
BY DEF StatesAre

\* Indices of a replica are within what is committed.
LEMMA ReplicaIndices ==
  ASSUME RsmInv, NEW s \in Server
  PROVE  /\ Len(committed) \in Nat
         /\ lastApplied[s] \in 0 .. Len(committed) /\ snapshot[s].index \in 0 .. Len(committed)
         /\ reader[s].at # "idle" => reader[s].index \in 0 .. Len(committed)
<1>1. /\ Len(committed) \in Nat /\ lastApplied[s] \in Nat /\ snapshot[s].index \in Nat /\ commitIndex[s] \in Nat
      /\ reader[s].index \in Nat /\ appliedIndex[s] \in Nat
  BY PeerFields, RsmFields DEF RsmInv, Types
<1>2. /\ lastApplied[s] =< commitIndex[s] /\ snapshot[s].index =< lastApplied[s]
      /\ commitIndex[s] =< Len(committed)
  BY DEF RsmInv, LogInv, PeerAgrees, Agrees
<1>3. appliedIndex[s] =< lastApplied[s] /\ (reader[s].at # "idle" => reader[s].index = appliedIndex[s])
  BY DEF RsmInv, ReaderInv, ReaderIs
<1> QED BY <1>1, <1>2, <1>3

LEMMA ReplicateHistory ==
  ASSUME RsmInv, NEW st, HistoryIs(st), Replicate, UNCHANGED <<rsmVars, late, clerk, started, service, outcome>>
  PROVE  HistoryIs(st)'
<1>0. /\ RaftTypes /\ data' = data /\ reader' = reader /\ submits' = submits /\ committed' = committed
  BY DEF RsmInv, Types, rsmVars, Replicate, BecomeLeader, StepDown, Adopt, AdoptSnapshot
<1>1. ASSUME NEW s \in Server PROVE ReplicaIs(st, s)'
  <2>0. ReplicaIs(st, s)
    BY DEF HistoryIs
  <2>1. CASE UNCHANGED <<lastApplied, snapshot, pending>>
    BY <1>0, <2>0, <2>1, ReplicaKept
  <2>2. ASSUME NEW m \in Server, NEW l \in Server, AdoptSnapshot(m, l) PROVE ReplicaIs(st, s)'
    <3>1. /\ lastApplied' = [lastApplied EXCEPT ![m] = snapshot[l].index]
          /\ snapshot' = [snapshot EXCEPT ![m] = snapshot[l]]
          /\ pending' = [pending EXCEPT ![m] = TRUE]
      BY <2>2 DEF AdoptSnapshot
    <3>2. CASE s # m
      <4>1. lastApplied'[s] = lastApplied[s] /\ snapshot'[s] = snapshot[s] /\ pending'[s] = pending[s]
        BY <1>0, <3>1, <3>2 DEF RaftTypes
      <4> QED BY <1>0, <2>0, <4>1, ReplicaKept
    <3>3. CASE s = m
      <4>1. snapshot'[s] = snapshot[l] /\ pending'[s] = TRUE
        BY <1>0, <3>1, <3>3 DEF RaftTypes
      <4>2. snapshot[l].data = st[snapshot[l].index]
        BY DEF HistoryIs, ReplicaIs
      <4> QED BY <1>0, <2>0, <4>1, <4>2 DEF ReplicaIs, Result, Out
    <3> QED BY <3>2, <3>3
  <2> QED BY <2>1, <2>2 DEF Replicate, BecomeLeader, StepDown, Adopt
<1>2. ASSUME NEW s \in Server PROVE EntriesAre(log'[s])
  <2>0. \A m \in Server : EntriesAre(log[m])
    BY DEF HistoryIs, ClerksAre
  <2>1. ASSUME NEW m \in Server, NEW l \in Server, log' = [log EXCEPT ![m] = log[l]] PROVE EntriesAre(log'[s])
    <3>1. log'[s] = log[s] \/ log'[s] = log[l]
      BY <1>0, <2>1 DEF RaftTypes
    <3> QED BY <2>0, <3>1
  <2>2. ASSUME NEW m \in Server, NEW l \in Server, log' = [log EXCEPT ![m] = SubSeq(log[l], 1, snapshot[l].index)]
        PROVE  EntriesAre(log'[s])
    <3> DEFINE i == snapshot[l].index
               q == SubSeq(log[l], 1, i)
    <3>1. i \in Nat /\ i =< Len(log[l]) /\ log[l] \in Seq(Op) /\ Len(log[l]) \in Nat
      BY <1>0, PeerFields DEF RsmInv, LogInv, PeerAgrees, Agrees
    <3>2. Len(q) = i /\ \A k \in 1 .. i : q[k] = log[l][k] /\ k \in 1 .. Len(log[l])
      BY <3>1, PrefixFacts
    <3> HIDE DEF i, q
    <3>3. EntriesAre(q)
      BY <2>0, <3>2 DEF EntriesAre
    <3>4. log'[s] = log[s] \/ log'[s] = q
      BY <1>0, <2>2 DEF RaftTypes, q, i
    <3> QED BY <2>0, <3>3, <3>4
  <2>3. CASE log' = log
    BY <2>0, <2>3
  <2> QED BY <2>1, <2>2, <2>3 DEF Replicate, BecomeLeader, StepDown, Adopt, AdoptSnapshot
<1>3. ClerksAre(st)'
  BY <1>0, <1>2, ClerksKept DEF HistoryIs
<1> QED BY <1>0, <1>1, <1>3, AnswersKept, StatesKept DEF HistoryIs

\* The steps of reader() and a restart: nothing for the Clerks.
LEMMA ReaderHistory ==
  ASSUME RsmInv, NEW st, HistoryIs(st), NEW s \in Server,
         UNCHANGED <<clerk, started, service, outcome, log, committed>>, late' \subseteq late,
         \A g \in submits' : AnswerIs(st, g)',
         \A m \in Server : m # s => /\ data'[m] = data[m] /\ lastApplied'[m] = lastApplied[m]
                                    /\ pending'[m] = pending[m] /\ snapshot'[m] = snapshot[m]
                                    /\ reader'[m] = reader[m],
         ReplicaIs(st, s)'
  PROVE  HistoryIs(st)'
<1>1. ASSUME NEW m \in Server PROVE ReplicaIs(st, m)'
  <2>1. CASE m # s
    BY <2>1, ReplicaKept DEF HistoryIs
  <2> QED BY <2>1
<1>2. ClerksAre(st)'
  BY ClerksKept DEF HistoryIs
<1> QED BY <1>1, <1>2, StatesKept DEF HistoryIs

LEMMA DoOpHistory ==
  ASSUME RsmInv, NEW st, HistoryIs(st), NEW s \in Server, ReaderDoOp(s)
  PROVE  HistoryIs(st)'
<1> DEFINE index == lastApplied[s] + 1
           op == Command(s)
           rd == [at |-> "notify", index |-> index, id |-> op.id, to |-> 0,
                  reply |-> DoOpReply(data[s], op.req)]
<1>0. /\ ~pending[s] /\ op = committed[index] /\ index \in 1 .. Len(committed)
      /\ \A m \in Server : lastApplied'[m] = IF m = s THEN index ELSE lastApplied[m]
      /\ data' = [data EXCEPT ![s] = DoOpData(data[s], op.req)]
      /\ reader' = [reader EXCEPT ![s] = rd]
      /\ UNCHANGED <<log, snapshot, pending, committed>>
  BY DoOpApplies DEF RsmInv
<1>1. UNCHANGED <<submits, late, clerk, started, service, outcome>>
  BY DEF ReaderDoOp
<1>2. data[s] = st[lastApplied[s]] /\ lastApplied[s] \in Nat /\ lastApplied[s] = index - 1
  BY <1>0, PeerFields DEF HistoryIs, ReplicaIs, RsmInv, Types
<1>3. st[index] = DoOpData(data[s], op.req) /\ DoOpReply(data[s], op.req) = Out(st, index)
  BY <1>0, <1>2 DEF HistoryIs, StatesAre, Out
<1>4. rd.at = "notify" /\ rd.index = index /\ rd.id = op.id /\ rd.reply = DoOpReply(data[s], op.req)
  OBVIOUS
<1> HIDE DEF rd, index, op
<1>5. /\ data'[s] = DoOpData(data[s], op.req) /\ reader'[s] = rd /\ lastApplied'[s] = index
      /\ \A m \in Server : m # s => /\ data'[m] = data[m] /\ lastApplied'[m] = lastApplied[m]
                                    /\ reader'[m] = reader[m]
  BY <1>0 DEF RsmInv, Types, RsmTypes
<1>7. ReplicaIs(st, s)'
  <2>1. reader'[s].id = op.id /\ reader'[s].reply = Out(st, index) /\ reader'[s].at = "notify"
        /\ reader'[s].index = index
    BY <1>3, <1>4, <1>5
  <2>2. Result(st, reader[s].id, reader[s].reply)'
    BY <1>0, <2>1 DEF Result, Out
  <2>3. snapshot[s].data = st[snapshot[s].index]
    BY DEF HistoryIs, ReplicaIs
  <2> QED BY <1>0, <1>3, <1>5, <2>1, <2>2, <2>3 DEF ReplicaIs
<1>8. \A g \in submits' : AnswerIs(st, g)'
  BY <1>0, <1>1, AnswersKept DEF HistoryIs
<1> QED BY <1>0, <1>1, <1>5, <1>7, <1>8, ReaderHistory

\* A goroutine in Submit() after something has been sent, and what it was before.
LEMMA SentTo ==
  ASSUME NEW S \in SUBSET SubmitType, NEW id \in Nat, NEW r \in ReplyType, NEW f \in Send(S, id, r)
  PROVE  \E g \in S : f.id = g.id /\ IF g.id = id THEN f.ch = r ELSE f = g
<1>1. PICK g \in S : /\ f.id = g.id /\ f.client = g.client /\ f.server = g.server
                     /\ f.index = g.index /\ f.term = g.term
                     /\ IF g.id = id THEN f = [g EXCEPT !.ch = r] /\ f.ch = r ELSE f = g
  BY SendIs, Zenon
<1>2. CASE g.id = id
  BY <1>1, <1>2
<1>3. CASE g.id # id
  BY <1>1, <1>3
<1> QED BY <1>2, <1>3

LEMMA NotifyHistory ==
  ASSUME RsmInv, NEW st, HistoryIs(st), NEW s \in Server, ReaderNotify(s) \/ ReaderSend(s)
  PROVE  HistoryIs(st)'
<1> DEFINE me == reader[s]
           snd == [me EXCEPT !.at = "send", !.to = waiter[s][me.index]]
<1>0. /\ UNCHANGED <<raftVars, data, late, clerk, started, service, outcome>>
      /\ me.at \in {"notify", "send"} /\ me \in ReaderType /\ me.index \in Nat
      /\ me.to \in Nat /\ me.reply \in ReplyType
      /\ reader' = [reader EXCEPT ![s] = Applied(me.index)] \/ reader' = [reader EXCEPT ![s] = snd]
  BY RsmFields DEF ReaderNotify, ReaderSend, RsmInv, Types
<1>1. snd.at = "send" /\ snd.index = me.index /\ snd.reply = me.reply /\ snd.id = me.id
  BY <1>0 DEF ReaderType
<1>2. Applied(me.index).at = "snapshot" /\ Applied(me.index).index = me.index
  BY <1>0, AppliedType
<1> HIDE DEF snd
<1>3. /\ reader'[s] = Applied(me.index) \/ reader'[s] = snd
      /\ \A m \in Server : m # s => reader'[m] = reader[m]
  BY <1>0 DEF RsmInv, Types, RsmTypes
<1>4. UNCHANGED <<log, committed, lastApplied, pending, snapshot>>
  BY <1>0 DEF raftVars
<1>5. ReplicaIs(st, s)'
  <2>1. /\ ReplicaIs(st, s) /\ data[s] = st[me.index] /\ Result(st, me.id, me.reply)
    BY <1>0 DEF HistoryIs, ReplicaIs
  <2>2. reader'[s].at \in {"notify", "send"} => reader'[s].id = me.id /\ reader'[s].reply = me.reply
    BY <1>1, <1>2, <1>3
  <2>3. reader'[s].at \in {"notify", "send"} => Result(st, reader[s].id, reader[s].reply)'
    BY <1>4, <2>1, <2>2 DEF Result, Out
  <2>4. reader'[s].index = me.index
    BY <1>1, <1>2, <1>3
  <2>5. snapshot[s].data = st[snapshot[s].index] /\ (~pending[s] => data[s] = st[lastApplied[s]])
    BY <2>1 DEF ReplicaIs
  <2> QED BY <1>0, <1>4, <2>1, <2>3, <2>4, <2>5 DEF ReplicaIs
<1>6. \A g \in submits' : AnswerIs(st, g)'
  <2>1. CASE ReaderNotify(s)
    BY <1>4, <2>1, AnswersKept DEF HistoryIs, ReaderNotify
  <2>2. CASE ReaderSend(s)
    <3>1. submits' = Send(submits, me.to, ResultFor(me)) /\ submits \in SUBSET SubmitType
      BY <2>2 DEF ReaderSend, RsmInv, Types, RsmTypes
    <3>2. ResultFor(me) \in ReplyType
      BY <1>0, ReplyConstants DEF ResultFor
    <3>3. ASSUME NEW f \in submits' PROVE AnswerIs(st, f)'
      <4>0. me.to \in Nat /\ f \in Send(submits, me.to, ResultFor(me))
        BY <1>0, <3>1
      <4>1. PICK g \in submits : /\ f.id = g.id
                                 /\ IF g.id = me.to THEN f.ch = ResultFor(me) ELSE f = g
        <5> HIDE DEF me
        <5> QED BY <3>1, <3>2, <4>0, SentTo
      <4>2. CASE g.id # me.to
        BY <1>4, <4>1, <4>2 DEF HistoryIs, AnswerIs, Result, Out
      <4>3. CASE g.id = me.to /\ me.to # me.id
        BY <4>1, <4>3 DEF AnswerIs, ResultFor
      <4>4. CASE g.id = me.to /\ me.to = me.id
        <5>1. f.ch = me.reply /\ f.id = me.id /\ Result(st, me.id, me.reply)
          BY <1>0, <4>1, <4>4 DEF ResultFor, HistoryIs, ReplicaIs
        <5> QED BY <1>4, <5>1 DEF AnswerIs, Result, Out
      <4> QED BY <4>2, <4>3, <4>4
    <3> QED BY <3>3
  <2> QED BY <2>1, <2>2
<1> QED BY <1>0, <1>3, <1>4, <1>5, <1>6, ReaderHistory

LEMMA SnapshotHistory ==
  ASSUME RsmInv, NEW st, HistoryIs(st), NEW s \in Server,
         ReaderSnapshot(s) \/ ReaderRestore(s) \/ Restart(s)
  PROVE  HistoryIs(st)'
<1>0. /\ ReplicaIs(st, s) /\ ReaderIs(s) /\ UNCHANGED <<clerk, started, service, outcome, log, committed>>
      /\ RaftTypes /\ RsmTypes /\ submits' \subseteq submits /\ late' \subseteq late
  BY DEF HistoryIs, RsmInv, ReaderInv, Types, ReaderSnapshot, TakeSnapshot, ReaderRestore, SendSnapshot,
         Restart, RestartPeer, raftVars
<1>1. \A g \in submits' : AnswerIs(st, g)'
  BY <1>0, AnswersKept DEF HistoryIs
<1>2. CASE ReaderSnapshot(s)
  <2>1. /\ reader' = [reader EXCEPT ![s] = AtRest] /\ UNCHANGED <<lastApplied, pending, data>>
        /\ reader[s].at = "snapshot"
        /\ \/ snapshot' = snapshot
           \/ snapshot' = [snapshot EXCEPT ![s] = [index |-> reader[s].index, data |-> data[s]]]
    BY <1>2 DEF ReaderSnapshot, TakeSnapshot, Snapshot, raftVars
  <2>2. /\ reader'[s].at = "idle" /\ \A m \in Server : m # s => reader'[m] = reader[m] /\ snapshot'[m] = snapshot[m]
        /\ \/ snapshot'[s] = snapshot[s]
           \/ snapshot'[s].index = reader[s].index /\ snapshot'[s].data = data[s]
    BY <1>0, <2>1, AppliedType DEF RsmTypes, RaftTypes
  <2>3. ReplicaIs(st, s)'
    BY <1>0, <2>1, <2>2 DEF ReplicaIs
  <2> QED BY <1>0, <1>1, <2>1, <2>2, <2>3, ReaderHistory
<1>3. CASE ReaderRestore(s)
  <2>1. /\ pending' = [pending EXCEPT ![s] = FALSE] /\ UNCHANGED <<lastApplied, snapshot, reader>>
        /\ reader[s].at = "idle" /\ pending[s]
    BY <1>3 DEF ReaderRestore, SendSnapshot
  <2>2. lastApplied[s] = snapshot[s].index /\ snapshot[s].index > appliedIndex[s]
    <3>1. lastApplied[s] = snapshot[s].index /\ appliedIndex[s] < lastApplied[s]
      BY <1>0, <2>1 DEF ReaderIs
    <3>2. lastApplied[s] \in Nat /\ appliedIndex[s] \in Nat
      BY <1>0, PeerFields, RsmFields
    <3> QED BY <3>1, <3>2
  <2>3. data' = [data EXCEPT ![s] = snapshot[s].data]
    BY <1>3, <2>2 DEF ReaderRestore, Restore
  <2>4. /\ data'[s] = snapshot[s].data /\ pending'[s] = FALSE
        /\ \A m \in Server : m # s => data'[m] = data[m] /\ pending'[m] = pending[m]
    BY <1>0, <2>1, <2>3 DEF RsmTypes, RaftTypes
  <2>5. ReplicaIs(st, s)'
    BY <1>0, <2>1, <2>2, <2>4 DEF ReplicaIs
  <2> QED BY <1>0, <1>1, <2>1, <2>4, <2>5, ReaderHistory
<1>4. CASE Restart(s)
  <2>1. /\ pending' = [pending EXCEPT ![s] = FALSE] /\ lastApplied' = [lastApplied EXCEPT ![s] = snapshot[s].index]
        /\ snapshot' = snapshot /\ reader' = [reader EXCEPT ![s] = AtRest]
        /\ data' = [data EXCEPT ![s] = snapshot[s].data]
    BY <1>4 DEF Restart, RestartPeer, Restore
  <2>2. /\ data'[s] = snapshot[s].data /\ pending'[s] = FALSE /\ lastApplied'[s] = snapshot[s].index
        /\ reader'[s].at = "idle"
    BY <1>0, <2>1, AppliedType DEF RsmTypes, RaftTypes
  <2>3. \A m \in Server : m # s => /\ data'[m] = data[m] /\ pending'[m] = pending[m]
                                   /\ lastApplied'[m] = lastApplied[m] /\ reader'[m] = reader[m]
    BY <1>0, <2>1 DEF RsmTypes, RaftTypes
  <2>4. ReplicaIs(st, s)'
    BY <1>0, <2>1, <2>2 DEF ReplicaIs
  <2> QED BY <1>0, <1>1, <2>1, <2>3, <2>4, ReaderHistory
<1> QED BY <1>2, <1>3, <1>4

\* A commit that is news extends the history, another one changes nothing.
LEMMA CommitHistory ==
  ASSUME RsmInv, RsmInv', NEW st, HistoryIs(st), NEW s \in Server, CommitOp(s)
  PROVE  ServiceInv'
<1>0. /\ Commit(s) /\ UNCHANGED <<rsmVars, late, clerk, started, log, lastApplied, pending, snapshot>>
      /\ StatesAre(st) /\ ClerksAre(st) /\ LogInv'
  BY DEF CommitOp, Commit, HistoryIs, RsmInv
<1>1. UNCHANGED <<data, reader, submits>>
  BY <1>0 DEF rsmVars
<1>2. CASE IsNews(s)
  <2>1. PICK op : op = NextCommitted(s)
    OBVIOUS
  <2>2. PICK nx : nx = NextStates(st, op)
    OBVIOUS
  <2>3. service' = DoOpData(service, op.req)
    BY <1>2, <2>1 DEF CommitOp
  <2>4. StatesAre(nx)' /\ \A i \in 0 .. Len(committed) : nx[i] = st[i]
    BY <1>0, <1>2, <2>1, <2>2, <2>3, CommitStates
  <2>5. ClerksAre(nx)'
    BY <1>0, <1>2, <2>1, <2>2, CommitClerks
  <2>6. \A id, r : Result(st, id, r) => Result(nx, id, r)'
    BY <1>0, <1>2, <2>1, <2>2, CommitOut
  <2>7. ASSUME NEW g \in submits' PROVE AnswerIs(nx, g)'
    BY <1>1, <2>6 DEF HistoryIs, AnswerIs
  <2>8. ASSUME NEW m \in Server PROVE ReplicaIs(nx, m)'
    <3>1. ReplicaIs(st, m)
      BY DEF HistoryIs
    <3>2. /\ nx[lastApplied[m]] = st[lastApplied[m]] /\ nx[snapshot[m].index] = st[snapshot[m].index]
          /\ reader[m].at # "idle" => nx[reader[m].index] = st[reader[m].index]
      BY <2>4, ReplicaIndices
    <3>3. reader[m].at \in {"notify", "send"} => Result(nx, reader[m].id, reader[m].reply)'
      <4>1. PICK id, r : id = reader[m].id /\ r = reader[m].reply
        OBVIOUS
      <4>2. reader[m].at \in {"notify", "send"} => Result(nx, id, r)'
        BY <2>6, <3>1, <4>1 DEF ReplicaIs
      <4> QED BY <1>1, <4>1, <4>2 DEF Result
    <3> QED BY <1>0, <1>1, <3>1, <3>2, <3>3 DEF ReplicaIs
  <2> QED BY <2>4, <2>5, <2>7, <2>8 DEF ServiceInv, HistoryIs
<1>3. CASE ~IsNews(s)
  <2>1. committed' = committed /\ service' = service /\ outcome' = outcome
    BY <1>3 DEF CommitOp, Commit
  <2>2. ClerksAre(st)'
    BY <1>0, <2>1, ClerksKept
  <2>3. \A m \in Server : ReplicaIs(st, m)'
    BY <1>0, <1>1, <2>1, ReplicaKept DEF HistoryIs
  <2>4. HistoryIs(st)'
    BY <1>1, <2>1, <2>2, <2>3, AnswersKept, StatesKept DEF HistoryIs
  <2> QED BY <2>4 DEF ServiceInv
<1> QED BY <1>2, <1>3

\* The Clerk's steps: nothing for the replicas.
LEMMA ClerkHistory ==
  ASSUME NEW st, HistoryIs(st), UNCHANGED <<data, reader, service, lastApplied, pending, snapshot, committed>>,
         \A g \in submits' : AnswerIs(st, g)', ClerksAre(st)'
  PROVE  HistoryIs(st)'
BY ReplicaKept, StatesKept DEF HistoryIs

\* A goroutine that ends with a result hands its Clerk what its operation came to.
LEMMA AnswerHistory ==
  ASSUME RsmInv, NEW st, HistoryIs(st), NEW g \in submits, SubmitReceive(g) \/ SubmitGivesUp(g)
  PROVE  HistoryIs(st)'
<1>0. /\ UNCHANGED <<data, reader, service, started, late>> /\ UNCHANGED raftVars /\ submits' \subseteq submits
  BY DEF SubmitReceive, SubmitGivesUp, Answer
<1>1. UNCHANGED <<lastApplied, pending, snapshot, committed, log>>
  BY <1>0 DEF raftVars
<1>2. \A f \in submits' : AnswerIs(st, f)'
  BY <1>0, <1>1, AnswersKept DEF HistoryIs
<1>3. g.client \in Client /\ g.ch \in ReplyType /\ StatesAre(st) /\ ClerksAre(st)
  BY SubmitFields DEF RsmInv, Types, HistoryIs
<1>4. \/ UNCHANGED <<clerk, outcome>>
      \/ clerk[g.client].at = "wait" /\ GoOn(g.client)
      \/ /\ clerk[g.client].at = "wait" /\ clerk[g.client].id = g.id /\ g.ch # Pending /\ g.ch # WrongLeader
         /\ Return(g.client, g.ch)
  BY DEF SubmitReceive, SubmitGivesUp, Answer
<1>5. CASE UNCHANGED <<clerk, outcome>>
  <2>1. ClerksAre(st)'
    BY <1>0, <1>1, <1>3, <1>5, ClerksKept
  <2> QED BY <1>0, <1>1, <1>2, <2>1, ClerkHistory
<1>6. CASE clerk[g.client].at = "wait" /\ GoOn(g.client)
  BY <1>0, <1>1, <1>2, <1>3, <1>6, GoOnClerks, ClerkHistory
<1>7. CASE /\ clerk[g.client].at = "wait" /\ clerk[g.client].id = g.id /\ g.ch # Pending /\ g.ch # WrongLeader
           /\ Return(g.client, g.ch)
  <2>1. Result(st, clerk[g.client].id, g.ch)
    BY <1>7 DEF HistoryIs, AnswerIs
  <2>2. ClerksAre(st)'
    BY <1>0, <1>1, <1>3, <1>7, <2>1, ReturnClerks
  <2> QED BY <1>0, <1>1, <1>2, <2>2, ClerkHistory
<1> QED BY <1>4, <1>5, <1>6, <1>7

\* Start() and the registration of the waiter: whoever is displaced has lost.
LEMMA StartAnswers ==
  ASSUME RsmInv, NEW st, HistoryIs(st), NEW s \in Server, NEW c, NEW id, NEW req, StartAndWait(s, c, id, req)
  PROVE  /\ UNCHANGED <<lastApplied, pending, snapshot, committed>>
         /\ \A f \in submits' : AnswerIs(st, f)'
<1> DEFINE index == IndexOf(s)
           new == [id |-> id, client |-> c, server |-> s, index |-> index, term |-> term[s], ch |-> Pending]
<1>1. UNCHANGED <<lastApplied, pending, snapshot, committed>> /\ submits' = Displaced(s, index) \cup {new}
  BY DEF StartAndWait, Start
<1>2. ASSUME NEW f \in submits' PROVE f.ch \in {Pending, WrongLeader} \/ f \in submits
  <2>1. CASE f = new
    BY <2>1
  <2>2. CASE f \in Displaced(s, index)
    BY <2>2 DEF Displaced, Send, RsmInv, Types, RsmTypes, SubmitType
  <2> QED BY <1>1, <2>1, <2>2
<1> QED BY <1>1, <1>2 DEF HistoryIs, AnswerIs, Result, Out

LEMMA SubmitHistory ==
  ASSUME RsmInv, NEW st, HistoryIs(st), NEW c \in Client, Submit(c)
  PROVE  HistoryIs(st)'
<1> DEFINE me == clerk[c]
           s  == me.leader
           id == started + 1
           op == [id |-> id, client |-> c, req |-> ReqOf(me)]
<1>0. me.at = "call" /\ UNCHANGED <<data, appliedIndex, reader, late, service>> /\ StatesAre(st) /\ ClerksAre(st)
  BY DEF Submit, HistoryIs
<1>1. CASE ~leader[s] /\ GoOn(c) /\ UNCHANGED <<raftVars, waiter, submits, started>>
  <2>1. UNCHANGED <<lastApplied, pending, snapshot, committed, log>>
    BY <1>1 DEF raftVars
  <2>2. ClerksAre(st)'
    BY <1>0, <1>1, <2>1, GoOnClerks
  <2>3. \A f \in submits' : AnswerIs(st, f)'
    BY <1>1, <2>1, AnswersKept DEF HistoryIs
  <2> QED BY <1>0, <2>1, <2>2, <2>3, ClerkHistory
<1>2. CASE /\ StartAndWait(s, c, id, ReqOf(me))
           /\ clerk' = [clerk EXCEPT ![c].at = "wait", ![c].id = id]
           /\ UNCHANGED outcome
  <2>1. s \in Server /\ started \in Nat /\ ReqOf(me) \in Request
    BY <1>0, ClerkFields, ReqIs, KVRaftAssumption DEF RsmInv, Types, ClerkTypes
  <2>2. op \in Op /\ op.id = started + 1 /\ op.client = c /\ op.req = ReqOf(me)
    BY <2>1 DEF Op
  <2>3. PICK e \in Op : e = op
    BY <2>2
  <2>4. ClerksAre(st)'
    <3>1. e.id = started + 1 /\ e.client = c /\ e.req = ReqOf(clerk[c])
      BY <2>2, <2>3
    <3>2. Start(s, e) /\ started' = started + 1
      BY <1>2, <2>3 DEF StartAndWait
    <3>3. clerk' = [clerk EXCEPT ![c].at = "wait", ![c].id = e.id]
      BY <1>2, <3>1
    <3> HIDE DEF op, s
    <3> QED BY <1>0, <1>2, <2>1, <3>1, <3>2, <3>3, StartClerks
  <2>5. UNCHANGED <<lastApplied, pending, snapshot, committed>> /\ \A f \in submits' : AnswerIs(st, f)'
    BY <1>2, <2>1, StartAnswers
  <2> QED BY <1>0, <2>4, <2>5, ClerkHistory
<1> QED BY <1>1, <1>2 DEF Submit

LEMMA LateSubmitHistory ==
  ASSUME RsmInv, NEW st, HistoryIs(st), NEW h \in late, LateSubmit(h)
  PROVE  HistoryIs(st)'
<1> DEFINE s  == h.server
           op == [id |-> started + 1, client |-> h.client, req |-> h.req]
<1>0. UNCHANGED <<data, appliedIndex, reader, clerk, service, outcome>> /\ late' \subseteq late /\ ClerksAre(st)
  BY DEF LateSubmit, HistoryIs
<1>1. CASE ~leader[s] /\ UNCHANGED <<raftVars, waiter, submits, started>>
  <2>1. UNCHANGED <<lastApplied, pending, snapshot, committed, log>>
    BY <1>1 DEF raftVars
  <2>2. ClerksAre(st)'
    BY <1>0, <1>1, <2>1, ClerksKept
  <2>3. \A f \in submits' : AnswerIs(st, f)'
    BY <1>1, <2>1, AnswersKept DEF HistoryIs
  <2> QED BY <1>0, <2>1, <2>2, <2>3, ClerkHistory
<1>2. CASE StartAndWait(s, h.client, started + 1, h.req)
  <2>1. s \in Server /\ h.client \in Client /\ h.req \in Request /\ started \in Nat
    BY LateFields, KVRaftAssumption DEF RsmInv, Types, ClerkTypes
  <2>2. op \in Op /\ op.id = started + 1 /\ op.client = h.client /\ op.req = h.req
    BY <2>1 DEF Op
  <2>3. PICK e \in Op : e = op
    BY <2>2
  <2>4. ClerksAre(st)'
    <3>1. e.id = started + 1 /\ e.client = h.client /\ e.req = h.req
      BY <2>2, <2>3
    <3>2. Start(s, e) /\ started' = started + 1
      BY <1>2, <2>3 DEF StartAndWait
    <3> HIDE DEF op, s
    <3> QED BY <1>0, <2>1, <3>1, <3>2, LateClerks
  <2>5. UNCHANGED <<lastApplied, pending, snapshot, committed>> /\ \A f \in submits' : AnswerIs(st, f)'
    BY <1>2, <2>1, StartAnswers
  <2> QED BY <1>0, <2>4, <2>5, ClerkHistory
<1> QED BY <1>1, <1>2 DEF LateSubmit

LEMMA InitService ==
  ASSUME Init
  PROVE  ServiceInv
<1>0. PICK st : st = [i \in Nat |-> NoData]
  OBVIOUS
<1>1. NoData \in Data
  BY DEF NoData, Data, Entry
<1>2. /\ committed = <<>> /\ Len(committed) = 0 /\ \A i : i \notin 1 .. Len(committed)
      /\ service = NoData /\ submits = {} /\ late = {} /\ log = [s \in Server |-> <<>>] /\ Len(<<>>) = 0
      /\ started = 0 /\ outcome = [c \in Client |-> Pending] /\ clerk = [c \in Client |-> Rest(0, Pending)]
      /\ data = [s \in Server |-> NoData] /\ reader = [s \in Server |-> AtRest]
      /\ lastApplied = [s \in Server |-> 0] /\ snapshot = [s \in Server |-> [index |-> 0, data |-> NoData]]
  BY DEF Init, RaftInit
<1>3. StatesAre(st)
  <2>1. st \in [Nat -> Data] /\ st[0] = NoData /\ \A k \in Key : NoData[k].version =< NoData[k].version
    BY <1>0, <1>1 DEF NoData
  <2>2. \A i \in 0 .. Len(committed) : st[i] = NoData
    BY <1>0, <1>2
  <2> QED BY <1>2, <2>1, <2>2 DEF StatesAre
<1>4. ASSUME NEW s \in Server PROVE ReplicaIs(st, s)
  BY <1>0, <1>2, AppliedType DEF ReplicaIs
<1>5. ASSUME NEW c \in Client PROVE ClerkState(c) /\ OutcomeIs(st, c)
  <2>1. clerk[c] = Rest(0, Pending) /\ outcome[c] = Pending
    BY <1>2
  <2>2. clerk[c].at = "idle" /\ clerk[c].op = "none" /\ clerk[c].id = 0
    BY <2>1 DEF Rest
  <2> QED BY <1>2, <2>1, <2>2 DEF ClerkState, OutcomeIs
<1>6. (\A s \in Server : EntriesAre(log[s])) /\ EntriesAre(committed) /\ CommittedInTime(st)
  BY <1>2 DEF EntriesAre, CommittedInTime
<1> QED BY <1>2, <1>3, <1>4, <1>5, <1>6 DEF ServiceInv, HistoryIs, ClerksAre

LEMMA NextService ==
  ASSUME RsmInv, RsmInv', ServiceInv, [Next]_vars
  PROVE  ServiceInv'
<1>0. PICK st : HistoryIs(st)
  BY DEF ServiceInv
<1> USE <1>0
<1>1. HistoryIs(st)' => ServiceInv'
  BY DEF ServiceInv
<1>2. StatesAre(st) /\ ClerksAre(st)
  BY DEF HistoryIs
<1>3. CASE Replicate /\ UNCHANGED <<rsmVars, late, clerk, started, service, outcome>>
  BY <1>1, <1>2, <1>3, ReplicateHistory
<1>4. ASSUME NEW s \in Server, CommitOp(s) PROVE ServiceInv'
  BY <1>4, CommitHistory
<1>5. ASSUME NEW s \in Server, ReaderDoOp(s) PROVE ServiceInv'
  BY <1>1, <1>2, <1>5, DoOpHistory
<1>6. ASSUME NEW s \in Server, ReaderNotify(s) \/ ReaderSend(s) PROVE ServiceInv'
  BY <1>1, <1>2, <1>6, NotifyHistory
<1>7. ASSUME NEW s \in Server, ReaderSnapshot(s) \/ ReaderRestore(s) \/ Restart(s) PROVE ServiceInv'
  BY <1>1, <1>2, <1>7, SnapshotHistory
<1>8. ASSUME NEW g \in submits, SubmitReceive(g) \/ SubmitGivesUp(g) PROVE ServiceInv'
  BY <1>1, <1>8, AnswerHistory
<1>9. ASSUME NEW c \in Client, Submit(c) PROVE ServiceInv'
  BY <1>1, <1>9, SubmitHistory
<1>10. ASSUME NEW h \in late, LateSubmit(h) PROVE ServiceInv'
  BY <1>1, <1>10, LateSubmitHistory
<1>11. ASSUME NEW c \in Client, CallFails(c) \/ CallAbandoned(c) PROVE ServiceInv'
  <2>1. /\ UNCHANGED <<raftVars, rsmVars, started, service>> /\ GoOn(c) /\ clerk[c].at # "idle"
        /\ \A h \in late' : h \in late \/ (h.client = c /\ h.req = ReqOf(clerk[c]))
    <3>1. CASE CallFails(c)
      BY <3>1 DEF CallFails
    <3>2. CASE CallAbandoned(c)
      BY <3>2 DEF CallAbandoned
    <3> QED BY <1>11, <3>1, <3>2
  <2>2. UNCHANGED <<data, reader, submits, service, lastApplied, pending, snapshot, committed, log, started>>
    BY <2>1 DEF raftVars, rsmVars
  <2>3. ClerksAre(st)'
    BY <1>2, <2>1, <2>2, GoOnClerks
  <2>4. \A g \in submits' : AnswerIs(st, g)'
    BY <2>2, AnswersKept DEF HistoryIs
  <2> QED BY <1>1, <2>2, <2>3, <2>4, ClerkHistory
<1>12. ASSUME NEW c \in Client, NEW op, NEW key, NEW value, NEW version, Begin(c, op, key, value, version),
              op = "Put" => version =< service[key].version
       PROVE  ServiceInv'
  <2>1. UNCHANGED <<raftVars, rsmVars, service>>
    BY <1>12 DEF Begin
  <2>2. UNCHANGED <<data, reader, submits, service, lastApplied, pending, snapshot, committed>>
    BY <2>1 DEF raftVars, rsmVars
  <2>3. ClerksAre(st)'
    BY <1>2, <1>12, BeginClerks
  <2>4. \A g \in submits' : AnswerIs(st, g)'
    BY <2>2, AnswersKept DEF HistoryIs
  <2> QED BY <1>1, <2>2, <2>3, <2>4, ClerkHistory
<1>13. ASSUME NEW c \in Client, NEW key, Get(c, key) PROVE ServiceInv'
  BY <1>12, <1>13 DEF Get
<1>14. ASSUME NEW c \in Client, NEW key, NEW value, NEW version, Put(c, key, value, version) PROVE ServiceInv'
  BY <1>12, <1>14 DEF Put
<1>15. CASE UNCHANGED vars
  <2>1. UNCHANGED <<data, reader, submits, late, service, lastApplied, pending, snapshot, committed, log, started, clerk, outcome>>
    BY <1>15 DEF vars, raftVars, rsmVars
  <2>2. ClerksAre(st)'
    BY <1>2, <2>1, ClerksKept
  <2>3. \A g \in submits' : AnswerIs(st, g)'
    BY <2>1, AnswersKept DEF HistoryIs
  <2> QED BY <1>1, <2>1, <2>2, <2>3, ClerkHistory
<1>16. Crashing \subseteq Server /\ Getter \subseteq Client /\ Putter \subseteq Client
  BY KVRaftAssumption
<1> QED BY <1>3, <1>4, <1>5, <1>6, <1>7, <1>8, <1>9, <1>10, <1>11, <1>13, <1>14, <1>15, <1>16 DEF Next

-----------------------------------------------------------------------------
(* THE REFINEMENT MAPPING *)

\* The variables of KVService.
OpAt(c)  == [call |-> CallOf(clerk[c]), outcome |-> outcome[c]]
ResAt(c) == IF clerk[c].at = "idle" THEN clerk[c].reply ELSE Pending
OpMap  == [c \in Client |-> OpAt(c)]
ResMap == [c \in Client |-> ResAt(c)]

\* A step that touches the Clerk c alone.
LEMMA OneClerkMaps ==
  ASSUME NEW c \in Client,
         \A d \in Client : d # c => clerk'[d] = clerk[d] /\ outcome'[d] = outcome[d]
  PROVE  /\ OpMap' = [OpMap EXCEPT ![c] = OpAt(c)']
         /\ ResMap' = [ResMap EXCEPT ![c] = ResAt(c)']
<1>1. \A d \in Client : d # c => OpAt(d)' = OpAt(d) /\ ResAt(d)' = ResAt(d)
  BY DEF OpAt, ResAt
<1>2. OpMap' = [d \in Client |-> OpAt(d)'] /\ ResMap' = [d \in Client |-> ResAt(d)']
  BY DEF OpMap, ResMap
<1> QED BY <1>1, <1>2 DEF OpMap, ResMap

LEMMA MapsKept ==
  ASSUME UNCHANGED <<clerk, outcome>>
  PROVE  OpMap' = OpMap /\ ResMap' = ResMap
BY DEF OpMap, ResMap, OpAt, ResAt

LEMMA IsStutter ==
  ASSUME OpMap' = OpMap, ResMap' = ResMap, service' = service
  PROVE  UNCHANGED Service!vars
BY Zenon DEF Service!vars, OpMap, ResMap, OpAt, ResAt

\* The actions of KVService under the mapping.
LEMMA IsInvoke ==
  ASSUME NEW c \in Client, NEW call \in Service!Call,
         OpMap[c].call = Service!NoOp,
         OpMap'[c].call = call,
         OpMap' = [OpMap EXCEPT ![c] = [call |-> call, outcome |-> Service!Pending]],
         ResMap' = [ResMap EXCEPT ![c] = Service!Pending],
         UNCHANGED service
  PROVE  Service!Invoke(c)
BY Zenon DEF Service!Invoke, OpMap, ResMap, OpAt, ResAt

LEMMA IsPerform ==
  ASSUME NEW c \in Client, NEW call, NEW out,
         call = OpMap[c].call, out = Service!Outcome(service[call.key], call),
         call # Service!NoOp, OpMap[c].outcome = Service!Pending,
         OpMap' = [OpMap EXCEPT ![c].outcome = out],
         service' = IF Service!Changes(call, out)
                      THEN [service EXCEPT ![call.key] = [value |-> call.value, version |-> @.version + 1]]
                      ELSE service,
         ResMap' = ResMap
  PROVE  Service!Perform(c)
BY Zenon DEF Service!Perform, OpMap, ResMap, OpAt, ResAt

LEMMA IsTryAgain ==
  ASSUME NEW c \in Client,
         OpMap[c].call # Service!NoOp, OpMap[c].outcome # Service!Pending,
         ~Service!Changes(OpMap[c].call, OpMap[c].outcome),
         OpMap' = [OpMap EXCEPT ![c].outcome = Service!Pending],
         UNCHANGED service, ResMap' = ResMap
  PROVE  Service!TryAgain(c)
BY Zenon DEF Service!TryAgain, OpMap, ResMap, OpAt, ResAt

LEMMA IsReturn ==
  ASSUME NEW c \in Client, NEW call, NEW out, NEW r,
         call = OpMap[c].call, out = OpMap[c].outcome,
         call # Service!NoOp, out # Service!Pending,
         r \in {out} \cup IF call.type = "Put" /\ out.err \in {"OK", "ErrVersion"}
                            THEN {[err |-> "ErrMaybe", value |-> NoValue, version |-> 0]} ELSE {},
         ResMap' = [ResMap EXCEPT ![c] = r],
         OpMap' = [OpMap EXCEPT ![c] = [call |-> Service!NoOp, outcome |-> Service!Pending]],
         UNCHANGED service
  PROVE  Service!Return(c)
BY Zenon DEF Service!Return, OpMap, ResMap, OpAt, ResAt

\* The call of a Clerk, by its operation.
LEMMA CallIs ==
  ASSUME NEW me, me.op \in {"Get", "Put"}
  PROVE  /\ CallOf(me).type = me.op /\ CallOf(me).key = me.key /\ CallOf(me) # Service!NoOp
         /\ me.op = "Put" => CallOf(me).value = me.value /\ CallOf(me).version = me.version
<1>1. CASE me.op = "Get"
  <2>1. CallOf(me) = [type |-> "Get", key |-> me.key]
    BY <1>1 DEF CallOf
  <2> QED BY <1>1, <2>1 DEF Service!NoOp
<1>2. CASE me.op = "Put"
  <2>1. CallOf(me) = [type |-> "Put", key |-> me.key, value |-> me.value, version |-> me.version]
    BY <1>2 DEF CallOf
  <2> QED BY <1>2, <2>1 DEF Service!NoOp
<1> QED BY <1>1, <1>2

LEMMA PendingIs == Service!Pending = Pending
BY DEF Service!Pending, Pending, Reply

\* DoOp() gives a call the outcome that KVService says.
LEMMA DoOpOutcome ==
  ASSUME NEW d \in Data, NEW me, NEW req \in Request, req = ReqOf(me)
  PROVE  /\ DoOpReply(d, req) = Service!Outcome(d[CallOf(me).key], CallOf(me))
         /\ Changes(req, DoOpReply(d, req)) <=> Service!Changes(CallOf(me), DoOpReply(d, req))
         /\ DoOpData(d, req) = IF Service!Changes(CallOf(me), DoOpReply(d, req))
                                 THEN [d EXCEPT ![CallOf(me).key] = [value |-> CallOf(me).value, version |-> @.version + 1]]
                                 ELSE d
         /\ me.op \in {"Get", "Put"}
<1>1. /\ req.op = me.op /\ req.key = me.key /\ req.value = me.value /\ req.version = me.version
      /\ me.op \in {"Get", "Put"} /\ me.key \in Key /\ d[me.key] \in Entry
      /\ d[me.key].version \in Nat /\ me.version \in Nat
  BY DEF ReqOf, Request, Data, Entry
<1>2. /\ CallOf(me).type = me.op /\ CallOf(me).key = me.key
      /\ me.op = "Put" => CallOf(me).value = me.value /\ CallOf(me).version = me.version
  BY <1>1, CallIs
<1>3. DoOpReply(d, req) = Service!Outcome(d[me.key], CallOf(me))
  <2>1. CASE me.op = "Get"
    BY <1>1, <1>2, <2>1 DEF DoOpReply, Reply, Service!Outcome
  <2>2. CASE me.op = "Put"
    BY <1>1, <1>2, <2>2 DEF DoOpReply, Reply, Service!Outcome
  <2> QED BY <1>1, <2>1, <2>2
<1> DEFINE out == DoOpReply(d, req)
<1> HIDE DEF out
<1>4. Changes(req, out) <=> Service!Changes(CallOf(me), out)
  BY <1>1, <1>2 DEF Changes, Service!Changes
<1>5. Changes(req, out) => req.op = "Put"
  BY DEF Changes
<1>6. DoOpData(d, req) = IF Changes(req, out)
                           THEN [d EXCEPT ![req.key] = [value |-> req.value, version |-> @.version + 1]] ELSE d
  BY DEF DoOpData, out
<1>7. DoOpData(d, req) = IF Service!Changes(CallOf(me), out)
                           THEN [d EXCEPT ![CallOf(me).key] = [value |-> CallOf(me).value, version |-> @.version + 1]] ELSE d
  <2>1. CASE Changes(req, out)
    <3>1. req.key = CallOf(me).key /\ req.value = CallOf(me).value
      BY <1>1, <1>2, <1>5, <2>1
    <3> QED BY <1>4, <1>6, <2>1, <3>1
  <2>2. CASE ~Changes(req, out)
    BY <1>4, <1>6, <2>2
  <2> QED BY <2>1, <2>2
<1> QED BY <1>1, <1>2, <1>3, <1>4, <1>7 DEF out

\* An operation that is committed for the first time takes effect if it is a Put whose version
\* fits, or what its Clerk waits for and has come to nothing yet: both are the Clerk's call.
LEMMA CommitPerforms ==
  ASSUME RsmInv, LogInv', NEW st, HistoryIs(st), NEW s \in Server, CommitOp(s)
  PROVE  (\E c \in Client : Service!Perform(c)) \/ UNCHANGED Service!vars
<1>0. /\ StatesAre(st) /\ ClerksAre(st) /\ service \in Data /\ outcome \in [Client -> ReplyType]
      /\ Commit(s) /\ started' = started /\ clerk' = clerk
  BY DEF HistoryIs, RsmInv, Types, ClerkTypes, CommitOp
<1>1. PICK op : op = NextCommitted(s)
  OBVIOUS
<1>2. PICK out : out = DoOpReply(service, op.req)
  OBVIOUS
<1>3. CASE ~IsNews(s)
  <2>1. service' = service /\ outcome' = outcome
    BY <1>3 DEF CommitOp
  <2> QED BY <1>0, <2>1, MapsKept, IsStutter
<1>4. CASE IsNews(s)
  <2>1. PICK c : c = op.client
    OBVIOUS
  <2>2. c \in Client /\ op.req \in Request /\ EntryIs(op)
    BY <1>0, <1>1, <1>4, <2>1, NewsIs
  <2>3. /\ service' = DoOpData(service, op.req)
        /\ outcome' = IF \/ Changes(op.req, out)
                         \/ op.id = clerk[c].id /\ outcome[c] = Pending
                        THEN [outcome EXCEPT ![c] = out] ELSE outcome
    BY <1>1, <1>2, <1>4, <2>1, <2>2 DEF CommitOp
  <2>4. CASE Changes(op.req, out) \/ (op.id = clerk[c].id /\ outcome[c] = Pending)
    <3>1. outcome[c] = Pending /\ op.req = ReqOf(clerk[c])
      <4>1. CASE Changes(op.req, out)
        BY <1>0, <1>1, <1>2, <1>4, <2>1, <4>1, FirstChange DEF Current
      <4>2. CASE op.id = clerk[c].id /\ outcome[c] = Pending
        BY <2>2, <4>2 DEF EntryIs
      <4> QED BY <2>4, <4>1, <4>2
    <3>2. PICK call : call = CallOf(clerk[c])
      OBVIOUS
    <3>3. /\ out = Service!Outcome(service[call.key], call)
          /\ service' = IF Service!Changes(call, out)
                          THEN [service EXCEPT ![call.key] = [value |-> call.value, version |-> @.version + 1]]
                          ELSE service
          /\ clerk[c].op \in {"Get", "Put"}
      BY <1>0, <1>2, <2>2, <2>3, <3>1, <3>2, DoOpOutcome
    <3>4. call # Service!NoOp
      BY <3>2, <3>3, CallIs
    <3>5. OpMap[c] = [call |-> call, outcome |-> Service!Pending]
      BY <2>2, <3>1, <3>2, PendingIs DEF OpMap, OpAt
    <3>6. outcome'[c] = out /\ \A d \in Client : d # c => outcome'[d] = outcome[d]
      BY <1>0, <2>2, <2>3, <2>4
    <3>7. OpMap' = [OpMap EXCEPT ![c] = OpAt(c)'] /\ ResMap' = [ResMap EXCEPT ![c] = ResAt(c)']
      BY <1>0, <2>2, <3>6, OneClerkMaps
    <3>8. OpAt(c)' = [call |-> call, outcome |-> out] /\ ResAt(c)' = ResAt(c)
      BY <1>0, <3>2, <3>6 DEF OpAt, ResAt
    <3>9. ResMap' = ResMap
      BY <2>2, <3>7, <3>8 DEF ResMap
    <3>10. OpMap' = [OpMap EXCEPT ![c].outcome = out]
      <4>1. [OpMap[c] EXCEPT !.outcome = out] = [call |-> call, outcome |-> out]
        BY <3>5
      <4> QED BY <3>7, <3>8, <4>1
    <3>11. OpMap[c].call = call /\ OpMap[c].outcome = Service!Pending
      BY <3>5
    <3> QED BY <2>2, <3>3, <3>4, <3>9, <3>10, <3>11, IsPerform
  <2>5. CASE ~(Changes(op.req, out) \/ (op.id = clerk[c].id /\ outcome[c] = Pending))
    <3>1. outcome' = outcome /\ service' = service
      BY <1>0, <1>2, <2>2, <2>3, <2>5, DoOpLeaves
    <3> QED BY <1>0, <3>1, MapsKept, IsStutter
  <2> QED BY <2>4, <2>5
<1> QED BY <1>3, <1>4

\* A Clerk that goes on to the next server may try again what has changed nothing.
LEMMA GoOnTriesAgain ==
  ASSUME RsmInv, NEW c \in Client, clerk[c].at # "idle", GoOn(c), service' = service
  PROVE  Service!TryAgain(c) \/ UNCHANGED Service!vars
<1> DEFINE me == clerk[c]
           call == CallOf(me)
           out == outcome[c]
<1>0. ClerkTypes /\ me.op \in {"Get", "Put"}
  BY DEF RsmInv, Types, ClerkTypes
<1>1. /\ clerk'[c].at = "call" /\ clerk'[c].op = me.op /\ clerk'[c].key = me.key
      /\ clerk'[c].value = me.value /\ clerk'[c].version = me.version
      /\ outcome'[c] = (IF Changes(me, out) THEN out ELSE Pending)
      /\ \A d \in Client : d # c => clerk'[d] = clerk[d] /\ outcome'[d] = outcome[d]
  BY <1>0, GoOnIs
<1>2. OpMap' = [OpMap EXCEPT ![c] = OpAt(c)'] /\ ResMap' = [ResMap EXCEPT ![c] = ResAt(c)']
  BY <1>1, OneClerkMaps
<1>3. CallOf(clerk'[c]) = call
  BY <1>0, <1>1 DEF CallOf
<1>4. ResMap' = ResMap
  <2>1. ResAt(c)' = Pending /\ ResAt(c) = Pending
    BY <1>1 DEF ResAt
  <2> QED BY <1>2, <2>1 DEF ResMap
<1>5. OpAt(c)' = [call |-> call, outcome |-> outcome'[c]] /\ OpMap[c] = [call |-> call, outcome |-> out]
  BY <1>3 DEF OpAt, OpMap
<1>6. call # Service!NoOp /\ call.type = me.op
  BY <1>0, CallIs
<1>7. Service!Changes(call, out) <=> Changes(me, out)
  BY <1>6 DEF Service!Changes, Changes
<1> HIDE DEF me, call, out
<1>8. CASE outcome'[c] = out
  <2>1. OpMap' = OpMap
    BY <1>2, <1>5, <1>8 DEF OpMap
  <2> QED BY <1>4, <2>1, IsStutter
<1>9. CASE outcome'[c] # out
  <2>1. outcome'[c] = Pending /\ out # Pending /\ ~Service!Changes(call, out)
    BY <1>1, <1>7, <1>9
  <2>2. OpMap' = [OpMap EXCEPT ![c].outcome = Service!Pending]
    <3>1. [OpMap[c] EXCEPT !.outcome = Service!Pending] = [call |-> call, outcome |-> Service!Pending]
      BY <1>5
    <3>2. OpAt(c)' = [call |-> call, outcome |-> Service!Pending]
      BY <1>5, <2>1, PendingIs
    <3> QED BY <1>2, <3>1, <3>2
  <2>3. OpMap[c].call = call /\ OpMap[c].outcome = out
    BY <1>5
  <2> QED BY <1>4, <1>6, <2>1, <2>2, <2>3, PendingIs, IsTryAgain
<1> QED BY <1>8, <1>9

\* A Get() or Put() that begins is an operation invoked.
LEMMA BeginInvokes ==
  ASSUME RsmInv, NEW st, ClerksAre(st), NEW c \in Client, NEW op \in {"Get", "Put"}, NEW key \in Key,
         NEW value \in Value \cup {NoValue}, NEW version \in Nat, Begin(c, op, key, value, version),
         op = "Put" => version =< service[key].version
  PROVE  Service!Invoke(c)
<1>0. ClerkTypes /\ outcome[c] = Pending /\ outcome' = outcome /\ service' = service
  BY BeginClerks DEF RsmInv, Types, Begin
<1>1. /\ clerk[c].at = "idle" /\ clerk'[c].at = "call"
      /\ clerk'[c].op = op /\ clerk'[c].key = key /\ clerk'[c].value = value /\ clerk'[c].version = version
      /\ \A d \in Client : d # c => clerk'[d] = clerk[d]
  BY <1>0, BeginIs
<1>2. OpMap' = [OpMap EXCEPT ![c] = OpAt(c)'] /\ ResMap' = [ResMap EXCEPT ![c] = ResAt(c)']
  BY <1>0, <1>1, OneClerkMaps
<1>3. OpMap[c].call = Service!NoOp
  <2>1. clerk[c].op = "none"
    BY <1>1 DEF ClerksAre, ClerkState
  <2> QED BY <2>1 DEF OpMap, OpAt, CallOf, Service!NoOp
<1>4. PICK call : call = CallOf(clerk'[c])
  OBVIOUS
<1>5. call \in Service!Call
  <2>1. CASE op = "Get"
    BY <1>1, <1>4, <2>1 DEF CallOf, Service!Call
  <2>2. CASE op = "Put"
    BY <1>1, <1>4, <2>2 DEF CallOf, Service!Call
  <2> QED BY <2>1, <2>2
<1>6. OpAt(c)' = [call |-> call, outcome |-> Service!Pending] /\ ResAt(c)' = Service!Pending
  BY <1>0, <1>1, <1>4, PendingIs DEF OpAt, ResAt
<1>7. OpMap'[c].call = call
  <2>1. OpMap'[c] = [call |-> call, outcome |-> Service!Pending]
    BY <1>2, <1>6 DEF OpMap
  <2> QED BY <2>1
<1> QED BY <1>0, <1>2, <1>3, <1>5, <1>6, <1>7, IsInvoke

\* What Get() or Put() returns is the outcome, or ErrMaybe for a Put that was performed or
\* that met another version.
LEMMA ReturnReturns ==
  ASSUME RsmInv, NEW st, StatesAre(st), ClerksAre(st), NEW c \in Client, clerk[c].at = "wait",
         NEW r \in ReplyType, Result(st, clerk[c].id, r), Return(c, r), service' = service
  PROVE  Service!Return(c)
<1> DEFINE maybe == [err |-> "ErrMaybe", value |-> NoValue, version |-> 0]
<1>0. ClerkTypes /\ clerk[c].op \in {"Get", "Put"}
  BY DEF RsmInv, Types, ClerkTypes
<1>1. PICK me : me = clerk[c]
  OBVIOUS
<1>2. PICK i \in 1 .. Len(committed) : committed[i].id = me.id /\ r = Out(st, i)
  BY <1>1 DEF Result
<1>3. committed[i].req = ReqOf(me) /\ committed[i].req \in Request /\ committed[i].req.op = me.op
  <2>1. committed[i].req \in Request /\ EntryIs(committed[i])
    BY CommittedIds DEF ClerksAre, EntriesAre
  <2>2. committed[i].req = ReqOf(me)
    BY <1>1, <1>2, <2>1 DEF EntryIs
  <2> QED BY <2>1, <2>2 DEF ReqOf
<1>4. /\ r.err \in {"OK", "ErrNoKey", "ErrVersion"}
      /\ me.op = "Put" => r \in {Reply(err, NoValue, 0) : err \in {"OK", "ErrNoKey", "ErrVersion"}}
  <2>1. st[i - 1] \in Data
    BY CommittedIds DEF StatesAre
  <2> QED BY <1>2, <1>3, <2>1, DoOpReplies DEF Out
<1>5. PICK res : res = [r EXCEPT !.err = ErrOf(me, r.err)]
  OBVIOUS
<1>6. PICK out : out = outcome[c]
  OBVIOUS
<1>7. /\ me.op = "Get" => res = r
      /\ \A x \in {"OK", "ErrNoKey", "ErrVersion"} : me.op = "Put" /\ r = Reply(x, NoValue, 0) =>
            res = IF x = "ErrVersion" /\ ~me.firstRpc THEN maybe ELSE r
  <2>1. me.op = "Get" => res = r
    BY <1>5 DEF ErrOf, ReplyType
  <2>2. ASSUME NEW x \in {"OK", "ErrNoKey", "ErrVersion"}, me.op = "Put", r = Reply(x, NoValue, 0)
        PROVE  res = IF x = "ErrVersion" /\ ~me.firstRpc THEN maybe ELSE r
    <3>1. r.err = x /\ res = [err |-> ErrOf(me, x), value |-> NoValue, version |-> 0]
      BY <1>5, <2>2 DEF Reply
    <3> QED BY <2>2, <3>1 DEF ErrOf, Reply
  <2> QED BY <2>1, <2>2
<1>8. /\ out # Pending
      /\ res = out \/ (res = maybe /\ me.op = "Put" /\ out.err \in {"OK", "ErrVersion"})
  <2>1. CASE out = Reply("OK", NoValue, 0) /\ PerformedBefore(c)
    <3>1. me.op = "Put" /\ ~me.firstRpc /\ out # Pending /\ out.err = "OK"
      BY <1>1, <2>1 DEF PerformedBefore, Pending, Reply
    <3>2. r = Reply("OK", NoValue, 0) \/ r = Reply("ErrVersion", NoValue, 0)
      BY <1>2, <1>3, <3>1, CommittedHarmless
    <3>3. CASE r = Reply("OK", NoValue, 0)
      <4>1. res = r
        BY <1>7, <3>1, <3>3
      <4> QED BY <2>1, <3>1, <3>3, <4>1
    <3>4. CASE r = Reply("ErrVersion", NoValue, 0)
      <4>1. res = maybe
        BY <1>7, <3>1, <3>4
      <4> QED BY <3>1, <4>1
    <3> QED BY <3>2, <3>3, <3>4
  <2>2. CASE Result(st, me.id, out)
    <3>1. PICK k \in 1 .. Len(committed) : committed[k].id = me.id /\ out = Out(st, k)
      BY <2>2 DEF Result
    <3>2. k = i
      BY <1>2, <3>1, CommittedIds
    <3>3. out = r
      BY <1>2, <3>1, <3>2
    <3>4. out # Pending
      BY <1>4, <3>3 DEF Pending, Reply
    <3>5. CASE me.op = "Get"
      BY <1>7, <3>3, <3>4, <3>5
    <3>6. CASE me.op = "Put"
      <4>1. PICK x \in {"OK", "ErrNoKey", "ErrVersion"} : r = Reply(x, NoValue, 0)
        BY <1>4, <3>6
      <4>2. r.err = x
        BY <4>1 DEF Reply
      <4> QED BY <1>7, <3>3, <3>4, <3>6, <4>1, <4>2
    <3> QED BY <1>0, <1>1, <3>5, <3>6
  <2> QED BY <1>1, <1>2, <1>6, <2>1, <2>2 DEF ClerksAre, OutcomeIs
<1>9. /\ clerk'[c].at = "idle" /\ clerk'[c].op = "none" /\ clerk'[c].reply = res /\ outcome'[c] = Pending
      /\ \A d \in Client : d # c => clerk'[d] = clerk[d] /\ outcome'[d] = outcome[d]
  BY <1>0, <1>1, <1>5, ReturnIs
<1>10. OpMap' = [OpMap EXCEPT ![c] = OpAt(c)'] /\ ResMap' = [ResMap EXCEPT ![c] = ResAt(c)']
  BY <1>9, OneClerkMaps
<1>11. OpAt(c)' = [call |-> Service!NoOp, outcome |-> Service!Pending] /\ ResAt(c)' = res
  BY <1>9, PendingIs DEF OpAt, ResAt, CallOf, Service!NoOp
<1>12. PICK call : call = CallOf(me)
  OBVIOUS
<1>13. call # Service!NoOp /\ call.type = me.op
  BY <1>0, <1>1, <1>12, CallIs
<1>14. OpMap[c] = [call |-> call, outcome |-> out]
  BY <1>1, <1>6, <1>12 DEF OpMap, OpAt
<1>15. call = OpMap[c].call /\ out = OpMap[c].outcome
  BY <1>14
<1>16. res \in {out} \cup IF call.type = "Put" /\ out.err \in {"OK", "ErrVersion"} THEN {maybe} ELSE {}
  BY <1>8, <1>13
<1>17. out # Service!Pending
  BY <1>8, PendingIs
<1> QED BY <1>10, <1>11, <1>13, <1>15, <1>16, <1>17, IsReturn

\* Submit() is left with an answer: the Clerk that still waits for it returns, or goes on.
LEMMA AnswerRefines ==
  ASSUME RsmInv, NEW st, HistoryIs(st), NEW g \in submits, SubmitReceive(g) \/ SubmitGivesUp(g)
  PROVE  \/ UNCHANGED Service!vars
         \/ \E c \in Client : Service!TryAgain(c) \/ Service!Return(c)
<1>1. service' = service /\ g.client \in Client /\ g.ch \in ReplyType /\ StatesAre(st) /\ ClerksAre(st)
  BY SubmitFields DEF RsmInv, Types, HistoryIs, SubmitReceive, SubmitGivesUp
<1>2. \/ UNCHANGED <<clerk, outcome>>
      \/ clerk[g.client].at = "wait" /\ GoOn(g.client)
      \/ /\ clerk[g.client].at = "wait" /\ clerk[g.client].id = g.id /\ g.ch # Pending /\ g.ch # WrongLeader
         /\ Return(g.client, g.ch)
  BY DEF SubmitReceive, SubmitGivesUp, Answer
<1>3. CASE UNCHANGED <<clerk, outcome>>
  BY <1>1, <1>3, MapsKept, IsStutter
<1>4. CASE clerk[g.client].at = "wait" /\ GoOn(g.client)
  BY <1>1, <1>4, GoOnTriesAgain
<1>5. CASE /\ clerk[g.client].at = "wait" /\ clerk[g.client].id = g.id /\ g.ch # Pending /\ g.ch # WrongLeader
           /\ Return(g.client, g.ch)
  <2>1. Result(st, clerk[g.client].id, g.ch)
    BY <1>5 DEF HistoryIs, AnswerIs
  <2> QED BY <1>1, <1>5, <2>1, ReturnReturns
<1> QED BY <1>2, <1>3, <1>4, <1>5

\* A call that reaches a server: a leader starts the operation, of which nothing is seen
\* from outside; anybody else answers ErrWrongLeader.
LEMMA SubmitRefines ==
  ASSUME RsmInv, NEW c \in Client, Submit(c)
  PROVE  UNCHANGED Service!vars \/ Service!TryAgain(c)
<1>0. service' = service /\ clerk[c].at = "call"
  BY DEF Submit
<1>1. CASE GoOn(c)
  BY <1>0, <1>1, GoOnTriesAgain
<1>2. CASE ~GoOn(c)
  <2>1. PICK id : clerk' = [clerk EXCEPT ![c].at = "wait", ![c].id = id] /\ outcome' = outcome
    BY <1>2 DEF Submit
  <2>2. clerk[c] \in ClerkType /\ clerk \in [Client -> ClerkType] /\ clerk[c].op \in {"Get", "Put"}
    BY <1>0 DEF RsmInv, Types, ClerkTypes
  <2>3. /\ clerk'[c].at = "wait" /\ clerk'[c].op = clerk[c].op /\ clerk'[c].key = clerk[c].key
        /\ clerk'[c].value = clerk[c].value /\ clerk'[c].version = clerk[c].version
        /\ \A d \in Client : d # c => clerk'[d] = clerk[d]
    BY <2>1, <2>2 DEF ClerkType
  <2>4. CallOf(clerk'[c]) = CallOf(clerk[c])
    BY <2>2, <2>3 DEF CallOf
  <2>5. OpAt(c)' = OpAt(c) /\ ResAt(c)' = ResAt(c)
    BY <1>0, <2>1, <2>3, <2>4 DEF OpAt, ResAt
  <2>6. OpMap' = [OpMap EXCEPT ![c] = OpAt(c)'] /\ ResMap' = [ResMap EXCEPT ![c] = ResAt(c)']
    BY <2>1, <2>3, OneClerkMaps
  <2>7. OpMap' = OpMap /\ ResMap' = ResMap
    BY <2>5, <2>6 DEF OpMap, ResMap
  <2> QED BY <1>0, <2>7, IsStutter
<1> QED BY <1>1, <1>2

\* Every step of Clerks, servers, RSM and Raft is a step of the service or changes nothing of it.
LEMMA StepRefines ==
  ASSUME RsmInv, RsmInv', ServiceInv, [Next]_vars
  PROVE  [Service!Next]_(Service!vars)
<1>0. PICK st : HistoryIs(st)
  BY DEF ServiceInv
<1>1. LogInv' /\ ClerksAre(st)
  BY <1>0 DEF RsmInv, HistoryIs
<1> DEFINE Steps == \/ UNCHANGED Service!vars
                    \/ \E c \in Client : \/ Service!Invoke(c) \/ Service!Perform(c)
                                         \/ Service!TryAgain(c) \/ Service!Return(c)
<1>2. ASSUME UNCHANGED <<service, clerk, outcome>> PROVE Steps
  BY <1>2, MapsKept, IsStutter
<1>3. ASSUME NEW s \in Server, CommitOp(s) PROVE Steps
  BY <1>0, <1>1, <1>3, CommitPerforms
<1>4. ASSUME NEW g \in submits, SubmitReceive(g) \/ SubmitGivesUp(g) PROVE Steps
  BY <1>0, <1>4, AnswerRefines
<1>5. ASSUME NEW c \in Client, Submit(c) PROVE Steps
  BY <1>5, SubmitRefines
<1>6. ASSUME NEW c \in Client, CallFails(c) \/ CallAbandoned(c) PROVE Steps
  <2>1. clerk[c].at # "idle" /\ GoOn(c) /\ service' = service
    BY <1>6 DEF CallFails, CallAbandoned
  <2> QED BY <2>1, GoOnTriesAgain
<1>7. ASSUME NEW c \in Client, NEW key \in Key, Get(c, key) PROVE Steps
  BY <1>1, <1>7, BeginInvokes DEF Get
<1>8. ASSUME NEW c \in Client, NEW key \in Key, NEW value \in Value, NEW version \in 0 .. MaxVersion,
             Put(c, key, value, version)
      PROVE  Steps
  <2>1. version \in Nat /\ value \in Value \cup {NoValue}
    BY KVRaftAssumption
  <2> QED BY <1>1, <1>8, <2>1, BeginInvokes DEF Put
<1>9. ASSUME NEW s \in Server, \/ ReaderDoOp(s) \/ ReaderNotify(s) \/ ReaderSend(s) \/ ReaderSnapshot(s)
                               \/ ReaderRestore(s) \/ Restart(s)
      PROVE  Steps
  <2>1. UNCHANGED <<service, clerk, outcome>>
    BY <1>9 DEF ReaderDoOp, ReaderNotify, ReaderSend, ReaderSnapshot, ReaderRestore, Restart
  <2> QED BY <1>2, <2>1
<1>10. ASSUME NEW h \in late, LateSubmit(h) PROVE Steps
  <2>1. UNCHANGED <<service, clerk, outcome>>
    BY <1>10 DEF LateSubmit
  <2> QED BY <1>2, <2>1
<1>11. ASSUME Replicate /\ UNCHANGED <<rsmVars, late, clerk, started, service, outcome>> PROVE Steps
  BY <1>2, <1>11
<1>12. ASSUME UNCHANGED vars PROVE Steps
  BY <1>2, <1>12 DEF vars
<1>13. Crashing \subseteq Server /\ Getter \subseteq Client /\ Putter \subseteq Client
  BY KVRaftAssumption
<1>14. Steps
  <2> HIDE DEF Steps
  <2> QED BY <1>3, <1>4, <1>5, <1>6, <1>7, <1>8, <1>9, <1>10, <1>11, <1>12, <1>13 DEF Next
<1> QED BY <1>14, Zenon DEF Service!Next

\* The replicated service, for any number of servers, Clerks, keys, versions and operations
\* and whatever crashes, leader changes and lost calls: Get() and Put() of
\* src/src/kvraft1/client.go behave as those of one linearizable server.  An operation takes
\* effect when Raft commits it, at most once although the Clerk gives it to one leader after
\* the other, and never after the Clerk has returned, although handlers that labrpc has given
\* up may call Start() at any time later; and what the Clerk returns is what the committed
\* operation came to in DoOp(), or ErrMaybe where it cannot know.  The theorem rests on the
\* guard of the action Put: a client passes 0 or a version that the key has reached, as all
\* clients of the repository do.  Without it a Put that was answered ErrNoKey could be started
\* again by such a handler, and be performed.
THEOREM ReplicasAreService == Spec => ReplicatedServiceImplemented
<1> DEFINE IInv == RsmInv /\ ServiceInv
<1>1. Init => IInv
  BY InitRsm, InitService
<1>2. IInv /\ [Next]_vars => IInv'
  BY NextRsm, NextService
<1>3. Init => Service!Init
  <2> SUFFICES ASSUME Init PROVE Service!Init
    OBVIOUS
  <2>1. \A c \in Client : /\ clerk[c].at = "idle" /\ clerk[c].op = "none" /\ clerk[c].reply = Pending
                          /\ outcome[c] = Pending
    BY DEF Init, Rest
  <2>2. service = [k \in Key |-> [value |-> NoValue, version |-> 0]]
    BY DEF Init, NoData
  <2>3. OpMap = [c \in Client |-> [call |-> Service!NoOp, outcome |-> Service!Pending]]
    BY <2>1, PendingIs DEF OpMap, OpAt, CallOf, Service!NoOp
  <2>4. ResMap = [c \in Client |-> Service!Pending]
    BY <2>1, PendingIs DEF ResMap, ResAt
  <2> QED BY <2>2, <2>3, <2>4, Zenon DEF Service!Init, OpMap, ResMap, OpAt, ResAt
<1>4. IInv /\ IInv' /\ [Next]_vars => [Service!Next]_(Service!vars)
  BY StepRefines
<1> QED BY <1>1, <1>2, <1>3, <1>4, PTL DEF Spec, ReplicatedServiceImplemented, Service!Spec
=============================================================================

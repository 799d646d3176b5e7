-------------------------- MODULE RaftSafetyProofs --------------------------
(***************************************************************************)
(* The safety of the replicated log of raft.go: every reachable state has  *)
(* a history (RaftHistoryProofs), and what the logs, the calls in flight,  *)
(* the leaders' counters, the commit indexes and the services say of it    *)
(* makes two peers agree on whatever they commit.                          *)
(***************************************************************************)
EXTENDS RaftHistoryProofs

\* The commands of data are those of the log of term t, from index 1 on.
Copies(h, t, data) == \A i \in 1 .. Len(data) : data[i] = h.entry[t][i].command

\* A log lg behind a snapshot data at index base is the log the position of s stands for.
IsLog(h, s, lg, base, data) ==
    /\ h.lastIndex[s] = base + Len(lg) - 1
    /\ \A i \in base + 1 .. h.lastIndex[s] : lg[i - base + 1] = h.entry[h.lastTerm[s]][i]
    /\ lg[1].term = h.entry[h.lastTerm[s]][base].term
    /\ Copies(h, h.lastTerm[s], data)

\* Up to k, the log of term v is chosen in a term up to u, as part of some longer prefix.
Decided(h, k, v, u) ==
    k > 0 => \E t \in 0 .. u, i \in Nat : i >= k /\ Chosen(h, i, t) /\ Same(h, v, t, k)

\* Peer s may take the first n entries of its log for committed.
Committed(h, s, n) == n =< h.lastIndex[s] /\ Decided(h, n, h.lastTerm[s], h.term[s])

\* What the service has (app), will be sent (queue) and may be sent (pending) is in the log.
Serves(h, s, app, queue, pending) ==
    LET T == h.lastTerm[s]
    IN  /\ Copies(h, T, app)
        /\ \A k \in 1 .. Len(queue) :
              IF queue[k].SnapshotValid
                THEN Copies(h, T, queue[k].Snapshot)
                ELSE queue[k].Command = h.entry[T][queue[k].Index].command
        /\ pending # Nil => Copies(h, T, pending.Date)

\* Leader s has the log of its term, and its counters say what it knows of the others.
Leads(h, s, next, match) ==
    LET u == h.term[s]
        n == h.lastIndex[s]
    IN  /\ h.winner[u] = s /\ h.len[u] = n /\ Holds(h, s, u, n)
        /\ \A p \in Server : match[p] =< h.acked[p][u] /\ match[p] < next[p] /\ next[p] =< n + 1

PeerIs(h, s) ==
    /\ h.term[s] = term[s]
    /\ IsLog(h, s, log[s], lastIncludedIndex[s], snapshot[s])
    /\ Committed(h, s, commitIndex[s])
    /\ Serves(h, s, applied[s], delivering[s], pendingSnapshot[s])
    /\ state[s] = "Leader" => Leads(h, s, nextIndex[s], matchIndex[s])
    /\ state[s] = "Candidate" => term[s] >= 1

\* The voter p is bound to w in term t, and everybody else knows.
Bound(p, t, w) == VotedFor(p, t, w) /\ \A s \in Server : Granted(p, s, t) => s = w

\* Who has won term t has left it or leads it, and a majority is bound to it.
WinnerIs(t, w) ==
    /\ t >= 1
    /\ term[w] > t \/ (term[w] = t /\ state[w] # "Candidate")
    /\ \E Q \in Majorities : \A p \in Q : Bound(p, t, w)

\* A refusal that is not for its term says something the leader can use: that the follower's
\* log ends before PrevLogIndex, that the follower has it in a snapshot the leader's log
\* covers, or that another term is there.
RejectIs(h, c) ==
    LET r == c.reply
    IN  \/ r.XTerm = -1 /\ c.PrevLogIndex >= 1 /\ r.XLen =< c.PrevLogIndex
        \/ r.XTerm = -1 /\ r.XLen > c.PrevLogIndex + 1 /\ r.XLen =< h.len[c.Term] + 1
        \/ /\ r.XTerm # -1 /\ r.XTerm # c.PrevlogTerm
           /\ c.PrevLogIndex >= 1 /\ r.XIndex =< c.PrevLogIndex

\* A call carries a piece of its leader's log, an answer that it was taken in is an
\* acknowledgement, and a refusal tells the leader where to go on.
AppendCallIs(h, c) ==
    LET k == c.PrevLogIndex + Len(c.Entries)
    IN  /\ h.winner[c.Term] # Nil
        /\ k =< h.len[c.Term]
        /\ c.PrevlogTerm = h.entry[c.Term][c.PrevLogIndex].term
        /\ \A j \in 1 .. Len(c.Entries) : c.Entries[j] = h.entry[c.Term][c.PrevLogIndex + j]
        /\ c.LeaderCommit =< k
        /\ Decided(h, c.LeaderCommit, c.Term, c.Term)
        /\ c.phase = "answered" /\ c.reply.Success => k =< h.acked[c.to][c.Term]
        /\ c.phase = "answered" /\ ~c.reply.Success /\ c.reply.Term =< c.Term => RejectIs(h, c)

SnapCallIs(h, c) ==
    /\ h.winner[c.Term] # Nil
    /\ c.LastIncludedIndex =< h.len[c.Term]
    /\ c.LastIncludedTerm = h.entry[c.Term][c.LastIncludedIndex].term
    /\ Copies(h, c.Term, c.Data)
    /\ Decided(h, c.LastIncludedIndex, c.Term, c.Term)
    /\ c.phase = "answered" /\ c.reply.Term =< c.Term =>
          c.LastIncludedIndex =< h.acked[c.to][c.Term]

\* A candidate's calls say what its log is.
VoteCallIs(h, c) ==
    /\ c.Term =< term[c.from]
    /\ c.Term = term[c.from] /\ state[c.from] = "Candidate" =>
          c.LastlogIndex = h.lastIndex[c.from] /\ c.LastlogTerm = h.lastTerm[c.from]

\* Peer p has acknowledged nothing of a term before u that may be chosen and that s does
\* not hold.
Informed(h, p, s, u) ==
    \A t \in Nat, i \in Nat :
        t < u /\ Own(h, i, t) /\ i =< h.acked[p][t] => Holds(h, s, t, i) \/ Abandoned(h, i, t)

StateIs(h) ==
    /\ \A s \in Server : PeerIs(h, s)
    /\ \A t \in Nat : h.winner[t] # Nil => WinnerIs(t, h.winner[t])
    /\ \A c \in appendCalls : AppendCallIs(h, c)
    /\ \A c \in snapCalls : SnapCallIs(h, c)
    /\ \A c \in voteCalls : VoteCallIs(h, c)
    /\ \A s, p \in Server : state[s] = "Candidate" /\ Granted(p, s, term[s]) =>
                              Informed(h, p, s, term[s])

\* There is a history that explains the state.
SafetyInv == \E h : HistoryInv(h) /\ StateIs(h)

-----------------------------------------------------------------------------
(* WHAT IS DECIDED *)

LEMMA DecidedBelow ==
  ASSUME NEW h, NEW k \in Nat, NEW v, NEW u, Decided(h, k, v, u), NEW j \in Nat, j =< k
  PROVE  Decided(h, j, v, u)
<1>1. CASE j > 0
  <2>1. PICK t \in 0 .. u, i \in Nat : i >= k /\ Chosen(h, i, t) /\ Same(h, v, t, k)
    BY <1>1 DEF Decided
  <2>2. i >= j /\ Same(h, v, t, j)
    BY <2>1, SameBelow
  <2> QED BY <2>1, <2>2 DEF Decided
<1>2. CASE ~(j > 0)
  BY <1>2 DEF Decided
<1> QED BY <1>1, <1>2

LEMMA DecidedSame ==
  ASSUME NEW h, NEW k \in Nat, NEW v, NEW w, NEW u, Decided(h, k, v, u), Same(h, w, v, k)
  PROVE  Decided(h, k, w, u)
<1>1. CASE k > 0
  <2>1. PICK t \in 0 .. u, i \in Nat : i >= k /\ Chosen(h, i, t) /\ Same(h, v, t, k)
    BY <1>1 DEF Decided
  <2>2. Same(h, w, t, k)
    BY <2>1, SameIsEquivalence
  <2> QED BY <2>1, <2>2 DEF Decided
<1>2. CASE ~(k > 0)
  BY <1>2 DEF Decided
<1> QED BY <1>1, <1>2

LEMMA DecidedStays ==
  ASSUME NEW h \in History, NEW g \in History, Grows(h, g), NEW k \in Nat, NEW v \in Nat,
         k =< h.len[v], NEW u \in Nat, NEW x \in Nat, u =< x, Decided(h, k, v, u)
  PROVE  Decided(g, k, v, x)
<1>1. CASE k > 0
  <2>1. PICK t \in 0 .. u, i \in Nat : i >= k /\ Chosen(h, i, t) /\ Same(h, v, t, k)
    BY <1>1 DEF Decided
  <2>2. t \in Nat /\ t \in 0 .. x
    OBVIOUS
  <2>3. h.len[t] \in Nat /\ i =< h.len[t]
    BY <2>1, <2>2, HistoryTypes DEF Chosen, Own
  <2>4. k =< h.len[t]
    BY <2>1, <2>3
  <2>5. Same(g, v, t, k)
    BY <2>1, <2>2, <2>4, SameStays
  <2>6. Chosen(g, i, t)
    BY <2>1, <2>2, ChosenStays
  <2> QED BY <2>1, <2>2, <2>5, <2>6 DEF Decided
<1>2. CASE ~(k > 0)
  BY <1>2 DEF Decided
<1> QED BY <1>1, <1>2

\* What is decided by term u is in the log of whoever wins u or a later term.
LEMMA DecidedContained ==
  ASSUME NEW h, HistoryInv(h), NEW k \in Nat, NEW v \in Nat, NEW u \in Nat, Decided(h, k, v, u),
         NEW x \in Nat, u =< x, h.winner[x] # Nil
  PROVE  k =< h.len[x] /\ Same(h, v, x, k)
<1>0. h \in History /\ LogsConsistent(h) /\ h.len[x] \in Nat
  BY HistoryTypes DEF HistoryInv
<1>1. CASE k > 0
  <2>1. PICK t \in 0 .. u, i \in Nat : i >= k /\ Chosen(h, i, t) /\ Same(h, v, t, k)
    BY <1>1 DEF Decided
  <2>2. t \in Nat /\ t =< x
    OBVIOUS
  <2>3. i =< h.len[x] /\ Same(h, x, t, i)
    BY <2>1, <2>2, ChosenIsContained DEF Contains
  <2>4. Same(h, t, x, k)
    BY <2>1, <2>3, SameBelow, SameIsEquivalence
  <2> QED BY <1>0, <2>1, <2>3, <2>4, SameIsEquivalence
<1>2. CASE k = 0
  BY <1>0, <1>2, SameAtZero
<1> QED BY <1>1, <1>2

-----------------------------------------------------------------------------
(* A PEER AND ITS LOG *)

\* The term at an index of the log, and the term the log ends with.
LEMMA TermIs ==
  ASSUME TypeOK, NEW h, HistoryInv(h), NEW s \in Server,
         IsLog(h, s, log[s], lastIncludedIndex[s], snapshot[s])
  PROVE  /\ h.lastIndex[s] = LastLogIndex(s)
         /\ \A i : InLog(s, i) => TermAt(s, i) = h.entry[h.lastTerm[s]][i].term
         /\ TermAt(s, LastLogIndex(s)) = h.lastTerm[s]
<1>1. h.lastIndex[s] = LastLogIndex(s)
  BY DEF IsLog, LastLogIndex
<1>2. ASSUME NEW i, InLog(s, i)
      PROVE  TermAt(s, i) = h.entry[h.lastTerm[s]][i].term
  <2>1. i \in Nat /\ lastIncludedIndex[s] \in Nat /\ LastLogIndex(s) \in Nat
        /\ lastIncludedIndex[s] =< i /\ i =< LastLogIndex(s)
    BY <1>2, LogFacts DEF InLog
  <2>2. CASE i = lastIncludedIndex[s]
    <3>1. SliceIndex(s, i) = 1
      BY <2>1, <2>2 DEF SliceIndex
    <3> QED BY <2>2, <3>1 DEF TermAt, IsLog
  <2>3. CASE i # lastIncludedIndex[s]
    <3>1. i \in lastIncludedIndex[s] + 1 .. h.lastIndex[s]
      BY <1>1, <2>1, <2>3
    <3> QED BY <3>1 DEF TermAt, SliceIndex, IsLog
  <2> QED BY <2>2, <2>3
<1>3. InLog(s, LastLogIndex(s))
  BY LogFacts DEF InLog
<1>4. h.entry[h.lastTerm[s]][h.lastIndex[s]].term = h.lastTerm[s]
  BY DEF HistoryInv, PeersConsistent
<1> QED BY <1>1, <1>2, <1>3, <1>4

LEMMA CopiesStays ==
  ASSUME NEW h \in History, NEW g, Grows(h, g), NEW t \in Nat, NEW data, Len(data) \in Nat,
         Len(data) =< h.len[t], Copies(h, t, data)
  PROVE  Copies(g, t, data)
<1>1. h.len[t] \in Nat
  BY HistoryTypes
<1>2. \A i \in 1 .. Len(data) : g.entry[t][i] = h.entry[t][i]
  BY <1>1 DEF Grows
<1> QED BY <1>2 DEF Copies

LEMMA CopiesSame ==
  ASSUME NEW h, NEW t, NEW u, NEW n \in Nat, Same(h, t, u, n), NEW data, Len(data) \in Nat,
         Len(data) =< n, Copies(h, t, data)
  PROVE  Copies(h, u, data)
<1>1. \A i \in 1 .. Len(data) : h.entry[u][i] = h.entry[t][i]
  BY DEF Same
<1> QED BY <1>1 DEF Copies

\* A peer that keeps its position keeps the log that goes with it.
LEMMA IsLogStays ==
  ASSUME NEW h, HistoryInv(h), NEW g, HistoryInv(g), Grows(h, g), NEW s \in Server,
         g.lastIndex[s] = h.lastIndex[s], g.lastTerm[s] = h.lastTerm[s],
         NEW lg, Len(lg) \in Nat \ {0}, NEW base \in Nat, NEW data, Len(data) = base,
         IsLog(h, s, lg, base, data)
  PROVE  IsLog(g, s, lg, base, data)
<1> DEFINE T == h.lastTerm[s]
           n == h.lastIndex[s]
<1>1. h \in History /\ T \in Nat /\ n \in Nat /\ h.len[T] \in Nat /\ n =< h.len[T]
  BY HistoryTypes DEF HistoryInv, PeersConsistent
<1>2. n = base + Len(lg) - 1
  BY DEF IsLog
<1> HIDE DEF T, n
<1>3. \A i \in 0 .. n : g.entry[T][i] = h.entry[T][i]
  BY <1>1 DEF Grows
<1>4. Copies(g, T, data)
  BY <1>1, <1>2, CopiesStays DEF IsLog, T
<1>5. \A i \in base + 1 .. n : lg[i - base + 1] = g.entry[T][i]
  BY <1>3 DEF IsLog, T, n
<1>6. lg[1].term = g.entry[T][base].term
  BY <1>2, <1>3 DEF IsLog, T, n
<1> QED BY <1>2, <1>4, <1>5, <1>6 DEF IsLog, T, n

LEMMA CommitStays ==
  ASSUME NEW h, HistoryInv(h), NEW g, HistoryInv(g), Grows(h, g), NEW s \in Server,
         g.lastIndex[s] = h.lastIndex[s], g.lastTerm[s] = h.lastTerm[s],
         NEW n \in Nat, Committed(h, s, n), NEW m \in Nat, m =< n
  PROVE  Committed(g, s, m)
<1> DEFINE T == h.lastTerm[s]
<1>1. /\ h \in History /\ g \in History /\ T \in Nat /\ h.lastIndex[s] \in Nat
      /\ h.len[T] \in Nat /\ h.lastIndex[s] =< h.len[T]
      /\ h.term[s] \in Nat /\ g.term[s] \in Nat
  BY HistoryTypes DEF HistoryInv, PeersConsistent
<1>2. h.term[s] =< g.term[s] /\ m =< h.lastIndex[s] /\ m =< h.len[T]
  BY <1>1 DEF Grows, Committed
<1>3. Decided(h, m, T, h.term[s])
  BY DecidedBelow DEF Committed
<1> HIDE DEF T
<1>4. Decided(g, m, T, g.term[s])
  BY <1>1, <1>2, <1>3, DecidedStays
<1> QED BY <1>2, <1>4 DEF Committed, T

\* Up to index n, the log of s is the same in g as in h.
KeepsLog(h, g, s, n) ==
    \A i \in 0 .. n : g.entry[g.lastTerm[s]][i] = h.entry[h.lastTerm[s]][i]

LEMMA SamePlaceKeeps ==
  ASSUME NEW h, HistoryInv(h), NEW g, Grows(h, g), NEW s \in Server,
         g.lastTerm[s] = h.lastTerm[s], NEW n \in Nat, n =< h.lastIndex[s]
  PROVE  KeepsLog(h, g, s, n)
<1>1. /\ h \in History /\ h.lastTerm[s] \in Nat /\ h.lastIndex[s] \in Nat
      /\ h.len[h.lastTerm[s]] \in Nat /\ h.lastIndex[s] =< h.len[h.lastTerm[s]]
  BY HistoryTypes DEF HistoryInv, PeersConsistent
<1> QED BY <1>1 DEF Grows, KeepsLog

LEMMA CopiesKept ==
  ASSUME NEW h, NEW g, NEW s, NEW n \in Nat, KeepsLog(h, g, s, n),
         NEW data, Len(data) \in Nat, Len(data) =< n, Copies(h, h.lastTerm[s], data)
  PROVE  Copies(g, g.lastTerm[s], data)
<1>1. \A i \in 1 .. Len(data) : g.entry[g.lastTerm[s]][i] = h.entry[h.lastTerm[s]][i]
  BY DEF KeepsLog
<1> QED BY <1>1 DEF Copies

\* Nothing the service has or is to be sent lies beyond n.
Reaches(app, queue, pending, n) ==
    /\ Len(app) \in Nat /\ Len(app) =< n
    /\ \A k \in 1 .. Len(queue) :
          IF queue[k].SnapshotValid
            THEN Len(queue[k].Snapshot) \in Nat /\ Len(queue[k].Snapshot) =< n
            ELSE queue[k].Index \in Nat /\ queue[k].Index =< n
    /\ pending # Nil => Len(pending.Date) \in Nat /\ Len(pending.Date) =< n

LEMMA ServesKept ==
  ASSUME NEW h, NEW g, NEW s, NEW n \in Nat, KeepsLog(h, g, s, n),
         NEW app, NEW queue, NEW pending, Reaches(app, queue, pending, n),
         Serves(h, s, app, queue, pending)
  PROVE  Serves(g, s, app, queue, pending)
<1>1. Copies(g, g.lastTerm[s], app)
  BY CopiesKept DEF Serves, Reaches
<1>2. ASSUME NEW k \in 1 .. Len(queue)
      PROVE  IF queue[k].SnapshotValid
               THEN Copies(g, g.lastTerm[s], queue[k].Snapshot)
               ELSE queue[k].Command = g.entry[g.lastTerm[s]][queue[k].Index].command
  <2>1. CASE queue[k].SnapshotValid
    BY <2>1, CopiesKept DEF Serves, Reaches
  <2>2. CASE ~queue[k].SnapshotValid
    BY <2>2, SMTT(40) DEF Serves, Reaches, KeepsLog
  <2> QED BY <2>1, <2>2
<1>3. pending # Nil => Copies(g, g.lastTerm[s], pending.Date)
  BY CopiesKept DEF Serves, Reaches
<1> QED BY <1>1, <1>2, <1>3 DEF Serves

LEMMA ServesSame ==
  ASSUME NEW h, NEW g, g.entry = h.entry, NEW s, g.lastTerm[s] = h.lastTerm[s],
         NEW app, NEW queue, NEW pending, Serves(h, s, app, queue, pending)
  PROVE  Serves(g, s, app, queue, pending)
<1>1. \A data : Copies(h, h.lastTerm[s], data) => Copies(g, g.lastTerm[s], data)
  BY DEF Copies
<1> QED BY <1>1 DEF Serves

LEMMA ServiceReaches ==
  ASSUME TypeOK, IndexOrder, ApplierInv, NEW s \in Server
  PROVE  Reaches(applied[s], delivering[s], pendingSnapshot[s], commitIndex[s])
<1> DEFINE d == delivering[s]
           a == applied[s]
           x == pendingSnapshot[s]
           l == lastApplied[s]
           m == commitIndex[s]
<1>1. /\ d \in Seq(ApplyMsg) /\ Len(d) \in Nat
      /\ \A k \in 1 .. Len(d) : /\ d[k].Index \in Nat /\ d[k].SnapshotValid \in BOOLEAN
                                /\ d[k].Snapshot \in Data
      /\ Len(a) \in Nat /\ l \in Nat /\ m \in Nat
      /\ x # Nil => x \in SnapshotState
  BY ApplierFacts
<1>2. l =< m /\ QueueLeadsTo(d, Len(a), x, l)
  BY DEF IndexOrder, ApplierInv
<1>3. x # Nil => x.Index \in Nat /\ Len(x.Date) \in Nat
  <2>1. x # Nil => x.Index \in Nat /\ x.Date \in Data
    BY <1>1 DEF SnapshotState
  <2> QED BY <2>1, LenProperties DEF Data
<1>4. \A k \in 1 .. Len(d) : Len(d[k].Snapshot) \in Nat
  BY <1>1, LenProperties DEF Data
<1> HIDE DEF d, a, x, l, m
<1>5. QueueEnd(d, Len(a)) \in Nat /\ QueueEnd(d, Len(a)) =< l
  <2>1. QueueEnd(d, Len(a)) \in Nat
    BY <1>1 DEF QueueEnd
  <2> QED BY <1>1, <1>2, <1>3, <2>1 DEF QueueLeadsTo
<1>6. Len(a) =< m
  BY <1>1, <1>2, <1>5 DEF QueueLeadsTo, QueueInOrder, QueueEnd
<1>7. ASSUME NEW k \in 1 .. Len(d)
      PROVE  IF d[k].SnapshotValid
               THEN Len(d[k].Snapshot) \in Nat /\ Len(d[k].Snapshot) =< m
               ELSE d[k].Index \in Nat /\ d[k].Index =< m
  <2>1. CASE \A j \in 1 .. Len(d) : ~d[j].SnapshotValid /\ d[j].Index = Len(a) + j
    <3>1. QueueEnd(d, Len(a)) = Len(a) + Len(d)
      BY <1>1, <2>1 DEF QueueEnd
    <3> QED BY <1>1, <1>2, <1>5, <2>1, <3>1
  <2>2. CASE Len(d) = 1 /\ d[1].SnapshotValid /\ Len(d[1].Snapshot) = d[1].Index
    <3>1. QueueEnd(d, Len(a)) = d[1].Index /\ k = 1
      BY <2>2 DEF QueueEnd
    <3> QED BY <1>1, <1>2, <1>5, <2>2, <3>1
  <2> QED BY <1>2, <2>1, <2>2 DEF QueueLeadsTo, QueueInOrder
<1>8. x # Nil => Len(x.Date) \in Nat /\ Len(x.Date) =< m
  BY <1>1, <1>2, <1>3 DEF QueueLeadsTo
<1> QED BY <1>1, <1>6, <1>7, <1>8 DEF Reaches, d, a, x, m

\* A leader that stays where it is, in the same term, goes on leading.
LEMMA LeadsStays ==
  ASSUME NEW h, HistoryInv(h), NEW g, HistoryInv(g), Grows(h, g), NEW s \in Server,
         g.lastIndex[s] = h.lastIndex[s], g.lastTerm[s] = h.lastTerm[s],
         g.term[s] = h.term[s], g.len[h.term[s]] = h.len[h.term[s]],
         NEW next \in [Server -> Nat], NEW match \in [Server -> Nat], Leads(h, s, next, match)
  PROVE  Leads(g, s, next, match)
<1> DEFINE u == h.term[s]
           n == h.lastIndex[s]
<1>1. h \in History /\ g \in History /\ PeersConsistent(h) /\ u \in Nat /\ n \in Nat
  BY HistoryTypes DEF HistoryInv
<1>2. h.winner[u] # Nil /\ g.winner[u] = h.winner[u]
  BY <1>1, RaftAssumption DEF Leads, Grows
<1>3. Holds(g, s, u, n)
  BY <1>1, HoldsStays DEF Leads
<1>4. \A p \in Server : /\ match[p] \in Nat /\ h.acked[p][u] \in Nat /\ g.acked[p][u] \in Nat
                        /\ h.acked[p][u] =< g.acked[p][u]
  BY <1>1, HistoryTypes DEF Grows
<1>5. \A p \in Server : match[p] =< g.acked[p][u]
  BY <1>4 DEF Leads
<1> QED BY <1>2, <1>3, <1>5 DEF Leads

-----------------------------------------------------------------------------
(* CALLS *)

\* c asks what d asked, and answers no more than d did.
SameAppend(c, d) ==
    /\ c.Term = d.Term /\ c.PrevLogIndex = d.PrevLogIndex /\ c.PrevlogTerm = d.PrevlogTerm
    /\ c.Entries = d.Entries /\ c.LeaderCommit = d.LeaderCommit
    /\ c.phase = "answered" => d.phase = "answered" /\ c.reply = d.reply /\ c.to = d.to

SameSnap(c, d) ==
    /\ c.Term = d.Term /\ c.LastIncludedIndex = d.LastIncludedIndex
    /\ c.LastIncludedTerm = d.LastIncludedTerm /\ c.Data = d.Data
    /\ c.phase = "answered" => d.phase = "answered" /\ c.reply = d.reply /\ c.to = d.to

SameVote(c, d) ==
    /\ c.from = d.from /\ c.Term = d.Term
    /\ c.LastlogIndex = d.LastlogIndex /\ c.LastlogTerm = d.LastlogTerm

LEMMA AppendCallStays ==
  ASSUME NEW h, HistoryInv(h), NEW g, HistoryInv(g), Grows(h, g),
         NEW d \in AppendEntriesCall, AppendCallIs(h, d), NEW c, SameAppend(c, d)
  PROVE  AppendCallIs(g, c)
<1> DEFINE u == d.Term
           k == d.PrevLogIndex + Len(d.Entries)
<1>1. /\ u \in Nat /\ d.PrevLogIndex \in Nat /\ Len(d.Entries) \in Nat /\ k \in Nat
      /\ d.LeaderCommit \in Nat /\ d.to \in Server
  BY LenProperties DEF AppendEntriesCall
<1>2. h \in History /\ g \in History /\ h.len[u] \in Nat /\ g.len[u] \in Nat
  BY <1>1, HistoryTypes DEF HistoryInv
<1>3. h.len[u] =< g.len[u] /\ k =< h.len[u] /\ g.winner[u] # Nil
  BY <1>1 DEF Grows, AppendCallIs
<1>4. \A i \in 0 .. h.len[u] : g.entry[u][i] = h.entry[u][i]
  BY <1>1 DEF Grows
<1>5. d.PrevlogTerm = g.entry[u][d.PrevLogIndex].term
  BY <1>1, <1>2, <1>3, <1>4, SMTT(40) DEF AppendCallIs
<1>6. \A j \in 1 .. Len(d.Entries) : d.Entries[j] = g.entry[u][d.PrevLogIndex + j]
  <2>1. ASSUME NEW j \in 1 .. Len(d.Entries)
        PROVE  d.PrevLogIndex + j \in 0 .. h.len[u]
    BY <1>1, <1>2, <1>3
  <2>2. \A j \in 1 .. Len(d.Entries) : d.Entries[j] = h.entry[u][d.PrevLogIndex + j]
    BY DEF AppendCallIs
  <2> HIDE DEF u
  <2> QED BY <1>4, <2>1, <2>2
<1>7. d.LeaderCommit =< k /\ Decided(g, d.LeaderCommit, u, u)
  <2>1. d.LeaderCommit =< k /\ Decided(h, d.LeaderCommit, u, u)
    BY DEF AppendCallIs
  <2>2. d.LeaderCommit =< h.len[u]
    BY <1>1, <1>2, <1>3, <2>1
  <2> QED BY <1>1, <1>2, <2>1, <2>2, DecidedStays
<1>8. d.phase = "answered" /\ d.reply.Success => k =< g.acked[d.to][u]
  <2>1. /\ h.acked[d.to][u] \in Nat /\ g.acked[d.to][u] \in Nat
        /\ h.acked[d.to][u] =< g.acked[d.to][u]
    BY <1>1, <1>2, HistoryTypes DEF Grows
  <2>2. d.phase = "answered" /\ d.reply.Success => k =< h.acked[d.to][u]
    BY DEF AppendCallIs
  <2> HIDE DEF u, k
  <2> QED BY <1>1, <2>1, <2>2
<1>9. k =< g.len[u]
  BY <1>1, <1>2, <1>3
<1>10. c.phase = "answered" /\ ~c.reply.Success /\ c.reply.Term =< c.Term => RejectIs(g, c)
  <2>1. SUFFICES ASSUME c.phase = "answered", ~c.reply.Success, c.reply.Term =< c.Term
                 PROVE  RejectIs(g, c)
    OBVIOUS
  <2>2. RejectIs(h, d) /\ c.reply = d.reply
    BY <2>1 DEF AppendCallIs, SameAppend
  <2>3. d.reply.XLen \in Int
    BY DEF AppendEntriesCall, AppendEntriesReply
  <2> QED BY <1>1, <1>2, <1>3, <2>2, <2>3 DEF RejectIs, SameAppend
<1> QED BY <1>3, <1>5, <1>6, <1>7, <1>8, <1>9, <1>10 DEF AppendCallIs, SameAppend

LEMMA SnapCallStays ==
  ASSUME NEW h, HistoryInv(h), NEW g, HistoryInv(g), Grows(h, g),
         NEW d \in InstallSnapshotCall, Len(d.Data) = d.LastIncludedIndex,
         SnapCallIs(h, d), NEW c, SameSnap(c, d)
  PROVE  SnapCallIs(g, c)
<1> DEFINE u == d.Term
           k == d.LastIncludedIndex
<1>1. u \in Nat /\ k \in Nat /\ d.to \in Server
  BY DEF InstallSnapshotCall
<1>2. h \in History /\ g \in History /\ h.len[u] \in Nat /\ g.len[u] \in Nat
  BY <1>1, HistoryTypes DEF HistoryInv
<1>3. h.len[u] =< g.len[u] /\ k =< h.len[u] /\ g.winner[u] # Nil
  BY <1>1 DEF Grows, SnapCallIs
<1>4. \A i \in 0 .. h.len[u] : g.entry[u][i] = h.entry[u][i]
  BY <1>1 DEF Grows
<1>5. d.LastIncludedTerm = g.entry[u][k].term
  BY <1>1, <1>2, <1>3, <1>4 DEF SnapCallIs
<1>6. Copies(g, u, d.Data)
  BY <1>1, <1>2, <1>3, CopiesStays DEF SnapCallIs
<1>7. Decided(g, k, u, u)
  BY <1>1, <1>2, <1>3, DecidedStays DEF SnapCallIs
<1>8. d.phase = "answered" /\ d.reply.Term =< u => k =< g.acked[d.to][u]
  <2>1. /\ h.acked[d.to][u] \in Nat /\ g.acked[d.to][u] \in Nat
        /\ h.acked[d.to][u] =< g.acked[d.to][u]
    BY <1>1, <1>2, HistoryTypes DEF Grows
  <2>2. d.phase = "answered" /\ d.reply.Term =< u => k =< h.acked[d.to][u]
    BY DEF SnapCallIs
  <2> HIDE DEF u, k
  <2> QED BY <1>1, <2>1, <2>2
<1>9. k =< g.len[u]
  BY <1>1, <1>2, <1>3
<1> QED BY <1>3, <1>5, <1>6, <1>7, <1>8, <1>9 DEF SnapCallIs, SameSnap

\* A reply comes on top of what was asked, and a dead caller gets none.
LEMMA AnsweredAppend ==
  ASSUME NEW calls \in SUBSET AppendEntriesCall, NEW c \in calls, NEW r,
         NEW d \in Answered(calls, c, r)
  PROVE  \/ d \in calls
         \/ /\ d.phase = "answered" /\ d.reply = r /\ d.to = c.to /\ d.Term = c.Term
            /\ d.PrevLogIndex = c.PrevLogIndex /\ d.PrevlogTerm = c.PrevlogTerm
            /\ d.Entries = c.Entries /\ d.LeaderCommit = c.LeaderCommit
<1>1. CASE d \notin calls
  <2>1. d = [c EXCEPT !.phase = "answered", !.reply = r] /\ c \in AppendEntriesCall
    BY <1>1 DEF Answered
  <2> QED BY <2>1 DEF AppendEntriesCall
<1> QED BY <1>1

LEMMA AnsweredSnap ==
  ASSUME NEW calls \in SUBSET InstallSnapshotCall, NEW c \in calls, NEW r,
         NEW d \in Answered(calls, c, r)
  PROVE  \/ d \in calls
         \/ /\ d.phase = "answered" /\ d.reply = r /\ d.to = c.to /\ d.Term = c.Term
            /\ d.LastIncludedIndex = c.LastIncludedIndex
            /\ d.LastIncludedTerm = c.LastIncludedTerm /\ d.Data = c.Data
<1>1. CASE d \notin calls
  <2>1. d = [c EXCEPT !.phase = "answered", !.reply = r] /\ c \in InstallSnapshotCall
    BY <1>1 DEF Answered
  <2> QED BY <2>1 DEF InstallSnapshotCall
<1> QED BY <1>1

LEMMA AnsweredVote ==
  ASSUME NEW calls \in SUBSET RequestVoteCall, NEW c \in calls, NEW r,
         NEW d \in Answered(calls, c, r)
  PROVE  \E e \in calls : SameVote(d, e)
<1>1. CASE d \notin calls
  <2>1. d = [c EXCEPT !.phase = "answered", !.reply = r] /\ c \in RequestVoteCall
    BY <1>1 DEF Answered
  <2>2. SameVote(d, c)
    BY <2>1 DEF RequestVoteCall, SameVote
  <2> QED BY <2>2
<1>2. CASE d \in calls
  BY <1>2 DEF SameVote
<1> QED BY <1>1, <1>2

LEMMA OrphanedCalls ==
  ASSUME TypeOK, NEW s
  PROVE  /\ \A d \in Orphaned(voteCalls, s) : \E e \in voteCalls : SameVote(d, e)
         /\ \A d \in Orphaned(appendCalls, s) : \E e \in appendCalls : SameAppend(d, e)
         /\ \A d \in Orphaned(snapCalls, s) : \E e \in snapCalls : SameSnap(d, e)
<1>1. ASSUME NEW d \in Orphaned(voteCalls, s) PROVE \E e \in voteCalls : SameVote(d, e)
  <2>1. PICK e \in voteCalls : d = e \/ d = [e EXCEPT !.phase = "orphan"]
    BY DEF Orphaned
  <2>2. e \in RequestVoteCall
    BY DEF TypeOK
  <2>3. SameVote(d, e)
    BY <2>1, <2>2 DEF SameVote, RequestVoteCall
  <2> QED BY <2>3
<1>2. ASSUME NEW d \in Orphaned(appendCalls, s) PROVE \E e \in appendCalls : SameAppend(d, e)
  <2>1. PICK e \in appendCalls : d = e \/ d = [e EXCEPT !.phase = "orphan"]
    BY DEF Orphaned
  <2>2. e \in AppendEntriesCall
    BY DEF TypeOK
  <2>3. SameAppend(d, e)
    BY <2>1, <2>2 DEF SameAppend, AppendEntriesCall
  <2> QED BY <2>3
<1>3. ASSUME NEW d \in Orphaned(snapCalls, s) PROVE \E e \in snapCalls : SameSnap(d, e)
  <2>1. PICK e \in snapCalls : d = e \/ d = [e EXCEPT !.phase = "orphan"]
    BY DEF Orphaned
  <2>2. e \in InstallSnapshotCall
    BY DEF TypeOK
  <2>3. SameSnap(d, e)
    BY <2>1, <2>2 DEF SameSnap, InstallSnapshotCall
  <2> QED BY <2>3
<1> QED BY <1>1, <1>2, <1>3

-----------------------------------------------------------------------------
(***************************************************************************)
(* ONE STEP.  A step is safe if the history grows in a way that explains   *)
(* the new state and keeps what was committed.  MovesAre lists what has to *)
(* be shown of a step: what is new.  What was there before stays.          *)
(***************************************************************************)

Keeps(h, g) == \A s \in Server : KeepsLog(h, g, s, commitIndex[s])

SafeStep(h) == \E g : HistoryInv(g) /\ Keeps(h, g) /\ StateIs(g)'

\* Before the step: everything proved so far, and a history.
Explained(h) ==
    /\ TypeOK /\ DurableState /\ IndexOrder /\ SnapshotsInFlight /\ ElectionInv /\ ApplierInv
    /\ TypeOK' /\ DurableState' /\ ElectionInv'
    /\ [Next]_vars
    /\ HistoryInv(h) /\ StateIs(h)

\* Candidates are new ones, in a later term, or have not moved; their voters had voted
\* for them, or find them up to date.
CandidatesMove(h, g) ==
    \A s \in Server : state'[s] = "Candidate" =>
        /\ \/ term'[s] > term[s]
           \/ /\ state[s] = "Candidate" /\ term'[s] = term[s]
              /\ g.lastIndex[s] = h.lastIndex[s] /\ g.lastTerm[s] = h.lastTerm[s]
        /\ \A p \in Server : Granted(p, s, term[s])' =>
              \/ term'[s] = term[s] /\ Granted(p, s, term[s])
              \/ g.lastTerm[s] > g.lastTerm[p]
              \/ g.lastTerm[s] = g.lastTerm[p] /\ g.lastIndex[s] >= g.lastIndex[p]

MovesAre(h, g) ==
    /\ HistoryInv(g) /\ Grows(h, g)
    /\ \A s \in Server : PeerIs(g, s)'
    /\ CandidatesMove(h, g)
    /\ \A t \in Nat : h.winner[t] = Nil /\ g.winner[t] # Nil => WinnerIs(t, g.winner[t])'
    /\ \A c \in appendCalls' : AppendCallIs(g, c) \/ \E d \in appendCalls : SameAppend(c, d)
    /\ \A c \in snapCalls' : SnapCallIs(g, c) \/ \E d \in snapCalls : SameSnap(c, d)
    /\ \A c \in voteCalls' : VoteCallIs(g, c)' \/ \E d \in voteCalls : SameVote(c, d)

LEMMA TermsNeverFall ==
  ASSUME NEW h, Explained(h), NEW p \in Server
  PROVE  term[p] \in Nat /\ term'[p] \in Nat /\ term'[p] >= term[p]
BY NextVotes DEF Explained, TypeOK

\* A winner stays known.
LEMMA WinnerStays ==
  ASSUME NEW h, Explained(h), NEW g, CandidatesMove(h, g), NEW t \in Nat, NEW w \in Server,
         WinnerIs(t, w)
  PROVE  WinnerIs(t, w)'
<1>1. term[w] \in Nat /\ term'[w] \in Nat /\ term'[w] >= term[w]
  BY TermsNeverFall
<1>2. term'[w] > t \/ (term'[w] = t /\ state'[w] # "Candidate")
  BY <1>1 DEF CandidatesMove, WinnerIs
<1>3. PICK Q \in Majorities : \A p \in Q : Bound(p, t, w)
  BY DEF WinnerIs
<1>4. ASSUME NEW p \in Q PROVE Bound(p, t, w)'
  <2>1. p \in Server /\ VotedFor(p, t, w) /\ \A s \in Server : Granted(p, s, t) => s = w
    BY <1>3 DEF Majorities, Bound
  <2>2. VotedFor(p, t, w)'
    BY <2>1, StillBound DEF Explained
  <2>3. ASSUME NEW s \in Server, Granted(p, s, t)' PROVE s = w
    <3>1. Granted(p, s, t) \/ \A v \in Server : VotedFor(p, t, v) => v = s
      BY <2>1, <2>3, NextGrants DEF Explained
    <3> QED BY <2>1, <3>1
  <2> QED BY <2>2, <2>3 DEF Bound
<1>5. t >= 1
  BY DEF WinnerIs
<1> QED BY <1>2, <1>3, <1>4, <1>5 DEF WinnerIs, Majorities

\* A voter that has voted stays informed: it has left the earlier terms.
LEMMA InformedStays ==
  ASSUME NEW h, HistoryInv(h), NEW g, HistoryInv(g), Grows(h, g),
         NEW p \in Server, NEW s \in Server, NEW u \in Nat, u =< h.term[p], Informed(h, p, s, u),
         g.lastIndex[s] = h.lastIndex[s], g.lastTerm[s] = h.lastTerm[s]
  PROVE  Informed(g, p, s, u)
<1>0. h \in History /\ g \in History /\ PeersConsistent(h) /\ h.term[p] \in Nat
  BY HistoryTypes DEF HistoryInv
<1>1. SUFFICES ASSUME NEW t \in Nat, NEW i \in Nat, t < u, Own(g, i, t), i =< g.acked[p][t]
               PROVE  Holds(g, s, t, i) \/ Abandoned(g, i, t)
  BY DEF Informed
<1>2. /\ h.acked[p][t] \in Nat /\ h.len[t] \in Nat /\ g.acked[p][t] = h.acked[p][t]
      /\ h.acked[p][t] =< h.len[t]
  BY <1>0, <1>1, HistoryTypes DEF Grows, HistoryInv, AcksHeld
<1>3. Own(h, i, t)
  BY <1>0, <1>1, <1>2, OwnStays
<1>4. Holds(h, s, t, i) \/ Abandoned(h, i, t)
  BY <1>1, <1>2, <1>3 DEF Informed
<1> QED BY <1>0, <1>4, HoldsStays, AbandonedStays

\* A step that moves as MovesAre says leads to an explained state.
LEMMA StateMoves ==
  ASSUME NEW h, Explained(h), NEW g, MovesAre(h, g)
  PROVE  StateIs(g)'
<1>0. /\ HistoryInv(h) /\ HistoryInv(g) /\ Grows(h, g) /\ CandidatesMove(h, g) /\ StateIs(h)
      /\ h \in History /\ g \in History
  BY DEF Explained, MovesAre, HistoryInv
<1>1. \A s \in Server : PeerIs(g, s)'
  BY DEF MovesAre
<1>2. ASSUME NEW t \in Nat, g.winner[t] # Nil PROVE WinnerIs(t, g.winner[t])'
  <2>1. CASE h.winner[t] = Nil
    BY <1>2, <2>1 DEF MovesAre
  <2>2. CASE h.winner[t] # Nil
    <3>1. g.winner[t] = h.winner[t] /\ h.winner[t] \in Server
      BY <1>0, <2>2, HistoryTypes DEF Grows
    <3>2. WinnerIs(t, h.winner[t])
      BY <1>0, <2>2 DEF StateIs
    <3> QED BY <1>0, <3>1, <3>2, WinnerStays
  <2> QED BY <2>1, <2>2
<1>3. ASSUME NEW c \in appendCalls' PROVE AppendCallIs(g, c)
  <2>1. CASE AppendCallIs(g, c)
    BY <2>1
  <2>2. ASSUME NEW d \in appendCalls, SameAppend(c, d) PROVE AppendCallIs(g, c)
    <3>1. d \in AppendEntriesCall /\ AppendCallIs(h, d)
      BY <1>0 DEF Explained, TypeOK, StateIs
    <3> QED BY <1>0, <2>2, <3>1, AppendCallStays
  <2> QED BY <1>3, <2>1, <2>2 DEF MovesAre
<1>4. ASSUME NEW c \in snapCalls' PROVE SnapCallIs(g, c)
  <2>1. CASE SnapCallIs(g, c)
    BY <2>1
  <2>2. ASSUME NEW d \in snapCalls, SameSnap(c, d) PROVE SnapCallIs(g, c)
    <3>1. d \in InstallSnapshotCall /\ SnapCallIs(h, d) /\ Len(d.Data) = d.LastIncludedIndex
      BY <1>0 DEF Explained, TypeOK, StateIs, SnapshotsInFlight
    <3> QED BY <1>0, <2>2, <3>1, SnapCallStays
  <2> QED BY <1>4, <2>1, <2>2 DEF MovesAre
<1>5. ASSUME NEW c \in voteCalls' PROVE VoteCallIs(g, c)'
  <2>1. CASE VoteCallIs(g, c)'
    BY <2>1
  <2>2. ASSUME NEW d \in voteCalls, SameVote(c, d) PROVE VoteCallIs(g, c)'
    <3>1. d \in RequestVoteCall /\ VoteCallIs(h, d)
      BY <1>0 DEF Explained, TypeOK, StateIs
    <3>2. d.from \in Server /\ d.Term \in Nat
      BY <3>1 DEF RequestVoteCall
    <3>3. term[d.from] \in Nat /\ term'[d.from] \in Nat /\ term'[d.from] >= term[d.from]
      BY <3>2, TermsNeverFall
    <3>4. c.from = d.from /\ c.Term = d.Term /\ c.Term =< term'[c.from]
      BY <2>2, <3>1, <3>2, <3>3 DEF SameVote, VoteCallIs
    <3>5. ASSUME c.Term = term'[c.from], state'[c.from] = "Candidate"
          PROVE  c.LastlogIndex = g.lastIndex[c.from] /\ c.LastlogTerm = g.lastTerm[c.from]
      <4>1. ~(term'[d.from] > term[d.from])
        BY <3>1, <3>2, <3>3, <3>4, <3>5 DEF VoteCallIs
      <4>2. /\ state[d.from] = "Candidate" /\ term'[d.from] = term[d.from]
            /\ g.lastIndex[d.from] = h.lastIndex[d.from]
            /\ g.lastTerm[d.from] = h.lastTerm[d.from]
        BY <1>0, <3>2, <3>4, <3>5, <4>1 DEF CandidatesMove
      <4> QED BY <2>2, <3>1, <3>4, <3>5, <4>2 DEF SameVote, VoteCallIs
    <3> QED BY <3>4, <3>5 DEF VoteCallIs
  <2> QED BY <1>5, <2>1, <2>2 DEF MovesAre
<1>6. ASSUME NEW s \in Server, NEW p \in Server, state'[s] = "Candidate",
             Granted(p, s, term[s])'
      PROVE  Informed(g, p, s, term'[s])
  <2>1. term[s] \in Nat /\ term'[s] \in Nat /\ term[p] \in Nat
    BY TermsNeverFall
  <2>2. CASE \/ g.lastTerm[s] > g.lastTerm[p]
             \/ g.lastTerm[s] = g.lastTerm[p] /\ g.lastIndex[s] >= g.lastIndex[p]
    <3>1. \A t \in Nat, i \in Nat : Own(g, i, t) /\ i =< g.acked[p][t] =>
             Holds(g, s, t, i) \/ Abandoned(g, i, t)
      BY <1>0, <2>2, UpToDateSuffices
    <3> QED BY <3>1 DEF Informed
  <2>3. CASE term'[s] = term[s] /\ Granted(p, s, term[s])
    <3>1. /\ state[s] = "Candidate"
          /\ g.lastIndex[s] = h.lastIndex[s] /\ g.lastTerm[s] = h.lastTerm[s]
      BY <1>0, <1>6, <2>1, <2>3 DEF CandidatesMove
    <3>2. Informed(h, p, s, term[s])
      BY <1>0, <2>3, <3>1 DEF StateIs
    <3>3. VotedFor(p, term[s], s)
      BY <2>1, <2>3 DEF Explained, ElectionInv, VotesBacked
    <3>4. term[s] =< h.term[p]
      BY <1>0, <2>1, <3>3 DEF VotedFor, StateIs, PeerIs
    <3> QED BY <1>0, <2>1, <2>3, <3>1, <3>2, <3>4, InformedStays
  <2> QED BY <1>0, <1>6, <2>2, <2>3 DEF CandidatesMove
<1>7. (\A c \in appendCalls : AppendCallIs(g, c))'
  BY <1>3
<1>8. (\A c \in snapCalls : SnapCallIs(g, c))'
  BY <1>4
<1>9. (\A s, p \in Server : state[s] = "Candidate" /\ Granted(p, s, term[s]) =>
                              Informed(g, p, s, term[s]))'
  BY <1>6
<1> QED BY <1>1, <1>2, <1>5, <1>7, <1>8, <1>9 DEF StateIs

-----------------------------------------------------------------------------
(* PEERS THAT KEEP THEIR LOGS *)

SameService(p) == /\ applied'[p] = applied[p] /\ delivering'[p] = delivering[p]
                  /\ pendingSnapshot'[p] = pendingSnapshot[p]

SameLog(p) == /\ log'[p] = log[p] /\ lastIncludedIndex'[p] = lastIncludedIndex[p]
              /\ snapshot'[p] = snapshot[p]

\* A state, with a history that explains it.
Reached(h) == /\ TypeOK /\ DurableState /\ IndexOrder /\ ElectionInv /\ ApplierInv
              /\ HistoryInv(h) /\ StateIs(h)

LEMMA PeerStands ==
  ASSUME NEW h, Reached(h), NEW p \in Server
  PROVE  /\ PeerIs(h, p) /\ HistoryInv(h) /\ h \in History
         /\ term[p] \in Nat /\ commitIndex[p] \in Nat /\ lastIncludedIndex[p] \in Nat
         /\ Len(log[p]) \in Nat \ {0} /\ Len(snapshot[p]) = lastIncludedIndex[p]
         /\ lastIncludedIndex[p] =< commitIndex[p]
         /\ h.term[p] = term[p] /\ h.lastIndex[p] = LastLogIndex(p)
         /\ commitIndex[p] =< h.lastIndex[p]
         /\ nextIndex[p] \in [Server -> Nat] /\ matchIndex[p] \in [Server -> Nat]
<1>1. /\ PeerIs(h, p) /\ HistoryInv(h) /\ h \in History /\ TypeOK
  BY DEF Reached, StateIs, HistoryInv
<1>2. Len(log[p]) \in Nat \ {0} /\ lastIncludedIndex[p] \in Nat
  BY <1>1, LogFacts
<1>3. /\ term[p] \in Nat /\ commitIndex[p] \in Nat /\ lastApplied[p] \in Nat
      /\ nextIndex[p] \in [Server -> Nat] /\ matchIndex[p] \in [Server -> Nat]
  BY <1>1 DEF TypeOK
<1>4. lastIncludedIndex[p] =< commitIndex[p]
  BY <1>2, <1>3 DEF Reached, IndexOrder
<1>5. Len(snapshot[p]) = lastIncludedIndex[p]
  BY DEF Reached, DurableState
<1> QED BY <1>1, <1>2, <1>3, <1>4, <1>5, TermIs DEF PeerIs, Committed

LEMMA PeerFacts ==
  ASSUME NEW h, Explained(h), NEW p \in Server
  PROVE  /\ PeerIs(h, p) /\ HistoryInv(h) /\ h \in History
         /\ term[p] \in Nat /\ commitIndex[p] \in Nat /\ lastIncludedIndex[p] \in Nat
         /\ Len(log[p]) \in Nat \ {0} /\ Len(snapshot[p]) = lastIncludedIndex[p]
         /\ lastIncludedIndex[p] =< commitIndex[p]
         /\ h.term[p] = term[p] /\ h.lastIndex[p] = LastLogIndex(p)
         /\ commitIndex[p] =< h.lastIndex[p]
         /\ nextIndex[p] \in [Server -> Nat] /\ matchIndex[p] \in [Server -> Nat]
<1>1. Reached(h)
  BY DEF Explained, Reached
<1> QED BY <1>1, PeerStands

LEMMA PeerStays ==
  ASSUME NEW h, Explained(h), NEW g, HistoryInv(g), Grows(h, g), NEW p \in Server,
         g.lastIndex[p] = h.lastIndex[p], g.lastTerm[p] = h.lastTerm[p], g.term[p] = term'[p],
         SameLog(p),
         commitIndex'[p] =< commitIndex[p] \/ Committed(g, p, commitIndex'[p]),
         SameService(p) \/ Serves(g, p, applied'[p], delivering'[p], pendingSnapshot'[p]),
         state'[p] = "Leader" =>
            \/ Leads(g, p, nextIndex'[p], matchIndex'[p])
            \/ /\ state[p] = "Leader" /\ term'[p] = term[p]
               /\ nextIndex'[p] = nextIndex[p] /\ matchIndex'[p] = matchIndex[p]
               /\ g.len[term[p]] = h.len[term[p]],
         state'[p] = "Candidate" => state[p] = "Candidate" \/ term'[p] > term[p]
  PROVE  PeerIs(g, p)' /\ KeepsLog(h, g, p, commitIndex[p])
<1>0. /\ PeerIs(h, p) /\ HistoryInv(h) /\ h \in History
      /\ term[p] \in Nat /\ commitIndex[p] \in Nat /\ lastIncludedIndex[p] \in Nat
      /\ Len(log[p]) \in Nat \ {0} /\ Len(snapshot[p]) = lastIncludedIndex[p]
      /\ h.term[p] = term[p] /\ commitIndex[p] =< h.lastIndex[p]
      /\ nextIndex[p] \in [Server -> Nat] /\ matchIndex[p] \in [Server -> Nat]
  BY PeerFacts
<1>1. KeepsLog(h, g, p, commitIndex[p])
  BY <1>0, SamePlaceKeeps
<1>2. IsLog(g, p, log'[p], lastIncludedIndex'[p], snapshot'[p])
  BY <1>0, IsLogStays DEF PeerIs, SameLog
<1>3. commitIndex'[p] \in Nat /\ term'[p] \in Nat
  BY DEF Explained, TypeOK
<1>4. Committed(g, p, commitIndex'[p])
  BY <1>0, <1>3, CommitStays DEF PeerIs
<1>5. Serves(g, p, applied'[p], delivering'[p], pendingSnapshot'[p])
  <2>1. Reaches(applied[p], delivering[p], pendingSnapshot[p], commitIndex[p])
    BY ServiceReaches DEF Explained
  <2>2. Serves(g, p, applied[p], delivering[p], pendingSnapshot[p])
    BY <1>0, <1>1, <2>1, ServesKept DEF PeerIs
  <2> QED BY <2>2 DEF SameService
<1>6. ASSUME state'[p] = "Leader" PROVE Leads(g, p, nextIndex'[p], matchIndex'[p])
  BY <1>0, <1>6, LeadsStays DEF PeerIs
<1>7. ASSUME state'[p] = "Candidate" PROVE term'[p] >= 1
  BY <1>0, <1>3, <1>7, TermsNeverFall DEF PeerIs
<1> QED BY <1>1, <1>2, <1>4, <1>5, <1>6, <1>7 DEF PeerIs

\* A peer that does not take part.
LEMMA BystanderStays ==
  ASSUME NEW h, Explained(h), NEW g, HistoryInv(g), Grows(h, g), NEW p \in Server,
         g.lastIndex[p] = h.lastIndex[p], g.lastTerm[p] = h.lastTerm[p], g.term[p] = h.term[p],
         term'[p] = term[p], state'[p] = state[p], commitIndex'[p] = commitIndex[p],
         nextIndex'[p] = nextIndex[p], matchIndex'[p] = matchIndex[p],
         SameLog(p), SameService(p),
         state[p] = "Leader" => g.len[term[p]] = h.len[term[p]]
  PROVE  PeerIs(g, p)' /\ KeepsLog(h, g, p, commitIndex[p])
<1>1. h.term[p] = term[p] /\ commitIndex[p] \in Nat
  BY PeerFacts
<1> QED BY <1>1, PeerStays

\* What is new in the sets of calls, with no new acknowledgement.
CallsMove(h) ==
    /\ \A c \in appendCalls' : AppendCallIs(h, c) \/ \E d \in appendCalls : SameAppend(c, d)
    /\ \A c \in snapCalls' : SnapCallIs(h, c) \/ \E d \in snapCalls : SameSnap(c, d)
    /\ \A c \in voteCalls' : VoteCallIs(h, c)' \/ \E d \in voteCalls : SameVote(c, d)

\* A step that changes no log, and in which nobody wins an election.
LEMMA InPlaceSafe ==
  ASSUME NEW h, Explained(h), \A p \in Server : SameLog(p), CandidatesMove(h, h), CallsMove(h),
         \A p \in Server : commitIndex'[p] =< commitIndex[p] \/ Committed(h, p, commitIndex'[p]),
         \A p \in Server : \/ SameService(p)
                           \/ Serves(h, p, applied'[p], delivering'[p], pendingSnapshot'[p]),
         \A p \in Server : state'[p] = "Leader" =>
            term'[p] = term[p] /\ Leads(h, p, nextIndex'[p], matchIndex'[p])
  PROVE  SafeStep(h)
<1>0. HistoryInv(h) /\ h \in History /\ SnapshotsInFlight'
  <2>1. SnapshotsInFlight'
    BY NextSnapshotsInFlight DEF Explained
  <2> QED BY <2>1 DEF Explained, HistoryInv
<1>1. term' \in [Server -> Nat] /\ \A p \in Server : term'[p] >= h.term[p]
  BY TermsNeverFall, PeerFacts DEF Explained, TypeOK
<1>2. PICK tm \in [Server -> Nat] : tm = term'
  BY <1>1
<1>3. PICK g \in History : TermsGrow(h, g) /\ g.term = tm /\ HistoryInv(g) /\ Grows(h, g)
  BY <1>0, <1>1, <1>2, TermsCanGrow
<1>4. /\ g.winner = h.winner /\ g.entry = h.entry /\ g.len = h.len /\ g.acked = h.acked
      /\ g.lastIndex = h.lastIndex /\ g.lastTerm = h.lastTerm
  BY <1>3 DEF TermsGrow
<1>5. ASSUME NEW p \in Server
      PROVE  PeerIs(g, p)' /\ KeepsLog(h, g, p, commitIndex[p])
  <2>1. g.term[p] = term'[p]
    BY <1>2, <1>3
  <2>2. commitIndex'[p] \in Nat /\ nextIndex'[p] \in [Server -> Nat]
        /\ matchIndex'[p] \in [Server -> Nat]
    BY DEF Explained, TypeOK
  <2>3. commitIndex'[p] =< commitIndex[p] \/ Committed(g, p, commitIndex'[p])
    <3>1. CASE Committed(h, p, commitIndex'[p])
      BY <1>0, <1>3, <1>4, <2>2, <3>1, CommitStays
    <3> QED BY <3>1
  <2>4. SameService(p) \/ Serves(g, p, applied'[p], delivering'[p], pendingSnapshot'[p])
    <3>1. CASE Serves(h, p, applied'[p], delivering'[p], pendingSnapshot'[p])
      BY <1>4, <3>1, ServesSame
    <3> QED BY <3>1
  <2>5. state'[p] = "Leader" => Leads(g, p, nextIndex'[p], matchIndex'[p])
    <3>1. SUFFICES ASSUME state'[p] = "Leader"
                   PROVE  Leads(g, p, nextIndex'[p], matchIndex'[p])
      OBVIOUS
    <3>2. g.term[p] = h.term[p] /\ Leads(h, p, nextIndex'[p], matchIndex'[p])
      BY <2>1, <3>1, PeerFacts
    <3> QED BY <1>0, <1>3, <1>4, <2>2, <3>2, LeadsStays
  <2>6. state'[p] = "Candidate" => state[p] = "Candidate" \/ term'[p] > term[p]
    BY DEF CandidatesMove
  <2> QED BY <1>3, <1>4, <2>1, <2>3, <2>4, <2>5, <2>6, PeerStays
<1>6. CandidatesMove(h, g)
  BY <1>4 DEF CandidatesMove
<1>7. ASSUME NEW c \in appendCalls'
      PROVE  AppendCallIs(g, c) \/ \E d \in appendCalls : SameAppend(c, d)
  <2>1. CASE AppendCallIs(h, c)
    <3>1. c \in AppendEntriesCall /\ SameAppend(c, c)
      BY DEF Explained, TypeOK, SameAppend
    <3> QED BY <1>0, <1>3, <2>1, <3>1, AppendCallStays
  <2> QED BY <2>1 DEF CallsMove
<1>8. ASSUME NEW c \in snapCalls'
      PROVE  SnapCallIs(g, c) \/ \E d \in snapCalls : SameSnap(c, d)
  <2>1. CASE SnapCallIs(h, c)
    <3>1. c \in InstallSnapshotCall /\ SameSnap(c, c) /\ Len(c.Data) = c.LastIncludedIndex
      BY <1>0 DEF Explained, TypeOK, SameSnap, SnapshotsInFlight
    <3> QED BY <1>0, <1>3, <2>1, <3>1, SnapCallStays
  <2> QED BY <2>1 DEF CallsMove
<1>9. ASSUME NEW c \in voteCalls'
      PROVE  VoteCallIs(g, c)' \/ \E d \in voteCalls : SameVote(c, d)
  BY <1>4 DEF CallsMove, VoteCallIs
<1>10. MovesAre(h, g)
  BY <1>3, <1>4, <1>5, <1>6, <1>7, <1>8, <1>9 DEF MovesAre
<1>11. StateIs(g)'
  BY <1>10, StateMoves
<1> QED BY <1>3, <1>5, <1>11 DEF SafeStep, Keeps

-----------------------------------------------------------------------------
(* STEPS THAT CHANGE NO LOG *)

LEMMA SameCall ==
  ASSUME NEW c PROVE SameAppend(c, c) /\ SameSnap(c, c) /\ SameVote(c, c)
BY DEF SameAppend, SameSnap, SameVote

LEMMA QuietCandidates ==
  ASSUME NEW h, Explained(h), Quiet, NEW g,
         \A s \in Server : state'[s] = "Candidate" =>
            g.lastIndex[s] = h.lastIndex[s] /\ g.lastTerm[s] = h.lastTerm[s]
  PROVE  CandidatesMove(h, g)
<1>1. \A s \in Server : state'[s] = "Candidate" => state[s] = "Candidate" /\ term'[s] = term[s]
  BY DEF Quiet
<1>2. ASSUME NEW s \in Server, state'[s] = "Candidate", NEW p \in Server, Granted(p, s, term[s])'
      PROVE  Granted(p, s, term[s])
  <2>1. PICK T \in Nat : T = term[s]
    BY DEF Explained, TypeOK
  <2>2. Granted(p, s, T)'
    BY <1>1, <1>2, <2>1
  <2> QED BY <2>1, <2>2, QuietGrants
<1> QED BY <1>1, <1>2 DEF CandidatesMove

\* A leader that goes on is the leader it was.
LEMMA QuietLeader ==
  ASSUME NEW h, Explained(h), Quiet, NEW p \in Server, state'[p] = "Leader"
  PROVE  /\ state[p] = "Leader" /\ term'[p] = term[p]
         /\ Leads(h, p, nextIndex[p], matchIndex[p])
BY PeerFacts DEF Quiet, PeerIs

LEMMA QuietSafe ==
  ASSUME NEW h, Explained(h), Quiet, \A p \in Server : SameLog(p), CallsMove(h),
         \A p \in Server : commitIndex'[p] =< commitIndex[p] \/ Committed(h, p, commitIndex'[p]),
         \A p \in Server : \/ SameService(p)
                           \/ Serves(h, p, applied'[p], delivering'[p], pendingSnapshot'[p]),
         \A p \in Server : state'[p] = "Leader" =>
            \/ Leads(h, p, nextIndex'[p], matchIndex'[p])
            \/ nextIndex'[p] = nextIndex[p] /\ matchIndex'[p] = matchIndex[p]
  PROVE  SafeStep(h)
<1>1. CandidatesMove(h, h)
  BY QuietCandidates
<1>2. \A p \in Server : state'[p] = "Leader" =>
         term'[p] = term[p] /\ Leads(h, p, nextIndex'[p], matchIndex'[p])
  BY QuietLeader
<1> QED BY <1>1, <1>2, InPlaceSafe

\* A step that changes neither logs nor counters nor services, nor commits anything.
LEMMA StillSafe ==
  ASSUME NEW h, Explained(h), Quiet, CallsMove(h),
         UNCHANGED <<log, lastIncludedIndex, snapshot, commitIndex, leaderVars>>,
         UNCHANGED <<applied, delivering, pendingSnapshot>>
  PROVE  SafeStep(h)
<1>1. \A p \in Server : SameLog(p) /\ SameService(p)
  BY DEF SameLog, SameService
<1>2. \A p \in Server : commitIndex'[p] =< commitIndex[p]
  BY PeerFacts
<1>3. \A p \in Server : nextIndex'[p] = nextIndex[p] /\ matchIndex'[p] = matchIndex[p]
  BY DEF leaderVars
<1> QED BY <1>1, <1>2, <1>3, QuietSafe

LEMMA FewerCalls ==
  ASSUME NEW h, voteCalls' \subseteq voteCalls, appendCalls' \subseteq appendCalls,
         snapCalls' \subseteq snapCalls
  PROVE  CallsMove(h)
BY SameCall DEF CallsMove

LEMMA FailureSafe ==
  ASSUME NEW h, Explained(h), Quiet,
         \/ \E c \in voteCalls : VoteCallFails(c)
         \/ \E c \in appendCalls : AppendCallFails(c)
         \/ \E c \in snapCalls : SnapCallFails(c)
         \/ UNCHANGED vars
  PROVE  SafeStep(h)
<1>1. /\ voteCalls' \subseteq voteCalls /\ appendCalls' \subseteq appendCalls
      /\ snapCalls' \subseteq snapCalls
      /\ UNCHANGED <<log, lastIncludedIndex, snapshot, commitIndex, leaderVars>>
      /\ UNCHANGED <<applied, delivering, pendingSnapshot>>
  BY DEF VoteCallFails, AppendCallFails, SnapCallFails, vars, persistentVars, applierVars,
         networkVars, leaderVars
<1> QED BY <1>1, FewerCalls, StillSafe

\* A vote that is not counted.
LEMMA IgnoredVoteSafe ==
  ASSUME NEW h, Explained(h), Quiet, NEW c \in voteCalls, HandleVoteReply(c),
         ~CountsVote(c.from, c)
  PROVE  SafeStep(h)
<1>1. /\ voteCalls' \subseteq voteCalls /\ appendCalls' \subseteq appendCalls
      /\ snapCalls' \subseteq snapCalls
      /\ UNCHANGED <<log, lastIncludedIndex, snapshot, commitIndex, leaderVars>>
      /\ UNCHANGED <<applied, delivering, pendingSnapshot>>
  BY DEF HandleVoteReply, StepDown, persistentVars, applierVars, leaderVars
<1> QED BY <1>1, FewerCalls, StillSafe

\* A leader's log is the log of its term.
LEMMA LeaderFacts ==
  ASSUME NEW h, Explained(h), NEW s \in Server, state[s] = "Leader", NEW u, u = term[s]
  PROVE  /\ u \in Nat /\ u >= 1 /\ h.winner[u] = s /\ h.winner[u] # Nil
         /\ h.len[u] = LastLogIndex(s) /\ h.len[u] \in Nat
         /\ Same(h, h.lastTerm[s], u, LastLogIndex(s))
         /\ Same(h, u, h.lastTerm[s], LastLogIndex(s))
         /\ \A i \in lastIncludedIndex[s] + 1 .. LastLogIndex(s) :
               log[s][SliceIndex(s, i)] = h.entry[u][i]
         /\ \A i : InLog(s, i) => TermAt(s, i) = h.entry[u][i].term
         /\ Copies(h, u, snapshot[s])
         /\ \A k \in Nat : k =< commitIndex[s] => Decided(h, k, u, u)
<1> DEFINE T == h.lastTerm[s]
           n == LastLogIndex(s)
           b == lastIncludedIndex[s]
<1>0. /\ PeerIs(h, s) /\ HistoryInv(h) /\ h \in History /\ u \in Nat /\ TypeOK
      /\ commitIndex[s] \in Nat /\ b \in Nat /\ Len(snapshot[s]) = b
      /\ h.term[s] = u /\ h.lastIndex[s] = n /\ commitIndex[s] =< n /\ n \in Nat /\ b =< n
  BY PeerFacts, LogFacts DEF Explained
<1>1. /\ h.winner[u] = s /\ h.len[u] = n /\ Same(h, T, u, n)
  BY <1>0 DEF PeerIs, Leads, Holds
<1>2. h.winner[u] # Nil /\ Same(h, u, T, n) /\ h.len[u] \in Nat
  BY <1>0, <1>1, RaftAssumption, SameIsEquivalence
<1>3. WinnerIs(u, s)
  BY <1>0, <1>1, <1>2 DEF Explained, StateIs
<1>4. u >= 1
  BY <1>3 DEF WinnerIs
<1>5. ASSUME NEW i \in b + 1 .. n
      PROVE  log[s][SliceIndex(s, i)] = h.entry[u][i]
  <2>1. log[s][SliceIndex(s, i)] = h.entry[T][i]
    BY <1>0 DEF PeerIs, IsLog, SliceIndex
  <2>2. i \in 0 .. n
    BY <1>0
  <2> QED BY <1>1, <2>1, <2>2 DEF Same
<1>6. ASSUME NEW i, InLog(s, i)
      PROVE  TermAt(s, i) = h.entry[u][i].term
  <2>1. TermAt(s, i) = h.entry[T][i].term
    BY <1>0, <1>6, TermIs DEF PeerIs
  <2>2. i \in 0 .. n
    BY <1>0, <1>6 DEF InLog
  <2> QED BY <1>1, <2>1, <2>2 DEF Same
<1>7. Copies(h, u, snapshot[s])
  BY <1>0, <1>1, CopiesSame DEF PeerIs, IsLog
<1>8. ASSUME NEW k \in Nat, k =< commitIndex[s] PROVE Decided(h, k, u, u)
  <2>1. Decided(h, commitIndex[s], T, u)
    BY <1>0 DEF PeerIs, Committed
  <2>2. Decided(h, k, T, u) /\ k =< n
    BY <1>0, <1>8, <2>1, DecidedBelow
  <2>3. Same(h, u, T, k)
    BY <1>0, <1>2, <2>2, SameBelow
  <2> QED BY <2>2, <2>3, DecidedSame
<1> QED BY <1>0, <1>1, <1>2, <1>4, <1>5, <1>6, <1>7, <1>8

LEMMA ReplicateSnapshotSafe ==
  ASSUME NEW h, Explained(h), Quiet, NEW s \in Server, NEW p \in Server, NEW id,
         ReplicateSnapshot(s, p, id)
  PROVE  SafeStep(h)
<1> DEFINE x == [phase |-> "sent", id |-> id, from |-> s, to |-> p, Term |-> term[s],
                 LastIncludedIndex |-> lastIncludedIndex[s],
                 LastIncludedTerm |-> lastIncludedTerm[s], Data |-> snapshot[s], reply |-> NoSnap]
<1>1. /\ state[s] = "Leader" /\ snapCalls' = snapCalls \cup {x}
      /\ voteCalls' = voteCalls /\ appendCalls' = appendCalls
      /\ UNCHANGED <<log, lastIncludedIndex, snapshot, commitIndex, leaderVars>>
      /\ UNCHANGED <<applied, delivering, pendingSnapshot>>
  BY DEF ReplicateSnapshot, persistentVars, applierVars
<1>2. /\ x.phase = "sent" /\ x.Term = term[s] /\ x.LastIncludedIndex = lastIncludedIndex[s]
      /\ x.LastIncludedTerm = lastIncludedTerm[s] /\ x.Data = snapshot[s]
  OBVIOUS
<1> HIDE DEF x
<1>3. /\ h.winner[term[s]] # Nil /\ h.len[term[s]] = LastLogIndex(s)
      /\ Copies(h, term[s], snapshot[s])
      /\ \A k \in Nat : k =< commitIndex[s] => Decided(h, k, term[s], term[s])
      /\ \A i : InLog(s, i) => TermAt(s, i) = h.entry[term[s]][i].term
  BY <1>1, LeaderFacts
<1>4. /\ lastIncludedIndex[s] \in Nat /\ lastIncludedIndex[s] =< LastLogIndex(s)
      /\ lastIncludedIndex[s] =< commitIndex[s] /\ LastLogIndex(s) \in Nat
      /\ log[s][1].term = lastIncludedTerm[s]
  BY PeerFacts, LogFacts DEF Explained, DurableState
<1>5. InLog(s, lastIncludedIndex[s]) /\ TermAt(s, lastIncludedIndex[s]) = lastIncludedTerm[s]
  BY <1>4 DEF InLog, TermAt, SliceIndex
<1>6. SnapCallIs(h, x)
  BY <1>2, <1>3, <1>4, <1>5 DEF SnapCallIs
<1>7. CallsMove(h)
  BY <1>1, <1>6, SameCall DEF CallsMove
<1> QED BY <1>1, <1>7, StillSafe

\* e is the end of the log q, from position i on.
IsEnd(e, q, i) == /\ Len(e) = Len(q) - i + 1
                  /\ \A j \in 1 .. Len(e) : e[j] = q[i + j - 1]

\* The end of a sequence, from position i on.
LEMMA EndOfSequence ==
  ASSUME NEW S, NEW q \in Seq(S), NEW i \in Nat, i >= 1, i =< Len(q) + 1
  PROVE  /\ SubSeq(q, i, Len(q)) \in Seq(S)
         /\ Len(SubSeq(q, i, Len(q))) = Len(q) - i + 1
         /\ \A j \in 1 .. Len(q) - i + 1 : SubSeq(q, i, Len(q))[j] = q[i + j - 1]
<1>1. Len(q) \in Nat /\ \A k \in i .. Len(q) : q[k] \in S
  BY LenProperties, ElementOfSeq
<1>2. /\ SubSeq(q, i, Len(q)) \in Seq(S)
      /\ Len(SubSeq(q, i, Len(q))) = IF i =< Len(q) THEN Len(q) - i + 1 ELSE 0
      /\ \A j \in 1 .. Len(q) - i + 1 : SubSeq(q, i, Len(q))[j] = q[i + j - 1]
  BY <1>1, SubSeqProperties
<1>3. (IF i =< Len(q) THEN Len(q) - i + 1 ELSE 0) = Len(q) - i + 1
  BY <1>1
<1> QED BY <1>2, <1>3

LEMMA EndOfLog ==
  ASSUME NEW q \in Seq(LogEntry), NEW i \in Nat, i >= 1, i =< Len(q) + 1, NEW e,
         e = SubSeq(q, i, Len(q))
  PROVE  e \in Seq(LogEntry) /\ IsEnd(e, q, i)
<1>1. /\ e \in Seq(LogEntry) /\ Len(e) = Len(q) - i + 1
      /\ \A j \in 1 .. Len(q) - i + 1 : e[j] = q[i + j - 1]
  BY EndOfSequence
<1> QED BY <1>1 DEF IsEnd

LEMMA ReplicateEntriesSafe ==
  ASSUME NEW h, Explained(h), Quiet, NEW s \in Server, NEW p \in Server, NEW id,
         ReplicateEntries(s, p, id)
  PROVE  SafeStep(h)
<1> DEFINE next == nextIndex[s][p]
           b == lastIncludedIndex[s]
           n == LastLogIndex(s)
           u == term[s]
           x == [phase |-> "sent", id |-> id, from |-> s, to |-> p, Term |-> term[s],
                 PrevLogIndex |-> next - 1, PrevlogTerm |-> TermAt(s, next - 1),
                 Entries |-> EntriesFrom(s, next),
                 LeaderCommit |-> commitIndex[s], reply |-> NoAppend]
<1>1. /\ state[s] = "Leader" /\ appendCalls' = appendCalls \cup {x}
      /\ next > b /\ InLog(s, next - 1)
      /\ voteCalls' = voteCalls /\ snapCalls' = snapCalls
      /\ UNCHANGED <<log, lastIncludedIndex, snapshot, commitIndex, leaderVars>>
      /\ UNCHANGED <<applied, delivering, pendingSnapshot>>
  BY DEF ReplicateEntries, persistentVars, applierVars
<1>2. /\ x.phase = "sent" /\ x.Term = u /\ x.PrevLogIndex = next - 1
      /\ x.PrevlogTerm = TermAt(s, next - 1) /\ x.Entries = EntriesFrom(s, next)
      /\ x.LeaderCommit = commitIndex[s]
  OBVIOUS
<1> HIDE DEF x
<1>3. /\ h.winner[u] # Nil /\ h.len[u] = n
      /\ Decided(h, commitIndex[s], u, u)
      /\ \A i \in b + 1 .. n : log[s][SliceIndex(s, i)] = h.entry[u][i]
      /\ \A i : InLog(s, i) => TermAt(s, i) = h.entry[u][i].term
  BY <1>1, LeaderFacts, PeerFacts, SMTT(40)
<1>4. /\ b \in Nat /\ n \in Nat /\ n = b + Len(log[s]) - 1 /\ Len(log[s]) \in Nat
      /\ log[s] \in Seq(LogEntry) /\ commitIndex[s] =< n /\ next \in Nat
  BY PeerFacts, LogFacts DEF Explained, TypeOK
<1>5. next - 1 =< n
  BY <1>1, <1>4 DEF InLog
<1> DEFINE i == SliceIndex(s, next)
           e == EntriesFrom(s, next)
<1>6. i = next - b + 1 /\ i \in Nat /\ i >= 2 /\ i =< Len(log[s]) + 1
  BY <1>1, <1>4, <1>5, SMTT(40) DEF SliceIndex
<1>7. /\ e = SubSeq(log[s], i, Len(log[s]))
  BY DEF EntriesFrom
<1> HIDE DEF i, e
<1>8. /\ Len(e) = Len(log[s]) - i + 1
      /\ \A j \in 1 .. Len(e) : e[j] = log[s][i + j - 1]
  <2>1. i >= 1
    BY <1>6
  <2>2. IsEnd(e, log[s], i)
    BY <1>4, <1>6, <1>7, <2>1, EndOfLog
  <2> QED BY <2>2 DEF IsEnd
<1> HIDE DEF b, n, u, next
<1>9. next - 1 + Len(e) = n
  <2>1. Len(e) = Len(log[s]) - i + 1
    BY <1>8
  <2>2. n = b + Len(log[s]) - 1 /\ b \in Nat /\ Len(log[s]) \in Nat /\ next \in Nat
    BY <1>4
  <2> QED BY <1>6, <2>1, <2>2
<1>10. ASSUME NEW j \in 1 .. Len(e) PROVE e[j] = h.entry[u][next - 1 + j]
  <2>1. next - 1 + j \in b + 1 .. n
    BY <1>1, <1>4, <1>6, <1>8, <1>9
  <2>2. SliceIndex(s, next - 1 + j) = i + j - 1
    <3>1. SliceIndex(s, next - 1 + j) = (next - 1 + j) - b + 1
      BY DEF SliceIndex, b
    <3> QED BY <1>4, <1>6, <3>1
  <2> QED BY <1>3, <1>8, <2>1, <2>2
<1>11. AppendCallIs(h, x)
  BY <1>1, <1>2, <1>3, <1>4, <1>9, <1>10 DEF AppendCallIs, e
<1>12. CallsMove(h)
  BY <1>1, <1>11, SameCall DEF CallsMove
<1> QED BY <1>1, <1>12, StillSafe

\* InstallSnapshot() from a leader of an earlier term.
LEMMA StaleSnapshotSafe ==
  ASSUME NEW h, Explained(h), Quiet, NEW c \in snapCalls, InstallSnapshot(c),
         ~(c.Term >= term[c.to])
  PROVE  SafeStep(h)
<1> DEFINE r == [Term |-> term'[c.to]]
<1>0. c \in InstallSnapshotCall /\ snapCalls \in SUBSET InstallSnapshotCall
  BY DEF Explained, TypeOK
<1>1. c.to \in Server /\ c.Term \in Nat /\ term[c.to] \in Nat /\ ~(c.Term > term[c.to])
  <2>1. c.to \in Server /\ c.Term \in Nat
    BY <1>0 DEF InstallSnapshotCall
  <2>2. term[c.to] \in Nat
    BY <2>1, PeerFacts
  <2> QED BY <2>1, <2>2
<1>2. ~Installs(c.to, c)
  BY DEF Installs
<1>3. /\ UNCHANGED <<log, lastIncludedIndex, snapshot, commitIndex, leaderVars>>
      /\ UNCHANGED <<applied, delivering, pendingSnapshot>>
      /\ term' = [term EXCEPT ![c.to] = term[c.to]]
      /\ snapCalls' = Answered(snapCalls, c, r)
      /\ voteCalls' = voteCalls /\ appendCalls' = appendCalls
  BY <1>1, <1>2 DEF InstallSnapshot
<1>4. r.Term = term[c.to]
  BY <1>1, <1>3 DEF Explained, TypeOK
<1> HIDE DEF r
<1>5. SnapCallIs(h, c)
  BY DEF Explained, StateIs
<1>6. ASSUME NEW d \in snapCalls'
      PROVE  SnapCallIs(h, d) \/ \E e \in snapCalls : SameSnap(d, e)
  <2>1. CASE d \in snapCalls
    BY <2>1, SameCall
  <2>2. CASE d \notin snapCalls
    <3>1. /\ d.reply = r /\ d.Term = c.Term /\ d.LastIncludedIndex = c.LastIncludedIndex
          /\ d.LastIncludedTerm = c.LastIncludedTerm /\ d.Data = c.Data
      BY <1>0, <1>3, <2>2, AnsweredSnap
    <3>2. ~(d.reply.Term =< d.Term)
      BY <1>1, <1>4, <3>1
    <3> QED BY <1>5, <3>1, <3>2 DEF SnapCallIs
  <2> QED BY <2>1, <2>2
<1>7. CallsMove(h)
  BY <1>3, <1>6, SameCall DEF CallsMove
<1> QED BY <1>3, <1>7, StillSafe

LEMMA HandleSnapReplySafe ==
  ASSUME NEW h, Explained(h), Quiet, NEW c \in snapCalls, HandleSnapReply(c)
  PROVE  SafeStep(h)
<1> DEFINE s == c.from
           p == c.to
           k == c.LastIncludedIndex
           current == c.reply.Term =< term[s] /\ state[s] = "Leader" /\ term[s] = c.Term
<1>0. /\ c \in InstallSnapshotCall /\ s \in Server /\ p \in Server /\ k \in Nat /\ c.Term \in Nat
      /\ SnapCallIs(h, c) /\ HistoryInv(h) /\ h \in History /\ TypeOK /\ TypeOK'
  BY DEF Explained, TypeOK, InstallSnapshotCall, StateIs, HistoryInv
<1>1. /\ voteCalls' \subseteq voteCalls /\ appendCalls' \subseteq appendCalls
      /\ snapCalls' \subseteq snapCalls
      /\ UNCHANGED <<log, lastIncludedIndex, snapshot, commitIndex>>
      /\ UNCHANGED <<applied, delivering, pendingSnapshot>>
  BY DEF HandleSnapReply, StepDown, persistentVars, applierVars
<1>2. CallsMove(h)
  BY <1>1, FewerCalls
<1>3. CASE UNCHANGED leaderVars
  BY <1>1, <1>2, <1>3, StillSafe
<1>4. CASE ~UNCHANGED leaderVars
  <2>1. /\ c.phase = "answered" /\ current
        /\ matchIndex' = [matchIndex EXCEPT ![s][p] = Max({matchIndex[s][p], k})]
        /\ nextIndex' = [nextIndex EXCEPT ![s][p] = Max({nextIndex[s][p], k + 1})]
    BY <1>4 DEF HandleSnapReply, StepDown
  <2>2. /\ Leads(h, s, nextIndex[s], matchIndex[s]) /\ h.term[s] = c.Term
        /\ h.lastIndex[s] \in Nat
    BY <1>0, <2>1, PeerFacts, HistoryTypes DEF PeerIs
  <2>3. k =< h.acked[p][c.Term] /\ k =< h.lastIndex[s]
    BY <1>0, <2>1, <2>2 DEF SnapCallIs, Leads
  <2>4. matchIndex[s] \in [Server -> Nat] /\ nextIndex[s] \in [Server -> Nat]
    BY <1>0 DEF TypeOK
  <2>5. /\ matchIndex[s][p] \in Nat /\ nextIndex[s][p] \in Nat
    BY <1>0, <2>4
  <2>6. /\ Max({matchIndex[s][p], k}) = IF matchIndex[s][p] >= k THEN matchIndex[s][p] ELSE k
        /\ Max({nextIndex[s][p], k + 1}) = IF nextIndex[s][p] >= k + 1 THEN nextIndex[s][p] ELSE k + 1
    <3>1. k \in Int /\ k + 1 \in Int /\ matchIndex[s][p] \in Int /\ nextIndex[s][p] \in Int
      BY <1>0, <2>5
    <3> QED BY <3>1, MaxOfTwo
  <2> HIDE DEF s, p, k, current
  <2>7. \A q \in Server \ {s} : nextIndex'[q] = nextIndex[q] /\ matchIndex'[q] = matchIndex[q]
    BY <1>0, <2>1 DEF TypeOK
  <2>8. /\ \A q \in Server \ {p} : nextIndex'[s][q] = nextIndex[s][q] /\ matchIndex'[s][q] = matchIndex[s][q]
        /\ matchIndex'[s][p] = Max({matchIndex[s][p], k})
        /\ nextIndex'[s][p] = Max({nextIndex[s][p], k + 1})
    BY <1>0, <2>1, <2>4 DEF TypeOK
  <2>9. /\ matchIndex'[s][p] =< h.acked[p][c.Term] /\ matchIndex'[s][p] < nextIndex'[s][p]
        /\ nextIndex'[s][p] =< h.lastIndex[s] + 1
    <3>1. /\ matchIndex[s][p] =< h.acked[p][c.Term] /\ matchIndex[s][p] < nextIndex[s][p]
          /\ nextIndex[s][p] =< h.lastIndex[s] + 1
      BY <1>0, <2>2 DEF Leads
    <3> QED BY <1>0, <2>2, <2>3, <2>5, <2>6, <2>8, <3>1
  <2>10. Leads(h, s, nextIndex'[s], matchIndex'[s])
    BY <2>2, <2>8, <2>9 DEF Leads
  <2>11. \A q \in Server : SameLog(q) /\ SameService(q)
    BY <1>1 DEF SameLog, SameService
  <2>12. \A q \in Server : commitIndex'[q] =< commitIndex[q]
    BY <1>1, PeerFacts
  <2> QED BY <1>2, <2>7, <2>10, <2>11, <2>12, QuietSafe
<1> QED BY <1>3, <1>4

-----------------------------------------------------------------------------
(* COMMITTING *)

\* What advanceCommitIndexLocked() finds on a majority is chosen.
LEMMA MajorityCommits ==
  ASSUME NEW h, HistoryInv(h), NEW s \in Server, NEW next, NEW match \in [Server -> Nat],
         Leads(h, s, next, match), NEW lg, NEW base \in Nat, NEW data, IsLog(h, s, lg, base, data),
         NEW i \in Nat, i > base, i =< h.lastIndex[s], lg[i - base + 1].term = h.term[s],
         Cardinality({p \in Server : match[p] >= i}) >= Majority
  PROVE  Committed(h, s, i)
<1> DEFINE u == h.term[s]
           T == h.lastTerm[s]
           Q == {p \in Server : match[p] >= i}
<1>1. h \in History /\ u \in Nat /\ h.lastIndex[s] \in Nat
  BY HistoryTypes DEF HistoryInv
<1>2. h.len[u] = h.lastIndex[s] /\ Same(h, T, u, i)
  <2>1. h.len[u] = h.lastIndex[s] /\ Same(h, T, u, h.lastIndex[s])
    BY DEF Leads, Holds
  <2> QED BY <1>1, <2>1, SameBelow
<1>3. lg[i - base + 1] = h.entry[T][i]
  BY <1>1 DEF IsLog
<1>4. Own(h, i, u)
  BY <1>2, <1>3 DEF Own, Same
<1>5. Q \in Majorities
  BY DEF Majorities
<1>6. ASSUME NEW p \in Q PROVE h.acked[p][u] >= i
  <2>1. match[p] \in Nat /\ h.acked[p][u] \in Nat /\ match[p] =< h.acked[p][u] /\ match[p] >= i
    BY <1>1, HistoryTypes DEF Leads
  <2> HIDE DEF u
  <2> QED BY <2>1
<1> HIDE DEF Q
<1>7. Chosen(h, i, u)
  BY <1>4, <1>5, <1>6 DEF Chosen
<1>8. Decided(h, i, T, u)
  BY <1>1, <1>2, <1>7 DEF Decided
<1> QED BY <1>8 DEF Committed

\* advanceCommitIndexLocked() with the log and the counters of the history g.
LEMMA AdvanceCommits ==
  ASSUME TypeOK, NEW s \in Server, NEW lg, Len(lg) \in Nat, NEW match \in [Server -> Nat],
         AdvanceCommitIndex(s, lg, match),
         NEW g, HistoryInv(g), NEW next, Leads(g, s, next, match), NEW data,
         IsLog(g, s, lg, lastIncludedIndex[s], data), lastIncludedIndex[s] =< commitIndex[s],
         g.term[s] = term[s]
  PROVE  /\ commitIndex'[s] = commitIndex[s] \/ Committed(g, s, commitIndex'[s])
         /\ \A p \in Server \ {s} : commitIndex'[p] = commitIndex[p]
<1> DEFINE C == Committable(s, lg, match)
           b == lastIncludedIndex[s]
           top == b + Len(lg) - 1
<1>0. commitIndex[s] \in Nat /\ b \in Nat /\ commitIndex \in [Server -> Nat] /\ top \in Int
  BY DEF TypeOK
<1>1. CASE C = {}
  BY <1>1 DEF AdvanceCommitIndex
<1>2. CASE C # {}
  <2>1. commitIndex' = [commitIndex EXCEPT ![s] = Max(C)]
    BY <1>2 DEF AdvanceCommitIndex
  <2>2. C \subseteq commitIndex[s] + 1 .. top
    BY DEF Committable
  <2>3. \A i \in C : /\ lg[SliceIndex(s, i)].term = term[s]
                     /\ Cardinality({p \in Server : match[p] >= i}) >= Majority
    BY DEF Committable
  <2> HIDE DEF C, top
  <2>4. Max(C) \in C
    <3>1. commitIndex[s] + 1 \in Int
      BY <1>0
    <3> QED BY <1>0, <1>2, <2>2, <3>1, MaxIsGreatest
  <2>5. PICK i \in C : i = Max(C)
    BY <2>4
  <2>6. i \in Nat /\ i > b /\ i =< top
    BY <1>0, <2>2, <2>5
  <2>7. lg[i - b + 1].term = g.term[s] /\ i =< g.lastIndex[s]
    BY <2>3, <2>5, <2>6 DEF SliceIndex, IsLog, top
  <2>8. Committed(g, s, i)
    BY <1>0, <2>3, <2>5, <2>6, <2>7, MajorityCommits
  <2> QED BY <1>0, <2>1, <2>5, <2>8
<1> QED BY <1>1, <1>2

LEMMA NextAfterRejectBounds ==
  ASSUME NEW m \in Nat, NEW n \in Nat, NEW back \in Int, m =< n
  PROVE  LET next == Max({m + 1, Min({n + 1, Max({1, back})})})
         IN  m < next /\ next =< n + 1
<1> DEFINE x == Max({1, back})
           y == Min({n + 1, x})
           next == Max({m + 1, y})
<1>1. x \in Int
  BY MaxOfTwo
<1> HIDE DEF x
<1>2. y = (IF n + 1 =< x THEN n + 1 ELSE x) /\ n + 1 \in Int
  BY <1>1, MinOfTwo
<1>3. y \in Int /\ y =< n + 1
  BY <1>1, <1>2
<1> HIDE DEF y
<1>4. next = IF m + 1 >= y THEN m + 1 ELSE y
  <2>1. m + 1 \in Int
    OBVIOUS
  <2> QED BY <1>3, <2>1, MaxOfTwo
<1>5. m < next /\ next =< n + 1
  BY <1>3, <1>4
<1> QED BY <1>5 DEF y, x

\* A leader learns something about one peer.
LEMMA CounterMoves ==
  ASSUME NEW h, NEW s, NEW next, NEW match, Leads(h, s, next, match), NEW p \in Server,
         NEW next2, NEW match2,
         \A q \in Server \ {p} : next2[q] = next[q] /\ match2[q] = match[q],
         match2[p] =< h.acked[p][h.term[s]], match2[p] < next2[p],
         next2[p] =< h.lastIndex[s] + 1
  PROVE  Leads(h, s, next2, match2)
BY DEF Leads

LEMMA HandleAppendReplySafe ==
  ASSUME NEW h, Explained(h), Quiet, NEW c \in appendCalls, HandleAppendReply(c)
  PROVE  SafeStep(h)
<1> DEFINE s == c.from
           p == c.to
           k == Matched(c)
           u == c.Term
           current == c.reply.Term =< term[s] /\ state[s] = "Leader" /\ term[s] = u
<1>0. /\ c \in AppendEntriesCall /\ s \in Server /\ p \in Server /\ u \in Nat
      /\ c.reply \in AppendEntriesReply /\ AppendCallIs(h, c)
      /\ HistoryInv(h) /\ h \in History /\ TypeOK /\ TypeOK'
  <2>1. c \in AppendEntriesCall
    BY DEF Explained, TypeOK
  <2> QED BY <2>1 DEF AppendEntriesCall, Explained, StateIs, HistoryInv
<1>1. /\ voteCalls' \subseteq voteCalls /\ appendCalls' \subseteq appendCalls
      /\ snapCalls' \subseteq snapCalls
      /\ UNCHANGED <<log, lastIncludedIndex, snapshot>>
      /\ UNCHANGED <<applied, delivering, pendingSnapshot>>
  BY DEF HandleAppendReply, StepDown, persistentVars, applierVars
<1>2. CallsMove(h)
  BY <1>1, FewerCalls
<1>3. \A q \in Server : SameLog(q) /\ SameService(q)
  BY <1>1 DEF SameLog, SameService
<1>4. k \in Nat /\ k = c.PrevLogIndex + Len(c.Entries)
  BY <1>0, LenProperties DEF Matched, AppendEntriesCall
<1>5. CASE UNCHANGED <<leaderVars, commitIndex>>
  BY <1>1, <1>2, <1>5, StillSafe
<1>6. ASSUME state[s] = "Leader", term[s] = u
      PROVE  /\ Leads(h, s, nextIndex[s], matchIndex[s]) /\ h.term[s] = u
             /\ h.lastIndex[s] = LastLogIndex(s) /\ LastLogIndex(s) \in Nat
             /\ IsLog(h, s, log[s], lastIncludedIndex[s], snapshot[s])
             /\ lastIncludedIndex[s] =< commitIndex[s] /\ Len(log[s]) \in Nat
  BY <1>0, <1>6, PeerFacts, LogFacts DEF PeerIs
<1>7. /\ matchIndex[s] \in [Server -> Nat] /\ nextIndex[s] \in [Server -> Nat]
      /\ matchIndex[s][p] \in Nat /\ nextIndex[s][p] \in Nat
      /\ matchIndex'[s] \in [Server -> Nat]
  <2>1. matchIndex[s] \in [Server -> Nat] /\ nextIndex[s] \in [Server -> Nat]
    BY <1>0 DEF TypeOK
  <2>2. matchIndex'[s] \in [Server -> Nat]
    BY <1>0 DEF TypeOK
  <2> QED BY <1>0, <2>1, <2>2
<1>8. CASE /\ current /\ c.phase = "answered" /\ c.reply.Success
           /\ IF k > matchIndex[s][p]
                THEN /\ matchIndex' = [matchIndex EXCEPT ![s][p] = k]
                     /\ nextIndex' = [nextIndex EXCEPT ![s][p] = k + 1]
                ELSE UNCHANGED leaderVars
           /\ AdvanceCommitIndex(s, log[s], matchIndex'[s])
  <2>1. k =< h.acked[p][u] /\ k =< h.lastIndex[s]
    BY <1>0, <1>4, <1>6, <1>8 DEF AppendCallIs, Leads
  <2> HIDE DEF s, p, k, u, current
  <2>2. \A q \in Server \ {s} : nextIndex'[q] = nextIndex[q] /\ matchIndex'[q] = matchIndex[q]
    BY <1>0, <1>8, ZenonT(40) DEF TypeOK, leaderVars
  <2>3. Leads(h, s, nextIndex'[s], matchIndex'[s])
    <3>1. CASE k > matchIndex[s][p]
      <4>1. /\ \A q \in Server \ {p} : nextIndex'[s][q] = nextIndex[s][q] /\ matchIndex'[s][q] = matchIndex[s][q]
            /\ matchIndex'[s][p] = k /\ nextIndex'[s][p] = k + 1
        BY <1>0, <1>7, <1>8, <3>1 DEF TypeOK
      <4>2. k < k + 1 /\ k + 1 =< h.lastIndex[s] + 1
        BY <1>4, <1>6, <1>8, <2>1 DEF current
      <4> QED BY <1>0, <1>6, <1>8, <2>1, <4>1, <4>2, CounterMoves DEF current
    <3>2. CASE ~(k > matchIndex[s][p])
      BY <1>6, <1>8, <3>2 DEF leaderVars, current
    <3> QED BY <3>1, <3>2
  <2>4. /\ commitIndex'[s] = commitIndex[s] \/ Committed(h, s, commitIndex'[s])
        /\ \A q \in Server \ {s} : commitIndex'[q] = commitIndex[q]
    BY <1>0, <1>6, <1>7, <1>8, <2>3, AdvanceCommits DEF current
  <2>5. \A q \in Server : commitIndex'[q] =< commitIndex[q] \/ Committed(h, q, commitIndex'[q])
    BY <2>4, PeerFacts
  <2> QED BY <1>2, <1>3, <2>2, <2>3, <2>5, QuietSafe
<1>9. CASE /\ current
           /\ nextIndex' = [nextIndex EXCEPT ![s][p] =
                 IF nextIndex[s][p] = c.PrevLogIndex + 1 THEN NextAfterReject(s, p, c.reply)
                                                         ELSE nextIndex[s][p]]
           /\ UNCHANGED <<commitIndex, matchIndex>>
  <2> DEFINE v == IF nextIndex[s][p] = c.PrevLogIndex + 1 THEN NextAfterReject(s, p, c.reply)
                                                          ELSE nextIndex[s][p]
  <2>1. /\ matchIndex[s][p] =< h.acked[p][u] /\ matchIndex[s][p] < nextIndex[s][p]
        /\ nextIndex[s][p] =< LastLogIndex(s) + 1
    BY <1>0, <1>6, <1>9 DEF Leads
  <2>2. matchIndex[s][p] < v /\ v =< h.lastIndex[s] + 1
    <3>1. BackUp(s, c.reply) \in Int
      BY <1>0, BackUpType
    <3>2. matchIndex[s][p] =< LastLogIndex(s)
      BY <1>6, <1>7, <1>9, <2>1
    <3>3. /\ matchIndex[s][p] < NextAfterReject(s, p, c.reply)
          /\ NextAfterReject(s, p, c.reply) =< LastLogIndex(s) + 1
      BY <1>6, <1>7, <1>9, <3>1, <3>2, NextAfterRejectBounds DEF NextAfterReject
    <3> QED BY <1>6, <1>9, <2>1, <3>3
  <2>3. nextIndex' = [nextIndex EXCEPT ![s][p] = v]
    BY <1>9
  <2> HIDE DEF s, p, k, u, current, v
  <2>4. \A q \in Server \ {s} : nextIndex'[q] = nextIndex[q] /\ matchIndex'[q] = matchIndex[q]
    BY <1>0, <1>9, <2>3 DEF TypeOK
  <2>5. /\ \A q \in Server \ {p} : nextIndex'[s][q] = nextIndex[s][q] /\ matchIndex'[s][q] = matchIndex[s][q]
        /\ matchIndex'[s][p] = matchIndex[s][p] /\ nextIndex'[s][p] = v
    <3>1. matchIndex' = matchIndex
      BY <1>9
    <3>2. nextIndex \in [Server -> [Server -> Nat]]
      BY <1>0 DEF TypeOK
    <3>3. /\ \A q \in Server \ {p} : nextIndex'[s][q] = nextIndex[s][q]
          /\ nextIndex'[s][p] = v
      BY <1>0, <1>7, <2>3, <3>2
    <3> QED BY <3>1, <3>3
  <2>6. Leads(h, s, nextIndex'[s], matchIndex'[s])
    <3>1. Leads(h, s, nextIndex[s], matchIndex[s]) /\ h.term[s] = u
      BY <1>6, <1>9 DEF current
    <3>2. /\ matchIndex'[s][p] =< h.acked[p][h.term[s]] /\ matchIndex'[s][p] < nextIndex'[s][p]
          /\ nextIndex'[s][p] =< h.lastIndex[s] + 1
      BY <2>1, <2>2, <2>5, <3>1
    <3> QED BY <1>0, <2>5, <3>1, <3>2, CounterMoves
  <2>7. \A q \in Server : commitIndex'[q] =< commitIndex[q]
    BY <1>9, PeerFacts
  <2> QED BY <1>2, <1>3, <2>4, <2>6, <2>7, QuietSafe
<1> QED BY <1>5, <1>8, <1>9 DEF HandleAppendReply, StepDown

\* A restart: what was saved is what there was, and the service starts from the snapshot.
LEMMA RestartSafe ==
  ASSUME NEW h, Explained(h), Quiet, NEW s \in Server, Restart(s)
  PROVE  SafeStep(h)
<1>1. UNCHANGED <<term, voteFor, log, lastIncludedIndex, lastIncludedTerm, snapshot>>
  BY RestartKeeps DEF Explained, persistentVars
<1>2. \A p \in Server : SameLog(p)
  BY <1>1 DEF SameLog
<1>3. CallsMove(h)
  <2>1. TypeOK
    BY DEF Explained
  <2>2. /\ voteCalls' = Orphaned(voteCalls, s) /\ appendCalls' = Orphaned(appendCalls, s)
        /\ snapCalls' = Orphaned(snapCalls, s)
    BY DEF Restart
  <2> QED BY <2>1, <2>2, OrphanedCalls DEF CallsMove
<1>4. /\ disk[s].LastIncludedIndex = lastIncludedIndex[s] /\ disk[s].Snapshot = snapshot[s]
  <2>1. disk[s] = Image(s)
    BY DEF Explained, DurableState, Image
  <2> QED BY <2>1 DEF Image
<1>5. TypeOK /\ TypeOK'
  BY DEF Explained
<1>6. /\ commitIndex'[s] = lastIncludedIndex[s] /\ applied'[s] = snapshot[s]
      /\ delivering'[s] = <<>> /\ pendingSnapshot'[s] = Nil /\ state'[s] = "Follower"
  BY <1>4, <1>5 DEF Restart, TypeOK
<1>7. \A p \in Server \ {s} : /\ commitIndex'[p] = commitIndex[p] /\ applied'[p] = applied[p]
                              /\ delivering'[p] = delivering[p]
                              /\ pendingSnapshot'[p] = pendingSnapshot[p]
                              /\ nextIndex'[p] = nextIndex[p] /\ matchIndex'[p] = matchIndex[p]
  BY <1>5 DEF Restart, TypeOK
<1>8. \A p \in Server : commitIndex'[p] =< commitIndex[p]
  BY <1>6, <1>7, PeerFacts
<1>9. Serves(h, s, applied'[s], delivering'[s], pendingSnapshot'[s])
  <2>1. Copies(h, h.lastTerm[s], snapshot[s])
    BY PeerFacts DEF PeerIs, IsLog
  <2> QED BY <1>6, <2>1 DEF Serves
<1>10. \A p \in Server \ {s} : SameService(p)
  BY <1>7 DEF SameService
<1> QED BY <1>2, <1>3, <1>6, <1>7, <1>8, <1>9, <1>10, QuietSafe

-----------------------------------------------------------------------------
(* THE APPLIER *)

\* A step of the applier or the service of s that touches nothing else.
LEMMA ServiceMoves ==
  ASSUME NEW h, Explained(h), Quiet, NEW s \in Server,
         UNCHANGED <<log, lastIncludedIndex, snapshot, commitIndex, leaderVars, networkVars>>,
         \A p \in Server \ {s} : SameService(p),
         SameService(s) \/ Serves(h, s, applied'[s], delivering'[s], pendingSnapshot'[s])
  PROVE  SafeStep(h)
<1>1. \A p \in Server : SameLog(p)
  BY DEF SameLog
<1>2. \A p \in Server : commitIndex'[p] =< commitIndex[p]
  BY PeerFacts
<1>3. \A p \in Server : nextIndex'[p] = nextIndex[p] /\ matchIndex'[p] = matchIndex[p]
  BY DEF leaderVars
<1>4. CallsMove(h)
  BY FewerCalls DEF networkVars
<1> QED BY <1>1, <1>2, <1>3, <1>4, QuietSafe

LEMMA TakeSnapshotSafe ==
  ASSUME NEW h, Explained(h), Quiet, NEW s \in Server, ApplierTakeSnapshot(s)
  PROVE  SafeStep(h)
<1> DEFINE m == [SnapshotValid |-> TRUE, Index |-> pendingSnapshot[s].Index, Command |-> Nil,
                 Snapshot |-> pendingSnapshot[s].Date]
<1>0. TypeOK /\ Serves(h, s, applied[s], delivering[s], pendingSnapshot[s])
  BY PeerFacts DEF Explained, PeerIs
<1>1. /\ UNCHANGED <<log, lastIncludedIndex, snapshot, commitIndex, leaderVars, networkVars>>
      /\ applied' = applied /\ pendingSnapshot[s] # Nil
      /\ delivering' = [delivering EXCEPT ![s] = <<m>>]
      /\ pendingSnapshot' = [pendingSnapshot EXCEPT ![s] = Nil]
  BY DEF ApplierTakeSnapshot, persistentVars
<1>2. m.SnapshotValid /\ m.Snapshot = pendingSnapshot[s].Date
  OBVIOUS
<1> HIDE DEF m
<1>3. \A p \in Server \ {s} : SameService(p)
  BY <1>0, <1>1 DEF TypeOK, SameService
<1>4. delivering'[s] = <<m>> /\ pendingSnapshot'[s] = Nil
  BY <1>0, <1>1 DEF TypeOK
<1>5. Serves(h, s, applied'[s], delivering'[s], pendingSnapshot'[s])
  BY <1>0, <1>1, <1>2, <1>4, SMTT(40) DEF Serves
<1> QED BY <1>1, <1>3, <1>5, ServiceMoves

LEMMA TakeEntriesSafe ==
  ASSUME NEW h, Explained(h), Quiet, NEW s \in Server, ApplierTakeEntries(s)
  PROVE  SafeStep(h)
<1> DEFINE a == lastApplied[s]
           b == lastIncludedIndex[s]
           T == h.lastTerm[s]
           d == [k \in 1 .. commitIndex[s] - a |->
                   [SnapshotValid |-> FALSE, Index |-> a + 1 + k - 1,
                    Command |-> log[s][SliceIndex(s, a + 1 + k - 1)].command,
                    Snapshot |-> <<>>]]
<1>0. /\ TypeOK /\ Serves(h, s, applied[s], delivering[s], pendingSnapshot[s])
      /\ IsLog(h, s, log[s], b, snapshot[s]) /\ b \in Nat /\ commitIndex[s] \in Nat
      /\ commitIndex[s] =< h.lastIndex[s] /\ a \in Nat /\ b =< a /\ h.lastIndex[s] \in Nat
  <2>1. /\ TypeOK /\ Serves(h, s, applied[s], delivering[s], pendingSnapshot[s])
        /\ IsLog(h, s, log[s], b, snapshot[s]) /\ b \in Nat /\ commitIndex[s] \in Nat
        /\ commitIndex[s] =< h.lastIndex[s] /\ h \in History
    BY PeerFacts DEF Explained, PeerIs
  <2>2. a \in Nat /\ h.lastIndex[s] \in Nat
    BY <2>1, HistoryTypes, ApplierFacts
  <2> QED BY <2>1, <2>2 DEF Explained, IndexOrder
<1>1. /\ UNCHANGED <<log, lastIncludedIndex, snapshot, commitIndex, leaderVars, networkVars>>
      /\ applied' = applied /\ pendingSnapshot' = pendingSnapshot /\ pendingSnapshot[s] = Nil
      /\ delivering' = [delivering EXCEPT ![s] = d] /\ a < commitIndex[s]
  BY DEF ApplierTakeEntries, persistentVars
<1>2. ASSUME NEW k \in 1 .. commitIndex[s] - a
      PROVE  ~d[k].SnapshotValid /\ d[k].Command = h.entry[T][d[k].Index].command
  <2>1. PICK j \in Nat : j = a + 1 + k - 1
    BY <1>0
  <2>2. j \in b + 1 .. h.lastIndex[s]
    BY <1>0, <1>1, <2>1
  <2>3. log[s][SliceIndex(s, j)] = h.entry[T][j]
    BY <1>0, <2>2 DEF IsLog, SliceIndex
  <2>4. /\ d[k].SnapshotValid = FALSE /\ d[k].Index = j
        /\ d[k].Command = log[s][SliceIndex(s, j)].command
    BY <2>1
  <2> HIDE DEF d
  <2> QED BY <2>3, <2>4
<1>3. Len(d) = commitIndex[s] - a
  <2>1. commitIndex[s] - a \in Nat
    BY <1>0, <1>1
  <2>2. DOMAIN d = 1 .. commitIndex[s] - a
    OBVIOUS
  <2>3. PICK n \in Nat : n = commitIndex[s] - a
    BY <2>1
  <2> HIDE DEF d
  <2>4. d \in Seq(ApplyMsg)
    <3>1. delivering' \in [Server -> Seq(ApplyMsg)] /\ delivering \in [Server -> Seq(ApplyMsg)]
      BY DEF Explained, TypeOK
    <3> QED BY <1>1, <3>1
  <2> QED BY <2>2, <2>3, <2>4, LenProperties
<1> HIDE DEF d
<1>4. delivering'[s] = d /\ \A p \in Server \ {s} : SameService(p)
  BY <1>0, <1>1 DEF TypeOK, SameService
<1>5. Serves(h, s, applied'[s], delivering'[s], pendingSnapshot'[s])
  BY <1>0, <1>1, <1>2, <1>3, <1>4 DEF Serves
<1> QED BY <1>1, <1>4, <1>5, ServiceMoves

LEMMA DeliverSafe ==
  ASSUME NEW h, Explained(h), Quiet, NEW s \in Server, Deliver(s)
  PROVE  SafeStep(h)
<1> DEFINE d == delivering[s]
           a == applied[s]
           T == h.lastTerm[s]
           b == IF d[1].SnapshotValid THEN d[1].Snapshot ELSE Append(a, d[1].Command)
<1>0. TypeOK /\ Serves(h, s, a, d, pendingSnapshot[s])
  BY PeerFacts DEF Explained, PeerIs
<1>1. /\ UNCHANGED <<log, lastIncludedIndex, snapshot, commitIndex, leaderVars, networkVars>>
      /\ pendingSnapshot' = pendingSnapshot /\ d # <<>>
      /\ delivering' = [delivering EXCEPT ![s] = Tail(d)]
      /\ applied' = [applied EXCEPT ![s] =
            IF Head(d).SnapshotValid THEN Head(d).Snapshot ELSE Append(a, Head(d).Command)]
  BY DEF Deliver, persistentVars
<1>2. /\ d \in Seq(ApplyMsg) /\ a \in Data /\ Len(a) \in Nat /\ Len(d) \in Nat
      /\ \A k \in 1 .. Len(d) : /\ d[k].Snapshot \in Data /\ d[k].Command \in Command \cup {Nil}
                                /\ d[k].SnapshotValid \in BOOLEAN
  BY <1>0, ApplierFacts
<1>3. /\ Head(d) = d[1] /\ Len(d) > 0 /\ Len(Tail(d)) = Len(d) - 1
      /\ \A k \in 1 .. Len(Tail(d)) : Tail(d)[k] = d[k + 1]
  BY <1>1, <1>2, HeadTailProperties
<1>4. applied'[s] = b /\ delivering'[s] = Tail(d) /\ \A p \in Server \ {s} : SameService(p)
  BY <1>0, <1>1, <1>3 DEF TypeOK, SameService
<1>5. Copies(h, T, b)
  <2>1. CASE d[1].SnapshotValid
    BY <1>0, <1>2, <1>3, <2>1 DEF Serves
  <2>2. CASE ~d[1].SnapshotValid
    <3>1. d[1].Index = Len(a) + 1
      <4>1. QueueInOrder(d, Len(a))
        BY DEF Explained, ApplierInv, QueueLeadsTo
      <4>2. 1 \in 1 .. Len(d)
        BY <1>2, <1>3
      <4> QED BY <2>2, <4>1, <4>2 DEF QueueInOrder
    <3>2. d[1].Command = h.entry[T][Len(a) + 1].command /\ Copies(h, T, a)
      BY <1>0, <1>2, <1>3, <2>2, <3>1 DEF Serves
    <3>3. /\ b = Append(a, d[1].Command) /\ d[1].Command \in Command \cup {Nil}
          /\ a \in Seq(Command \cup {Nil})
      BY <1>2, <1>3, <2>2 DEF Data
    <3> HIDE DEF a, b, d, T
    <3>4. /\ Len(b) = Len(a) + 1 /\ b[Len(a) + 1] = d[1].Command
          /\ \A i \in 1 .. Len(a) : b[i] = a[i]
      BY <3>3, AppendProperties
    <3> QED BY <1>2, <3>2, <3>4 DEF Copies
  <2> QED BY <2>1, <2>2
<1> HIDE DEF b
<1>6. Serves(h, s, applied'[s], delivering'[s], pendingSnapshot'[s])
  <2>1. ASSUME NEW k \in 1 .. Len(Tail(d))
        PROVE  IF Tail(d)[k].SnapshotValid
                 THEN Copies(h, T, Tail(d)[k].Snapshot)
                 ELSE Tail(d)[k].Command = h.entry[T][Tail(d)[k].Index].command
    <3>1. k + 1 \in 1 .. Len(d) /\ Tail(d)[k] = d[k + 1]
      BY <1>2, <1>3
    <3> QED BY <1>0, <3>1 DEF Serves
  <2>2. pendingSnapshot'[s] # Nil => Copies(h, T, pendingSnapshot'[s].Date)
    BY <1>0, <1>1 DEF Serves
  <2> QED BY <1>4, <1>5, <2>1, <2>2 DEF Serves
<1> QED BY <1>1, <1>4, <1>6, ServiceMoves

LEMMA ApplierSafe ==
  ASSUME NEW h, Explained(h), Quiet, NEW s \in Server,
         ApplierWait(s) \/ ApplierTakeSnapshot(s) \/ ApplierTakeEntries(s) \/ Deliver(s)
  PROVE  SafeStep(h)
<1>1. CASE ApplierWait(s)
  <2>1. /\ UNCHANGED <<log, lastIncludedIndex, snapshot, commitIndex, leaderVars, networkVars>>
        /\ UNCHANGED <<applied, delivering, pendingSnapshot>>
    BY <1>1 DEF ApplierWait, persistentVars
  <2>2. \A p \in Server : SameService(p)
    BY <2>1 DEF SameService
  <2> QED BY <2>1, <2>2, ServiceMoves
<1> QED BY <1>1, TakeSnapshotSafe, TakeEntriesSafe, DeliverSafe

-----------------------------------------------------------------------------
(* STEPS THAT CHANGE ONE LOG *)

\* Peer p takes no part in a step from h to g.
StandsBy(h, g, p) ==
    /\ g.lastIndex[p] = h.lastIndex[p] /\ g.lastTerm[p] = h.lastTerm[p] /\ g.term[p] = h.term[p]
    /\ term'[p] = term[p] /\ state'[p] = state[p] /\ commitIndex'[p] = commitIndex[p]
    /\ nextIndex'[p] = nextIndex[p] /\ matchIndex'[p] = matchIndex[p]
    /\ SameLog(p) /\ SameService(p)
    /\ state[p] = "Leader" => g.len[term[p]] = h.len[term[p]]

LEMMA OnePeerMoves ==
  ASSUME NEW h, Explained(h), Quiet, NEW g, HistoryInv(g), Grows(h, g), g.winner = h.winner,
         NEW s \in Server, PeerIs(g, s)', KeepsLog(h, g, s, commitIndex[s]),
         \A p \in Server \ {s} : StandsBy(h, g, p),
         state'[s] = "Candidate" => g.lastIndex[s] = h.lastIndex[s] /\ g.lastTerm[s] = h.lastTerm[s],
         voteCalls' \subseteq voteCalls,
         \A c \in appendCalls' : AppendCallIs(g, c) \/ \E d \in appendCalls : SameAppend(c, d),
         \A c \in snapCalls' : SnapCallIs(g, c) \/ \E d \in snapCalls : SameSnap(c, d)
  PROVE  SafeStep(h)
<1>1. \A p \in Server : PeerIs(g, p)' /\ KeepsLog(h, g, p, commitIndex[p])
  BY BystanderStays DEF StandsBy
<1>2. CandidatesMove(h, g)
  BY QuietCandidates DEF StandsBy
<1>3. \A c \in voteCalls' : \E d \in voteCalls : SameVote(c, d)
  BY SameCall
<1>4. MovesAre(h, g)
  BY <1>1, <1>2, <1>3 DEF MovesAre
<1> QED BY <1>1, <1>4, StateMoves DEF SafeStep, Keeps

LEMMA GrowsReflexive ==
  ASSUME NEW h \in History PROVE Grows(h, h)
BY HistoryTypes DEF Grows

\* What a compaction leaves of a log.
LEMMA CompactIs ==
  ASSUME TypeOK, NEW s \in Server, NEW i \in Nat, NEW t \in Nat, i >= lastIncludedIndex[s],
         NEW lg, lg = Compact(s, i, t)
  PROVE  /\ lg[1].term = t /\ Len(lg) \in Nat
         /\ i =< LastLogIndex(s) /\ TermAt(s, i) = t =>
               /\ i + Len(lg) - 1 = LastLogIndex(s)
               /\ \A j \in i + 1 .. LastLogIndex(s) : lg[j - i + 1] = log[s][SliceIndex(s, j)]
         /\ ~(i =< LastLogIndex(s) /\ TermAt(s, i) = t) => Len(lg) = 1
<1> DEFINE dummy == [term |-> t, command |-> Nil]
           k == SliceIndex(s, i)
           n == LastLogIndex(s)
           b == lastIncludedIndex[s]
           rest == SubSeq(log[s], k + 1, Len(log[s]))
<1>0. /\ log[s] \in Seq(LogEntry) /\ Len(log[s]) \in Nat /\ b \in Nat
      /\ n = b + Len(log[s]) - 1 /\ k = i - b + 1
  <2>1. /\ log[s] \in Seq(LogEntry) /\ Len(log[s]) \in Nat /\ b \in Nat
        /\ n = b + Len(log[s]) - 1
    BY LogFacts
  <2>2. k = i - b + 1
    BY DEF SliceIndex
  <2> QED BY <2>1, <2>2
<1>1. lg[1].term = t /\ lg \in LogType
  BY CompactType
<1>2. Len(lg) \in Nat
  BY <1>1, LenProperties DEF LogType
<1>3. ASSUME i =< n, TermAt(s, i) = t
      PROVE  /\ i + Len(lg) - 1 = n
             /\ \A j \in i + 1 .. n : lg[j - i + 1] = log[s][SliceIndex(s, j)]
  <2>1. k =< Len(log[s]) /\ k \in Nat /\ k >= 1
    BY <1>0, <1>3
  <2>2. lg = <<dummy>> \o rest
    BY <1>3, <2>1 DEF Compact
  <2>3. /\ rest \in Seq(LogEntry) /\ Len(rest) = Len(log[s]) - k
        /\ \A j \in 1 .. Len(rest) : rest[j] = log[s][k + j]
    <3>1. k + 1 \in Nat /\ k + 1 >= 1 /\ k + 1 =< Len(log[s]) + 1
      BY <1>0, <2>1
    <3> HIDE DEF k
    <3>2. PICK m \in Nat : m = k + 1
      BY <3>1
    <3>3. rest = SubSeq(log[s], m, Len(log[s])) /\ m >= 1 /\ m =< Len(log[s]) + 1
      BY <3>1, <3>2
    <3> HIDE DEF rest
    <3>4. rest \in Seq(LogEntry) /\ IsEnd(rest, log[s], m)
      BY <1>0, <3>3, EndOfLog
    <3>5. Len(rest) = Len(log[s]) - k
      BY <1>0, <2>1, <3>2, <3>4, SMTT(40) DEF IsEnd
    <3>6. ASSUME NEW j \in 1 .. Len(rest) PROVE rest[j] = log[s][k + j]
      <4>1. rest[j] = log[s][m + j - 1]
        BY <3>4 DEF IsEnd
      <4>2. m + j - 1 = k + j
        BY <1>0, <2>1, <3>2, <3>5
      <4> QED BY <4>1, <4>2
    <3> QED BY <3>4, <3>5, <3>6
  <2>4. <<dummy>> \in Seq(LogEntry) /\ Len(<<dummy>>) = 1
    BY DEF LogEntry
  <2> HIDE DEF dummy, rest, k
  <2>5. /\ Len(lg) = 1 + Len(rest)
        /\ \A j \in 1 .. Len(lg) : lg[j] = IF j =< 1 THEN <<dummy>>[j] ELSE rest[j - 1]
    BY <2>2, <2>3, <2>4, ConcatProperties
  <2> HIDE DEF b, n
  <2>6. i + Len(lg) - 1 = n
    BY <1>0, <2>3, <2>5
  <2>7. ASSUME NEW j \in i + 1 .. n PROVE lg[j - i + 1] = log[s][SliceIndex(s, j)]
    <3>1. PICK m \in Nat : m = j - i + 1
      BY <1>0
    <3>2. m \in 1 .. Len(lg) /\ ~(m =< 1)
      BY <1>0, <1>2, <2>6, <3>1
    <3>3. lg[m] = rest[m - 1] /\ m - 1 \in 1 .. Len(rest)
      BY <1>0, <2>1, <2>3, <2>5, <3>2
    <3>4. lg[m] = log[s][k + (m - 1)]
      BY <2>3, <3>3
    <3>5. SliceIndex(s, j) = j - b + 1
      BY DEF SliceIndex, b
    <3>6. i \in Int /\ j \in Int /\ m \in Int /\ b \in Int /\ k = i - b + 1
      BY <1>0
    <3>7. SliceIndex(s, j) = k + (m - 1)
      BY <3>1, <3>5, <3>6
    <3> QED BY <3>1, <3>4, <3>7
  <2> QED BY <2>6, <2>7
<1>4. ASSUME ~(i =< n /\ TermAt(s, i) = t) PROVE Len(lg) = 1
  <2>1. ~(k =< Len(log[s]) /\ TermAt(s, i) = t)
    BY <1>0, <1>4
  <2>2. lg = <<dummy>> \o <<>>
    BY <2>1 DEF Compact
  <2>3. <<dummy>> \in Seq(LogEntry) /\ Len(<<dummy>>) = 1
    BY DEF LogEntry
  <2> HIDE DEF dummy
  <2> QED BY <2>2, <2>3, ConcatEmptySeq
<1> QED BY <1>1, <1>2, <1>3, <1>4

\* Snapshot(): the log is cut where the service's state reaches.
LEMMA SnapshotSafe ==
  ASSUME NEW h, Explained(h), Quiet, NEW s \in Server, Snapshot(s)
  PROVE  SafeStep(h)
<1> DEFINE i == Len(applied[s])
           t == TermAt(s, i)
           lg == Compact(s, i, t)
           T == h.lastTerm[s]
<1>0. /\ TypeOK /\ HistoryInv(h) /\ h \in History /\ PeerIs(h, s)
      /\ lastIncludedIndex[s] \in Nat /\ h.lastIndex[s] = LastLogIndex(s)
      /\ commitIndex[s] \in Nat /\ commitIndex[s] =< h.lastIndex[s] /\ h.lastIndex[s] \in Nat
  BY PeerFacts, HistoryTypes DEF Explained
<1>1. /\ i > lastIncludedIndex[s] /\ InLog(s, i)
      /\ log' = [log EXCEPT ![s] = lg]
      /\ lastIncludedIndex' = [lastIncludedIndex EXCEPT ![s] = i]
      /\ snapshot' = [snapshot EXCEPT ![s] = applied[s]]
      /\ UNCHANGED <<term, state, commitIndex, leaderVars, applied, delivering, pendingSnapshot>>
      /\ UNCHANGED <<voteCalls, appendCalls, snapCalls>>
  BY DEF Snapshot, applierVars, networkVars
<1>2. i \in Nat /\ t \in Nat /\ i =< LastLogIndex(s) /\ i >= lastIncludedIndex[s]
  <2>1. i \in Nat /\ t \in Nat
    BY <1>0, <1>1, LogFacts
  <2>2. i \in lastIncludedIndex[s] .. h.lastIndex[s]
    BY <1>0, <1>1 DEF InLog
  <2> QED BY <1>0, <2>1, <2>2
<1>3. /\ lg[1].term = t /\ Len(lg) \in Nat /\ i + Len(lg) - 1 = LastLogIndex(s)
      /\ \A j \in i + 1 .. LastLogIndex(s) : lg[j - i + 1] = log[s][SliceIndex(s, j)]
  <2> HIDE DEF i, t
  <2>1. lg = Compact(s, i, t) /\ TermAt(s, i) = t
    BY DEF t
  <2> HIDE DEF lg
  <2> QED BY <1>0, <1>2, <2>1, CompactIs
<1>4. t = h.entry[T][i].term
  BY <1>0, <1>1, TermIs DEF PeerIs
<1>5. Copies(h, T, applied[s])
  BY <1>0 DEF PeerIs, Serves
<1> HIDE DEF lg, t, i
<1>6. ASSUME NEW j \in i + 1 .. h.lastIndex[s] PROVE lg[j - i + 1] = h.entry[T][j]
  <2>1. j \in lastIncludedIndex[s] + 1 .. h.lastIndex[s]
    BY <1>0, <1>2
  <2>2. log[s][SliceIndex(s, j)] = h.entry[T][j]
    BY <1>0, <2>1 DEF PeerIs, IsLog, SliceIndex
  <2> QED BY <1>0, <1>3, <2>2
<1>7. IsLog(h, s, lg, i, applied[s])
  BY <1>0, <1>3, <1>4, <1>5, <1>6 DEF IsLog
<1>8. /\ log'[s] = lg /\ lastIncludedIndex'[s] = i /\ snapshot'[s] = applied[s]
      /\ \A p \in Server \ {s} : SameLog(p)
  BY <1>0, <1>1 DEF TypeOK, SameLog
<1>9. PeerIs(h, s)'
  BY <1>0, <1>1, <1>7, <1>8 DEF PeerIs, leaderVars
<1>10. \A p \in Server \ {s} : StandsBy(h, h, p)
  BY <1>1, <1>8 DEF StandsBy, SameService, leaderVars
<1>11. KeepsLog(h, h, s, commitIndex[s])
  BY DEF KeepsLog
<1>12. /\ \A c \in appendCalls' : \E d \in appendCalls : SameAppend(c, d)
       /\ \A c \in snapCalls' : \E d \in snapCalls : SameSnap(c, d)
       /\ voteCalls' \subseteq voteCalls
  BY <1>1, SameCall
<1> QED BY <1>0, <1>9, <1>10, <1>11, <1>12, GrowsReflexive, OnePeerMoves

-----------------------------------------------------------------------------
(* ADOPTING A LEADER'S LOG *)

LEMMA AdoptFields ==
  ASSUME NEW h \in History, NEW g, NEW s \in Server, NEW u \in Nat, NEW k \in Nat,
         Adopt(h, g, s, u, k)
  PROVE  /\ g.winner = h.winner /\ g.entry = h.entry /\ g.len = h.len
         /\ g.term[s] = u /\ k =< g.acked[s][u]
         /\ \A p \in Server \ {s} : /\ g.term[p] = h.term[p] /\ g.lastIndex[p] = h.lastIndex[p]
                                    /\ g.lastTerm[p] = h.lastTerm[p]
         /\ Agrees(h, s, u, k) => g.lastIndex[s] = h.lastIndex[s] /\ g.lastTerm[s] = h.lastTerm[s]
         /\ ~Agrees(h, s, u, k) => g.lastIndex[s] = k /\ g.lastTerm[s] = h.entry[u][k].term
<1> DEFINE a == IF h.acked[s][u] >= k THEN h.acked[s][u] ELSE k
           b == IF Agrees(h, s, u, k) THEN h.lastIndex[s] ELSE k
           c == IF Agrees(h, s, u, k) THEN h.lastTerm[s] ELSE h.entry[u][k].term
<1>1. /\ h.acked \in [Server -> [Nat -> Nat]] /\ h.term \in [Server -> Nat]
      /\ h.lastIndex \in [Server -> Nat] /\ h.lastTerm \in [Server -> Nat]
  BY HistoryFields
<1>2. /\ g.term = [h.term EXCEPT ![s] = u]
      /\ g.acked = [h.acked EXCEPT ![s] = [h.acked[s] EXCEPT ![u] = a]]
      /\ g.lastIndex = [h.lastIndex EXCEPT ![s] = b]
      /\ g.lastTerm = [h.lastTerm EXCEPT ![s] = c]
      /\ g.winner = h.winner /\ g.entry = h.entry /\ g.len = h.len
  BY DEF Adopt
<1>3. k =< a
  <2>1. h.acked[s][u] \in Nat
    BY <1>1
  <2> QED BY <2>1
<1>4. /\ Agrees(h, s, u, k) => b = h.lastIndex[s] /\ c = h.lastTerm[s]
      /\ ~Agrees(h, s, u, k) => b = k /\ c = h.entry[u][k].term
  OBVIOUS
<1> HIDE DEF a, b, c
<1>5. g.acked[s][u] = a
  BY <1>1, <1>2
<1>6. g.term[s] = u /\ g.lastIndex[s] = b /\ g.lastTerm[s] = c
  BY <1>1, <1>2
<1>7. \A p \in Server \ {s} : /\ g.term[p] = h.term[p] /\ g.lastIndex[p] = h.lastIndex[p]
                              /\ g.lastTerm[p] = h.lastTerm[p]
  BY <1>1, <1>2
<1> QED BY <1>2, <1>3, <1>4, <1>5, <1>6, <1>7

LEMMA AdoptTakes ==
  ASSUME NEW h, HistoryInv(h), NEW g, NEW s \in Server, NEW u \in Nat, NEW k \in Nat,
         Adopt(h, g, s, u, k), ~Agrees(h, s, u, k)
  PROVE  g.lastIndex[s] = k /\ g.lastTerm[s] = h.entry[u][k].term /\ g.entry = h.entry
<1>1. h \in History
  BY DEF HistoryInv
<1> QED BY <1>1, AdoptFields

\* What a peer has committed is in the log of every leader that is not behind it.
LEMMA CommittedIsContained ==
  ASSUME NEW h, HistoryInv(h), NEW s \in Server, NEW n \in Nat, Committed(h, s, n),
         NEW u \in Nat, h.term[s] =< u, h.winner[u] # Nil
  PROVE  /\ n =< h.len[u] /\ Same(h, h.lastTerm[s], u, n) /\ Holds(h, s, u, n)
<1>1. h \in History /\ h.term[s] \in Nat /\ h.lastTerm[s] \in Nat
  BY HistoryTypes DEF HistoryInv
<1>2. n =< h.lastIndex[s] /\ Decided(h, n, h.lastTerm[s], h.term[s])
  BY DEF Committed
<1>3. n =< h.len[u] /\ Same(h, h.lastTerm[s], u, n)
  BY <1>1, <1>2, DecidedContained
<1> QED BY <1>2, <1>3 DEF Holds

LEMMA AdoptKeepsCommitted ==
  ASSUME NEW h, HistoryInv(h), NEW g, HistoryInv(g), Grows(h, g), NEW s \in Server,
         NEW u \in Nat, h.term[s] =< u, h.winner[u] # Nil, NEW k \in Nat, k =< h.len[u],
         Adopt(h, g, s, u, k), NEW n \in Nat, Committed(h, s, n)
  PROVE  KeepsLog(h, g, s, n) /\ Committed(g, s, n)
<1> DEFINE T == h.lastTerm[s]
           v == g.lastTerm[s]
<1>0. /\ h \in History /\ g \in History /\ T \in Nat /\ v \in Nat /\ h.term[s] \in Nat
      /\ h.len[T] \in Nat /\ h.lastIndex[s] \in Nat /\ h.lastIndex[s] =< h.len[T]
      /\ g.entry = h.entry /\ g.term[s] = u
  BY HistoryTypes, AdoptFields DEF HistoryInv, PeersConsistent
<1>1. Same(h, T, u, n) /\ Holds(h, s, u, n)
  BY CommittedIsContained
<1>2. Holds(g, s, u, n)
  BY <1>0, <1>1, AdoptKeeps
<1>3. n =< g.lastIndex[s] /\ Same(g, v, u, n)
  BY <1>2 DEF Holds
<1>4. Same(g, u, T, n)
  BY <1>0, <1>1 DEF Same
<1>5. Same(g, v, T, n)
  BY <1>3, <1>4, SameIsEquivalence
<1>6. Decided(h, n, T, h.term[s]) /\ n =< h.len[T]
  BY <1>0 DEF Committed
<1>7. Decided(g, n, T, u)
  BY <1>0, <1>6, DecidedStays
<1>8. Decided(g, n, v, u)
  BY <1>5, <1>7, DecidedSame
<1>9. KeepsLog(h, g, s, n)
  BY <1>0, <1>5 DEF Same, KeepsLog
<1> QED BY <1>0, <1>3, <1>8, <1>9 DEF Committed

\* What the leader has decided and the peer now holds, the peer may commit.
LEMMA AdoptCommits ==
  ASSUME NEW h, HistoryInv(h), NEW g, HistoryInv(g), Grows(h, g), NEW s \in Server,
         NEW u \in Nat, NEW k \in Nat, k =< h.len[u], Adopt(h, g, s, u, k),
         NEW m \in Nat, m =< k, Decided(h, m, u, u)
  PROVE  Committed(g, s, m)
<1> DEFINE v == g.lastTerm[s]
<1>0. h \in History /\ g \in History /\ h.len[u] \in Nat /\ g.term[s] = u /\ g.lastIndex[s] \in Nat
  BY HistoryTypes, AdoptFields DEF HistoryInv
<1>1. k =< g.lastIndex[s] /\ Same(g, v, u, k)
  BY <1>0, AdoptKeeps DEF Holds
<1>2. m =< g.lastIndex[s] /\ Same(g, v, u, m) /\ m =< h.len[u]
  BY <1>0, <1>1, SameBelow
<1>3. Decided(g, m, u, u)
  BY <1>0, <1>2, DecidedStays
<1>4. Decided(g, m, v, u)
  BY <1>2, <1>3, DecidedSame
<1> QED BY <1>0, <1>2, <1>4 DEF Committed

\* Behind base, the log lg is lo up to q and the log of term u from there to k.
Spliced(h, u, lg, lo, base, q, k) ==
    /\ Len(lg) = k - base + 1
    /\ \A i \in base .. q : lg[i - base + 1] = lo[i - base + 1]
    /\ \A i \in q + 1 .. k : lg[i - base + 1] = h.entry[u][i]

\* The log of s agrees with the log of term u up to q and no further.
AgreesUpTo(h, s, u, q) ==
    /\ q =< h.lastIndex[s] /\ Same(h, h.lastTerm[s], u, q)
    /\ \/ q = h.lastIndex[s]
       \/ h.entry[h.lastTerm[s]][q + 1].term # h.entry[u][q + 1].term

\* A log that agrees with the leader's up to q and no further takes the rest from it.
LEMMA SpliceAdopts ==
  ASSUME NEW h, HistoryInv(h), NEW g, NEW s \in Server, NEW u \in Nat, NEW k \in Nat,
         k =< h.len[u], Adopt(h, g, s, u, k),
         NEW lo, NEW base \in Nat, NEW data, Len(data) = base, IsLog(h, s, lo, base, data),
         NEW q \in Nat, base =< q, q < k, AgreesUpTo(h, s, u, q),
         NEW lg, Spliced(h, u, lg, lo, base, q, k)
  PROVE  IsLog(g, s, lg, base, data) /\ ~Agrees(h, s, u, k)
<1>a. /\ Len(lg) = k - base + 1
      /\ \A i \in base .. q : lg[i - base + 1] = lo[i - base + 1]
      /\ \A i \in q + 1 .. k : lg[i - base + 1] = h.entry[u][i]
  BY DEF Spliced
<1>b. /\ q =< h.lastIndex[s] /\ Same(h, h.lastTerm[s], u, q)
      /\ \/ q = h.lastIndex[s]
         \/ h.entry[h.lastTerm[s]][q + 1].term # h.entry[u][q + 1].term
  BY DEF AgreesUpTo
<1> DEFINE T == h.lastTerm[s]
           n == h.lastIndex[s]
           v == h.entry[u][k].term
<1>0. /\ h \in History /\ LogsConsistent(h) /\ T \in Nat /\ n \in Nat /\ v \in Nat
      /\ h.len[T] \in Nat /\ n =< h.len[T] /\ h.len[u] \in Nat
  BY HistoryTypes DEF HistoryInv, PeersConsistent
<1>1. ~Agrees(h, s, u, k)
  <2>1. SUFFICES ASSUME Agrees(h, s, u, k) PROVE FALSE
    OBVIOUS
  <2>2. k =< n /\ h.entry[T][k].term = h.entry[u][k].term
    BY <2>1 DEF Agrees
  <2>3. k =< h.len[T]
    BY <1>0, <2>2
  <2>4. Same(h, T, u, k)
    BY <1>0, <2>2, <2>3, LogsMatch
  <2> HIDE DEF n, T
  <2>5. q + 1 \in 0 .. k /\ q # n
    BY <1>0, <2>2
  <2>6. h.entry[T][q + 1] = h.entry[u][q + 1]
    BY <2>4, <2>5 DEF Same
  <2> QED BY <1>b, <2>5, <2>6 DEF T, n
<1>2. g.lastIndex[s] = k /\ g.lastTerm[s] = v /\ g.entry = h.entry
  BY <1>1, AdoptTakes, Zenon
<1>3. Same(h, u, v, k)
  <2>1. Same(h, v, u, k)
    BY <1>0 DEF LogsConsistent
  <2> QED BY <2>1, SameIsEquivalence
<1>4. Same(h, T, v, q)
  <2>1. Same(h, u, v, q)
    BY <1>3, SameBelow
  <2> QED BY <1>b, <2>1, SameIsEquivalence
<1> HIDE DEF T, n, v
<1>5. ASSUME NEW i \in base + 1 .. k PROVE lg[i - base + 1] = h.entry[v][i]
  <2>1. CASE i =< q
    <3>1. i \in base .. q /\ i \in base + 1 .. n /\ i \in 0 .. q
      BY <1>0, <1>b, <2>1 DEF n
    <3>2. lo[i - base + 1] = h.entry[T][i]
      BY <3>1 DEF IsLog, T, n
    <3> QED BY <1>4, <1>a, <3>1, <3>2 DEF Same
  <2>2. CASE ~(i =< q)
    <3>1. i \in q + 1 .. k /\ i \in 0 .. k
      BY <2>2
    <3> QED BY <1>3, <1>a, <3>1 DEF Same
  <2> QED BY <2>1, <2>2
<1>6. lg[1].term = h.entry[v][base].term
  <2>1. base \in base .. q /\ base - base + 1 = 1 /\ base \in 0 .. q
    OBVIOUS
  <2>2. lg[1] = lo[1]
    <3>1. \A i \in base .. q : lg[i - base + 1] = lo[i - base + 1]
      BY <1>a, Zenon
    <3>2. lg[base - base + 1] = lo[base - base + 1]
      BY <2>1, <3>1, Zenon
    <3> QED BY <2>1, <3>2, Zenon
  <2>3. lo[1].term = h.entry[T][base].term
    BY DEF IsLog, T
  <2> QED BY <1>4, <2>1, <2>2, <2>3 DEF Same
<1>7. Copies(h, v, data)
  <2>1. Copies(h, T, data)
    BY DEF IsLog, T
  <2> QED BY <1>4, <2>1, CopiesSame
<1>8. Copies(g, v, data)
  BY <1>2, <1>7 DEF Copies
<1>9. k = base + Len(lg) - 1
  BY <1>a
<1> QED BY <1>1, <1>2, <1>5, <1>6, <1>8, <1>9 DEF IsLog

-----------------------------------------------------------------------------
(* APPENDENTRIES *)

\* The first m entries of one sequence followed by all but the first k of another.
LEMMA Splice ==
  ASSUME NEW q \in Seq(LogEntry), NEW e \in Seq(LogEntry), NEW m \in Nat, m =< Len(q),
         NEW k \in Nat, k =< Len(e)
  PROVE  /\ Len(SubSeq(q, 1, m) \o SubSeq(e, k + 1, Len(e))) = m + (Len(e) - k)
         /\ \A j \in 1 .. m : (SubSeq(q, 1, m) \o SubSeq(e, k + 1, Len(e)))[j] = q[j]
         /\ \A j \in 1 .. Len(e) - k :
               (SubSeq(q, 1, m) \o SubSeq(e, k + 1, Len(e)))[m + j] = e[k + j]
<1> DEFINE left == SubSeq(q, 1, m)
           right == SubSeq(e, k + 1, Len(e))
           r == left \o right
<1>0. Len(q) \in Nat /\ Len(e) \in Nat
  BY LenProperties
<1>1. left \in Seq(LogEntry) /\ Len(left) = m /\ \A j \in 1 .. m : left[j] = q[j]
  <2>1. \A j \in 1 .. m : q[j] \in LogEntry
    BY <1>0, ElementOfSeq
  <2>2. /\ left \in Seq(LogEntry) /\ Len(left) = IF 1 =< m THEN m - 1 + 1 ELSE 0
        /\ \A j \in 1 .. m - 1 + 1 : left[j] = q[1 + j - 1]
    BY <2>1, SubSeqProperties
  <2> HIDE DEF left
  <2>3. ASSUME NEW j \in 1 .. m PROVE left[j] = q[j]
    <3>1. j \in 1 .. m - 1 + 1 /\ 1 + j - 1 = j
      OBVIOUS
    <3> QED BY <2>2, <3>1
  <2> QED BY <2>2, <2>3
<1>2. /\ right \in Seq(LogEntry) /\ Len(right) = Len(e) - k
      /\ \A j \in 1 .. Len(e) - k : right[j] = e[k + j]
  <2>1. k + 1 \in Nat /\ k + 1 >= 1 /\ k + 1 =< Len(e) + 1
    BY <1>0
  <2>2. /\ right \in Seq(LogEntry) /\ Len(right) = Len(e) - (k + 1) + 1
        /\ \A j \in 1 .. Len(e) - (k + 1) + 1 : right[j] = e[(k + 1) + j - 1]
    BY <2>1, EndOfSequence
  <2> HIDE DEF right
  <2>3. PICK n \in Nat : n = Len(e)
    BY <1>0
  <2>4. ASSUME NEW j \in 1 .. n - k PROVE right[j] = e[k + j]
    <3>1. j \in 1 .. n - (k + 1) + 1 /\ (k + 1) + j - 1 = k + j
      OBVIOUS
    <3> QED BY <2>2, <2>3, <3>1
  <2> QED BY <2>2, <2>3, <2>4
<1> HIDE DEF left, right
<1>3. /\ Len(r) = Len(left) + Len(right)
      /\ \A j \in 1 .. Len(left) + Len(right) :
            r[j] = IF j =< Len(left) THEN left[j] ELSE right[j - Len(left)]
  BY <1>1, <1>2, ConcatProperties
<1> HIDE DEF r
<1>4. Len(r) = m + (Len(e) - k)
  BY <1>1, <1>2, <1>3
<1>5. ASSUME NEW j \in 1 .. m PROVE r[j] = q[j]
  <2>1. j \in 1 .. m + (Len(e) - k) /\ j =< m
    BY <1>0
  <2> QED BY <1>1, <1>2, <1>3, <2>1
<1>6. ASSUME NEW j \in 1 .. Len(e) - k PROVE r[m + j] = e[k + j]
  <2>1. m + j \in 1 .. m + (Len(e) - k) /\ ~(m + j =< m) /\ (m + j) - m = j
    BY <1>0
  <2>2. r[m + j] = right[(m + j) - m]
    BY <1>1, <1>2, <1>3, <2>1
  <2> QED BY <1>2, <2>1, <2>2
<1> QED BY <1>4, <1>5, <1>6 DEF r, left, right

\* keep of the n entries e are in the log lo behind position base: all of them, or those
\* before the first that clashes.
KeepsUpTo(lo, e, n, base, clash, keep) ==
    /\ \A i : i \in clash <=> i \in 1 .. n /\ base + i =< Len(lo) /\ lo[base + i].term # e[i].term
    /\ clash # {} => keep = Min(clash) - 1
    /\ clash = {} => keep = Min({n, Len(lo) - base})

\* All of the entries up to keep are in the log, and the next one is not.
KeptUpTo(lo, e, n, base, keep) ==
    /\ keep \in 0 .. n /\ base + keep =< Len(lo)
    /\ \A j \in 1 .. keep : lo[base + j].term = e[j].term
    /\ keep = n \/ base + keep = Len(lo) \/ lo[base + (keep + 1)].term # e[keep + 1].term

LEMMA MergeKeeps ==
  ASSUME NEW lo, Len(lo) \in Nat, NEW e, NEW n \in Nat, NEW base \in 1 .. Len(lo), NEW clash,
         NEW keep, KeepsUpTo(lo, e, n, base, clash, keep)
  PROVE  KeptUpTo(lo, e, n, base, keep)
<1>0. /\ \A i : i \in clash <=> i \in 1 .. n /\ base + i =< Len(lo) /\ lo[base + i].term # e[i].term
      /\ clash # {} => keep = Min(clash) - 1
      /\ clash = {} => keep = Min({n, Len(lo) - base})
  BY DEF KeepsUpTo
<1>1. /\ clash \subseteq Nat
      /\ \A i \in clash : i \in 1 .. n /\ base + i =< Len(lo) /\ lo[base + i].term # e[i].term
      /\ \A i \in 1 .. n : base + i =< Len(lo) /\ i \notin clash => lo[base + i].term = e[i].term
  <2>1. \A i \in clash : i \in 1 .. n /\ base + i =< Len(lo) /\ lo[base + i].term # e[i].term
    BY <1>0, Zenon
  <2>2. \A i \in 1 .. n : base + i =< Len(lo) /\ i \notin clash => lo[base + i].term = e[i].term
    BY <1>0, Zenon
  <2>3. \A i \in 1 .. n : i \in Nat
    OBVIOUS
  <2>4. clash \subseteq Nat
    BY <2>1, <2>3, Zenon
  <2> QED BY <2>1, <2>2, <2>4, Zenon
<1>2. CASE clash # {}
  <2>1. keep = Min(clash) - 1
    BY <1>0, <1>2
  <2>2. Min(clash) \in clash /\ \A i \in clash : Min(clash) =< i
    BY <1>1, <1>2, MinIsLeast
  <2> DEFINE m == Min(clash)
  <2>3. m \in 1 .. n /\ base + m =< Len(lo) /\ lo[base + m].term # e[m].term
    BY <1>1, <2>2, Zenon
  <2>4. keep = m - 1
    BY <2>1
  <2>5. \A i \in clash : m =< i
    BY <2>2
  <2> HIDE DEF m
  <2>6. keep \in 0 .. n /\ base + keep =< Len(lo) /\ keep + 1 = m
    BY <2>3, <2>4
  <2>7. ASSUME NEW j \in 1 .. keep PROVE lo[base + j].term = e[j].term
    <3>1. j \in 1 .. n /\ base + j =< Len(lo) /\ ~(m =< j)
      BY <2>3, <2>4
    <3>2. j \notin clash
      BY <2>5, <3>1
    <3> QED BY <1>1, <3>1, <3>2
  <2>8. lo[base + (keep + 1)].term # e[keep + 1].term
    BY <2>3, <2>6
  <2> QED BY <2>6, <2>7, <2>8 DEF KeptUpTo
<1>3. CASE clash = {}
  <2>1. n \in Int /\ Len(lo) - base \in Int
    OBVIOUS
  <2>2. keep = IF n =< Len(lo) - base THEN n ELSE Len(lo) - base
    BY <1>0, <1>3, <2>1, MinOfTwo
  <2>3. \A i \in 1 .. n : base + i =< Len(lo) => lo[base + i].term = e[i].term
    BY <1>1, <1>3
  <2>4. keep \in 0 .. n /\ base + keep =< Len(lo) /\ (keep = n \/ base + keep = Len(lo))
    BY <2>2
  <2>5. ASSUME NEW j \in 1 .. keep PROVE lo[base + j].term = e[j].term
    <3>1. j \in 1 .. n /\ base + j =< Len(lo)
      BY <2>4
    <3> QED BY <2>3, <3>1
  <2> QED BY <2>4, <2>5 DEF KeptUpTo
<1> QED BY <1>2, <1>3

\* What the follower's log is once it has taken the entries in: what it was, if all of
\* them are in it; else what it was up to the first that is not, and the entries from
\* there on.
LEMMA MergeIs ==
  ASSUME TypeOK, NEW s \in Server, NEW c \in AppendEntriesCall, InLog(s, c.PrevLogIndex)
  PROVE  LET lg == Merge(s, c)
             prev == c.PrevLogIndex
             n == Len(c.Entries)
             b == lastIncludedIndex[s]
         IN  \/ /\ lg = log[s] /\ prev + n =< LastLogIndex(s)
                /\ \A j \in 1 .. n : TermAt(s, prev + j) = c.Entries[j].term
             \/ \E keep \in 0 .. n - 1 :
                   /\ prev + keep =< LastLogIndex(s)
                   /\ \A j \in 1 .. keep : TermAt(s, prev + j) = c.Entries[j].term
                   /\ \/ prev + keep = LastLogIndex(s)
                      \/ TermAt(s, prev + (keep + 1)) # c.Entries[keep + 1].term
                   /\ Len(lg) = prev + n - b + 1
                   /\ \A i \in b .. prev + keep : lg[i - b + 1] = log[s][i - b + 1]
                   /\ \A i \in prev + keep + 1 .. prev + n : lg[i - b + 1] = c.Entries[i - prev]
<1> DEFINE lo   == log[s]
           b    == lastIncludedIndex[s]
           e    == c.Entries
           prev == c.PrevLogIndex
           n    == Len(e)
           base == SliceIndex(s, prev)
           clash == {i \in 1 .. n : base + i =< Len(lo) /\ lo[base + i].term # e[i].term}
           k == IF clash # {} THEN Min(clash) - 1 ELSE Min({n, Len(lo) - base})
           lg == Merge(s, c)
<1>0. lo \in Seq(LogEntry) /\ e \in Seq(LogEntry)
  BY LogFacts DEF AppendEntriesCall
<1>1. Len(lo) \in Nat /\ b \in Nat /\ prev \in Nat /\ n \in Nat /\ base \in 1 .. Len(lo)
  BY <1>0, LenProperties, LogFacts DEF AppendEntriesCall
<1>2. LastLogIndex(s) = b + Len(lo) - 1 /\ base = prev - b + 1
  BY DEF LastLogIndex, SliceIndex
<1>3. lg = IF k = n THEN lo ELSE SubSeq(lo, 1, base + k) \o SubSeq(e, k + 1, n)
  BY DEF Merge
<1> HIDE DEF lo, e, prev, base, lg, n
<1>4. /\ k \in 0 .. n /\ base + k =< Len(lo)
      /\ \A j \in 1 .. k : lo[base + j].term = e[j].term
      /\ k = n \/ base + k = Len(lo) \/ lo[base + (k + 1)].term # e[k + 1].term
  <2>1. KeepsUpTo(lo, e, n, base, clash, k)
    BY Zenon DEF KeepsUpTo
  <2> HIDE DEF k, clash
  <2>2. KeptUpTo(lo, e, n, base, k)
    BY <1>1, <2>1, MergeKeeps
  <2> QED BY <2>2 DEF KeptUpTo
<1> HIDE DEF k, clash
<1>5. ASSUME NEW j \in Nat PROVE TermAt(s, prev + j) = lo[base + j].term
  <2>1. SliceIndex(s, prev + j) = (prev + j) - b + 1
    BY DEF SliceIndex
  <2>2. (prev + j) - b + 1 = base + j
    BY <1>1, <1>2
  <2> QED BY <2>1, <2>2 DEF TermAt, lo
<1>6. \A j \in 1 .. k : TermAt(s, prev + j) = e[j].term
  BY <1>4, <1>5
<1> HIDE DEF b
<1>7. prev + k =< LastLogIndex(s)
  BY <1>1, <1>2, <1>4
<1>8. CASE k = n
  <2>1. prev + n =< LastLogIndex(s) /\ lg = lo /\ \A j \in 1 .. n : TermAt(s, prev + j) = e[j].term
    BY <1>3, <1>6, <1>7, <1>8
  <2> QED BY <2>1 DEF lo, e, n, lg, prev, b
<1>9. CASE k # n
  <2>1. k \in 0 .. n - 1 /\ k \in Nat /\ k =< n
    BY <1>1, <1>4, <1>9
  <2> DEFINE m == base + k
  <2>2. m \in Nat /\ m =< Len(lo)
    BY <1>1, <1>4, <2>1
  <2>3. lg = SubSeq(lo, 1, m) \o SubSeq(e, k + 1, Len(e))
    BY <1>3, <1>9 DEF n
  <2>4. m = prev - b + 1 + k
    BY <1>2
  <2> HIDE DEF m
  <2>5. /\ Len(lg) = m + (n - k)
        /\ \A j \in 1 .. m : lg[j] = lo[j]
        /\ \A j \in 1 .. n - k : lg[m + j] = e[k + j]
    <3> DEFINE r == SubSeq(lo, 1, m) \o SubSeq(e, k + 1, Len(e))
    <3>1. /\ Len(r) = m + (Len(e) - k)
          /\ \A j \in 1 .. m : r[j] = lo[j]
          /\ \A j \in 1 .. Len(e) - k : r[m + j] = e[k + j]
      <4>1. k =< Len(e)
        BY <2>1 DEF n
      <4> QED BY <1>0, <2>1, <2>2, <4>1, Splice
    <3>2. lg = r
      BY <2>3
    <3> HIDE DEF r
    <3> QED BY <3>1, <3>2, Zenon DEF n
  <2>6. Len(lg) = prev + n - b + 1
    BY <1>1, <2>1, <2>4, <2>5
  <2>7. ASSUME NEW i \in b .. prev + k PROVE lg[i - b + 1] = lo[i - b + 1]
    <3>1. i - b + 1 \in 1 .. m
      BY <1>1, <2>1, <2>4
    <3> QED BY <2>5, <3>1
  <2>8. ASSUME NEW i \in prev + k + 1 .. prev + n PROVE lg[i - b + 1] = e[i - prev]
    <3>1. i - prev - k \in 1 .. n - k
      BY <1>1, <2>1
    <3>2. i - b + 1 = m + (i - prev - k) /\ i - prev = k + (i - prev - k)
      BY <1>1, <2>1, <2>4
    <3> QED BY <2>5, <3>1, <3>2
  <2>9. prev + k = LastLogIndex(s) \/ TermAt(s, prev + (k + 1)) # e[k + 1].term
    <3>1. base + k = Len(lo) => prev + k = LastLogIndex(s)
      BY <1>1, <1>2, <2>1
    <3>2. TermAt(s, prev + (k + 1)) = lo[base + (k + 1)].term
      BY <1>5, <2>1
    <3> QED BY <1>4, <1>9, <3>1, <3>2
  <2> HIDE DEF k
  <2>10. \E keep \in 0 .. n - 1 :
            /\ prev + keep =< LastLogIndex(s)
            /\ \A j \in 1 .. keep : TermAt(s, prev + j) = e[j].term
            /\ \/ prev + keep = LastLogIndex(s)
               \/ TermAt(s, prev + (keep + 1)) # e[keep + 1].term
            /\ Len(lg) = prev + n - b + 1
            /\ \A i \in b .. prev + keep : lg[i - b + 1] = lo[i - b + 1]
            /\ \A i \in prev + keep + 1 .. prev + n : lg[i - b + 1] = e[i - prev]
    BY <1>6, <1>7, <2>1, <2>6, <2>7, <2>8, <2>9, Zenon
  <2> QED BY <2>10 DEF lo, e, n, lg, prev, b
<1> QED BY <1>8, <1>9

\* The follower's log after AppendEntries() has accepted is what the history says.
LEMMA MergeIsLog ==
  ASSUME TypeOK, NEW h, HistoryInv(h), NEW s \in Server, Len(snapshot[s]) = lastIncludedIndex[s],
         IsLog(h, s, log[s], lastIncludedIndex[s], snapshot[s]),
         NEW c \in AppendEntriesCall, AppendCallIs(h, c), InLog(s, c.PrevLogIndex),
         TermAt(s, c.PrevLogIndex) = c.PrevlogTerm,
         NEW g, HistoryInv(g), Grows(h, g),
         Adopt(h, g, s, c.Term, c.PrevLogIndex + Len(c.Entries))
  PROVE  IsLog(g, s, Merge(s, c), lastIncludedIndex[s], snapshot[s])
<1> DEFINE u    == c.Term
           prev == c.PrevLogIndex
           e    == c.Entries
           n    == Len(e)
           k    == prev + n
           T    == h.lastTerm[s]
           L    == h.lastIndex[s]
           b    == lastIncludedIndex[s]
           lo   == log[s]
           lg   == Merge(s, c)
<1>0. /\ h \in History /\ LogsConsistent(h) /\ T \in Nat /\ L \in Nat
      /\ h.len[T] \in Nat /\ L =< h.len[T]
  BY HistoryTypes DEF HistoryInv, PeersConsistent
<1>1. u \in Nat /\ prev \in Nat /\ n \in Nat /\ k \in Nat /\ h.len[u] \in Nat
  <2>1. u \in Nat /\ prev \in Nat /\ e \in Seq(LogEntry)
    BY DEF AppendEntriesCall
  <2>2. n \in Nat /\ h.len[u] \in Nat
    BY <1>0, <2>1, HistoryTypes, LenProperties
  <2> QED BY <2>1, <2>2
<1>2. b \in Nat /\ Len(lo) \in Nat \ {0} /\ b =< prev /\ prev =< L /\ L = LastLogIndex(s)
  <2>1. b \in Nat /\ Len(lo) \in Nat \ {0} /\ LastLogIndex(s) \in Nat
    BY LogFacts
  <2>2. L = LastLogIndex(s)
    BY TermIs
  <2> QED BY <1>1, <2>1, <2>2 DEF InLog
<1>3. ASSUME NEW j \in Nat, prev + j =< L
      PROVE  TermAt(s, prev + j) = h.entry[T][prev + j].term
  <2>1. InLog(s, prev + j)
    BY <1>1, <1>2, <1>3 DEF InLog
  <2> QED BY <2>1, TermIs
<1>4. /\ k =< h.len[u] /\ c.PrevlogTerm = h.entry[u][prev].term
      /\ \A j \in 1 .. n : e[j] = h.entry[u][prev + j]
  BY DEF AppendCallIs
<1>5. Adopt(h, g, s, u, k)
  OBVIOUS
<1>6. h.entry[T][prev].term = h.entry[u][prev].term
  BY <1>4, TermIs
<1>7. /\ Len(snapshot[s]) = b /\ IsLog(h, s, lo, b, snapshot[s])
  OBVIOUS
<1>8. \/ /\ lg = lo /\ k =< L
         /\ \A j \in 1 .. n : TermAt(s, prev + j) = e[j].term
      \/ \E keep \in 0 .. n - 1 :
            /\ prev + keep =< L
            /\ \A j \in 1 .. keep : TermAt(s, prev + j) = e[j].term
            /\ prev + keep = L \/ TermAt(s, prev + (keep + 1)) # e[keep + 1].term
            /\ Len(lg) = prev + n - b + 1
            /\ \A i \in b .. prev + keep : lg[i - b + 1] = lo[i - b + 1]
            /\ \A i \in prev + keep + 1 .. prev + n : lg[i - b + 1] = e[i - prev]
  BY <1>2, MergeIs, ZenonT(40)
<1> HIDE DEF u, prev, e, n, T, L, b, lo, lg
<1>9. ASSUME NEW q \in Nat, q =< n, prev + q =< L,
             \A j \in 1 .. q : TermAt(s, prev + j) = e[j].term
      PROVE  h.entry[T][prev + q].term = h.entry[u][prev + q].term
  <2>1. CASE q = 0
    BY <1>1, <1>6, <2>1
  <2>2. CASE q # 0
    <3>1. q \in 1 .. q /\ q \in 1 .. n
      BY <1>1, <1>9, <2>2
    <3> QED BY <1>3, <1>4, <1>9, <3>1
  <2> QED BY <2>1, <2>2
<1>10. CASE /\ lg = lo /\ k =< L
            /\ \A j \in 1 .. n : TermAt(s, prev + j) = e[j].term
  <2>1. h.entry[T][k].term = h.entry[u][k].term
    BY <1>1, <1>9, <1>10
  <2>2. Agrees(h, s, u, k)
    BY <1>10, <2>1 DEF Agrees, T, L
  <2> HIDE DEF k
  <2>3. g.lastIndex[s] = h.lastIndex[s] /\ g.lastTerm[s] = h.lastTerm[s]
    BY <1>0, <1>1, <1>5, <2>2, AdoptFields
  <2>4. IsLog(g, s, lo, b, snapshot[s])
    BY <1>2, <1>7, <2>3, IsLogStays
  <2> QED BY <1>10, <2>4 DEF lg, b
<1>11. ASSUME NEW keep \in 0 .. n - 1,
              prev + keep =< L,
              \A j \in 1 .. keep : TermAt(s, prev + j) = e[j].term,
              prev + keep = L \/ TermAt(s, prev + (keep + 1)) # e[keep + 1].term,
              Len(lg) = prev + n - b + 1,
              \A i \in b .. prev + keep : lg[i - b + 1] = lo[i - b + 1],
              \A i \in prev + keep + 1 .. prev + n : lg[i - b + 1] = e[i - prev]
       PROVE  IsLog(g, s, lg, b, snapshot[s])
  <2> DEFINE q == prev + keep
  <2>1. keep \in Nat /\ keep =< n /\ keep < n /\ keep + 1 \in 1 .. n
    BY <1>1
  <2>0. prev + keep =< L
    BY <1>11, Zenon
  <2>2. h.entry[T][q].term = h.entry[u][q].term
    BY <1>9, <1>11, <2>1
  <2>3. q \in Nat /\ b =< q /\ q =< L /\ q < k /\ q =< h.len[T] /\ q =< h.len[u]
    BY <1>0, <1>1, <1>2, <1>4, <2>0, <2>1
  <2>4. Same(h, T, u, q)
    BY <1>0, <1>1, <2>2, <2>3, LogsMatch
  <2>5. q = L \/ h.entry[T][q + 1].term # h.entry[u][q + 1].term
    <3>1. CASE q # L
      <4>0. L \in Nat /\ prev \in Nat /\ keep \in Nat
        BY <1>0, <1>1, <2>1
      <4>a. prev + keep =< L /\ prev + keep # L
        BY <2>0, <3>1
      <4>1. prev + (keep + 1) =< L /\ keep + 1 \in Nat
        BY <4>0, <4>a
      <4>2. TermAt(s, prev + (keep + 1)) = h.entry[T][prev + (keep + 1)].term
        BY <1>3, <4>1
      <4>3. e[keep + 1] = h.entry[u][prev + (keep + 1)]
        BY <1>4, <2>1
      <4>4. prev + (keep + 1) = q + 1
        BY <1>1, <2>1
      <4> QED BY <1>11, <3>1, <4>2, <4>3, <4>4
    <3> QED BY <3>1
  <2>6. ASSUME NEW i \in q + 1 .. k PROVE lg[i - b + 1] = h.entry[u][i]
    <3>1. i - prev \in 1 .. n /\ prev + (i - prev) = i
      BY <1>1, <2>1
    <3>2. lg[i - b + 1] = e[i - prev]
      BY <1>11
    <3> QED BY <1>4, <3>1, <3>2
  <2>7. Len(lg) = k - b + 1
    <3>1. Len(lg) = prev + n - b + 1
      BY <1>11, Zenon
    <3> QED BY <1>1, <1>2, <3>1
  <2>8. \A i \in b .. q : lg[i - b + 1] = lo[i - b + 1]
    BY <1>11
  <2>9. Spliced(h, u, lg, lo, b, q, k)
    BY <2>6, <2>7, <2>8 DEF Spliced
  <2>10. AgreesUpTo(h, s, u, q)
    BY <2>3, <2>4, <2>5 DEF AgreesUpTo, T, L
  <2> HIDE DEF k, q
  <2> QED BY <1>1, <1>2, <1>4, <1>5, <1>7, <2>3, <2>9, <2>10, SpliceAdopts
<1> QED BY <1>8, <1>10, <1>11 DEF lg, b

\* AppendEntries() that takes the entries in.
LEMMA AcceptMoves ==
  ASSUME TypeOK, NEW c \in appendCalls, AppendEntries(c), AppendVerdict(c.to, c) = "accept",
         NEW s \in Server, c.to = s
  PROVE  /\ c \in AppendEntriesCall /\ InLog(s, c.PrevLogIndex)
         /\ TermAt(s, c.PrevLogIndex) = c.PrevlogTerm
         /\ term[s] =< c.Term /\ term'[s] = c.Term /\ state'[s] = "Follower"
         /\ log'[s] = Merge(s, c)
         /\ commitIndex'[s] = commitIndex[s] \/ commitIndex'[s] =< c.LeaderCommit
         /\ \A p \in Server \ {s} : /\ term'[p] = term[p] /\ state'[p] = state[p]
                                    /\ log'[p] = log[p] /\ commitIndex'[p] = commitIndex[p]
         /\ UNCHANGED <<lastIncludedIndex, snapshot, leaderVars>>
         /\ UNCHANGED <<applied, delivering, pendingSnapshot, voteCalls, snapCalls>>
         /\ appendCalls' = Answered(appendCalls, c, AppendReply(s, c))
<1> DEFINE m == Min({c.LeaderCommit, lastIncludedIndex[s] + Len(Merge(s, c)) - 1})
<1>0. /\ c \in AppendEntriesCall /\ term \in [Server -> Nat] /\ state \in [Server -> StateType]
      /\ log \in [Server -> LogType] /\ commitIndex \in [Server -> Nat]
      /\ lastIncludedIndex \in [Server -> Nat]
  BY DEF TypeOK
<1>1. c.Term \in Nat /\ c.LeaderCommit \in Nat /\ term[s] \in Nat
  BY <1>0 DEF AppendEntriesCall
<1>2. AppendVerdict(s, c) = "accept" /\ AppendVerdict(s, c) # "stale"
  OBVIOUS
<1>3. InLog(s, c.PrevLogIndex)
  BY <1>0, <1>2, VerdictInLog
<1>4. ~(c.Term < term[s]) /\ TermAt(s, c.PrevLogIndex) = c.PrevlogTerm
  BY <1>2 DEF AppendVerdict
<1>5. m =< c.LeaderCommit
  <2>1. Merge(s, c) \in LogType
    BY <1>0, <1>3, MergeType
  <2>2. Len(Merge(s, c)) \in Nat /\ lastIncludedIndex[s] \in Nat
    BY <1>0, <2>1, LenProperties DEF LogType
  <2>3. lastIncludedIndex[s] + Len(Merge(s, c)) - 1 \in Int
    BY <2>2
  <2> QED BY <1>1, <2>3, MinOfTwo
<1>6. /\ term' = [term EXCEPT ![s] = IF c.Term > term[s] THEN c.Term ELSE @]
      /\ state' = [state EXCEPT ![s] = "Follower"]
      /\ log' = [log EXCEPT ![s] = Merge(s, c)]
      /\ UNCHANGED <<lastIncludedIndex, snapshot, leaderVars>>
      /\ UNCHANGED <<applied, delivering, pendingSnapshot, voteCalls, snapCalls>>
      /\ appendCalls' = Answered(appendCalls, c, AppendReply(s, c))
  BY <1>2 DEF AppendEntries
<1>7. commitIndex' = [commitIndex EXCEPT ![s] = m] \/ commitIndex' = commitIndex
  BY <1>2 DEF AppendEntries
<1> HIDE DEF m
<1>8. term'[s] = c.Term /\ term[s] =< c.Term
  BY <1>0, <1>1, <1>4, <1>6
<1>9. /\ commitIndex'[s] = commitIndex[s] \/ commitIndex'[s] =< c.LeaderCommit
      /\ \A p \in Server \ {s} : commitIndex'[p] = commitIndex[p]
  BY <1>0, <1>5, <1>7
<1>10. /\ state'[s] = "Follower" /\ log'[s] = Merge(s, c)
       /\ \A p \in Server \ {s} : term'[p] = term[p] /\ state'[p] = state[p] /\ log'[p] = log[p]
  BY <1>0, <1>6
<1> QED BY <1>0, <1>3, <1>4, <1>6, <1>8, <1>9, <1>10

\* The run of a term starts no later than where it was found.
LEMMA ConflictStartBelow ==
  ASSUME TypeOK, NEW s \in Server, NEW prev \in Nat
  PROVE  ConflictStart(s, prev) =< prev
<1> DEFINE T == {prev} \cup {k \in lastIncludedIndex[s] + 1 .. prev :
                               \A j \in k .. prev : TermAt(s, j) = TermAt(s, prev)}
<1>0. lastIncludedIndex[s] \in Nat
  BY LogFacts
<1>1. T \subseteq Nat /\ prev \in T
  BY <1>0
<1>2. ConflictStart(s, prev) = Min(T)
  BY DEF ConflictStart
<1> HIDE DEF T
<1>3. Min(T) =< prev
  BY <1>1, MinIsLeast
<1> QED BY <1>2, <1>3

\* What AppendEntries() answers when it refuses.
LEMMA RejectSays ==
  ASSUME NEW h, Explained(h), NEW c \in appendCalls, AppendCallIs(h, c),
         AppendVerdict(c.to, c) # "accept",
         NEW d, d.reply = AppendReply(c.to, c), d.reply.Term =< c.Term, d.Term = c.Term,
         d.PrevLogIndex = c.PrevLogIndex, d.PrevlogTerm = c.PrevlogTerm
  PROVE  RejectIs(h, d)
<1> DEFINE s == c.to
           prev == c.PrevLogIndex
           u == c.Term
           r == AppendReply(s, c)
<1>0. TypeOK /\ c \in AppendEntriesCall
  BY DEF Explained, TypeOK
<1>1. s \in Server /\ u \in Nat /\ prev \in Nat
  BY <1>0 DEF AppendEntriesCall
<1>2. /\ PeerIs(h, s) /\ HistoryInv(h) /\ h \in History /\ term[s] \in Nat /\ commitIndex[s] \in Nat
      /\ lastIncludedIndex[s] \in Nat /\ lastIncludedIndex[s] =< commitIndex[s]
      /\ h.term[s] = term[s] /\ h.lastIndex[s] = LastLogIndex(s) /\ LastLogIndex(s) \in Nat
  <2> HIDE DEF s
  <2> QED BY <1>0, <1>1, PeerFacts, LogFacts
<1>3. h.winner[u] # Nil /\ c.PrevlogTerm = h.entry[u][prev].term
  BY DEF AppendCallIs
<1>4. /\ r.Term = Max({term[s], u})
      /\ r.XTerm = IF AppendVerdict(s, c) = "conflict" THEN TermAt(s, prev) ELSE -1
      /\ r.XIndex = IF AppendVerdict(s, c) = "conflict" THEN ConflictStart(s, prev) ELSE -1
      /\ r.XLen = IF AppendVerdict(s, c) = "compacted" THEN lastIncludedIndex[s] + 1
                                                       ELSE LastLogIndex(s) + 1
  BY DEF AppendReply
<1>5. d.reply = r
  OBVIOUS
<1> HIDE DEF r
<1>6. term[s] =< u
  <2>1. r.Term =< u
    BY <1>5
  <2> QED BY <1>1, <1>2, <1>4, <2>1, MaxOfTwo
<1>7. CASE prev > LastLogIndex(s)
  <2>1. AppendVerdict(s, c) = "short"
    BY <1>1, <1>2, <1>6, <1>7 DEF AppendVerdict
  <2>2. r.XTerm = -1 /\ r.XLen = LastLogIndex(s) + 1
    BY <1>4, <2>1
  <2>3. prev >= 1 /\ r.XLen =< prev
    BY <1>1, <1>2, <1>7, <2>2
  <2> QED BY <1>5, <2>2, <2>3 DEF RejectIs
<1>8. CASE prev =< LastLogIndex(s) /\ prev < lastIncludedIndex[s]
  <2>1. AppendVerdict(s, c) = "compacted"
    BY <1>1, <1>2, <1>6, <1>8 DEF AppendVerdict
  <2>2. r.XTerm = -1 /\ r.XLen = lastIncludedIndex[s] + 1
    BY <1>4, <2>1
  <2>3. commitIndex[s] =< h.len[u] /\ h.len[u] \in Nat
    <3>1. Committed(h, s, commitIndex[s])
      BY <1>2 DEF PeerIs
    <3>2. h.term[s] =< u
      BY <1>2, <1>6
    <3> QED BY <1>1, <1>2, <1>3, <3>1, <3>2, CommittedIsContained, HistoryTypes
  <2>4. r.XLen > prev + 1 /\ r.XLen =< h.len[u] + 1
    BY <1>1, <1>2, <1>8, <2>2, <2>3
  <2> QED BY <1>5, <2>2, <2>4 DEF RejectIs
<1>9. CASE prev =< LastLogIndex(s) /\ ~(prev < lastIncludedIndex[s])
  <2>1. InLog(s, prev)
    BY <1>1, <1>2, <1>9 DEF InLog
  <2>2. AppendVerdict(s, c) = "conflict" /\ TermAt(s, prev) # c.PrevlogTerm
    BY <1>1, <1>2, <1>6, <1>9 DEF AppendVerdict
  <2>3. /\ TermAt(s, prev) = h.entry[h.lastTerm[s]][prev].term /\ TermAt(s, prev) \in Nat
    <3>1. IsLog(h, s, log[s], lastIncludedIndex[s], snapshot[s])
      BY <1>2 DEF PeerIs
    <3> HIDE DEF s, prev
    <3> QED BY <1>0, <1>1, <1>2, <2>1, <3>1, TermIs, LogFacts
  <2>4. prev # 0
    <3>1. h.entry[h.lastTerm[s]][0] = Dummy /\ h.entry[u][0] = Dummy
      BY <1>1, <1>2, HistoryTypes DEF HistoryInv, LogsConsistent
    <3> QED BY <1>3, <2>2, <2>3, <3>1
  <2>5. r.XTerm # -1 /\ r.XTerm # c.PrevlogTerm
    BY <1>4, <2>2, <2>3, SMTT(40)
  <2>6. r.XIndex =< prev
    BY <1>0, <1>1, <1>4, <2>2, ConflictStartBelow
  <2>7. prev >= 1
    BY <1>1, <2>4
  <2> QED BY <1>5, <2>5, <2>6, <2>7 DEF RejectIs
<1> QED BY <1>1, <1>2, <1>7, <1>8, <1>9

\* AppendEntries() that refuses the entries.
LEMMA RejectSafe ==
  ASSUME NEW h, Explained(h), Quiet, NEW c \in appendCalls, AppendEntries(c),
         AppendVerdict(c.to, c) # "accept"
  PROVE  SafeStep(h)
<1> DEFINE r == AppendReply(c.to, c)
<1>1. /\ log' = [log EXCEPT ![c.to] = log[c.to]]
      /\ UNCHANGED <<lastIncludedIndex, snapshot, commitIndex, leaderVars>>
      /\ UNCHANGED <<applied, delivering, pendingSnapshot>>
      /\ appendCalls' = Answered(appendCalls, c, r)
      /\ voteCalls' = voteCalls /\ snapCalls' = snapCalls
  BY DEF AppendEntries
<1>2. UNCHANGED log /\ c \in AppendEntriesCall /\ appendCalls \in SUBSET AppendEntriesCall
  BY <1>1 DEF Explained, TypeOK
<1>3. ~r.Success
  BY DEF AppendReply
<1> HIDE DEF r
<1>4. AppendCallIs(h, c)
  BY DEF Explained, StateIs
<1>5. ASSUME NEW d \in appendCalls'
      PROVE  AppendCallIs(h, d) \/ \E e \in appendCalls : SameAppend(d, e)
  <2>1. CASE d \in appendCalls
    BY <2>1, SameCall
  <2>2. CASE d \notin appendCalls
    <3>1. /\ d.reply = r /\ d.Term = c.Term
          /\ d.PrevLogIndex = c.PrevLogIndex /\ d.PrevlogTerm = c.PrevlogTerm
          /\ d.Entries = c.Entries /\ d.LeaderCommit = c.LeaderCommit
      BY <1>1, <1>2, <2>2, AnsweredAppend
    <3>2. d.reply.Term =< c.Term => RejectIs(h, d)
      BY <1>4, <3>1, RejectSays DEF r
    <3> QED BY <1>3, <1>4, <3>1, <3>2 DEF AppendCallIs
  <2> QED BY <2>1, <2>2
<1>6. CallsMove(h)
  BY <1>1, <1>5, SameCall DEF CallsMove
<1> QED BY <1>1, <1>2, <1>6, StillSafe

LEMMA AcceptSafe ==
  ASSUME NEW h, Explained(h), Quiet, NEW c \in appendCalls, AppendEntries(c),
         AppendVerdict(c.to, c) = "accept"
  PROVE  SafeStep(h)
<1> DEFINE s == c.to
           u == c.Term
           k == c.PrevLogIndex + Len(c.Entries)
<1>0. TypeOK /\ c \in AppendEntriesCall /\ appendCalls \in SUBSET AppendEntriesCall
  BY DEF Explained, TypeOK
<1>1. s \in Server /\ u \in Nat /\ k \in Nat /\ c.LeaderCommit \in Nat
  <2>1. s \in Server /\ u \in Nat /\ c.PrevLogIndex \in Nat /\ c.Entries \in Seq(LogEntry)
        /\ c.LeaderCommit \in Nat
    BY <1>0 DEF AppendEntriesCall
  <2>2. Len(c.Entries) \in Nat
    BY <2>1, LenProperties
  <2> QED BY <2>1, <2>2
<1>2. AppendCallIs(h, c)
  BY DEF Explained, StateIs
<1>3. /\ h.winner[u] # Nil /\ k =< h.len[u] /\ c.LeaderCommit =< k
      /\ Decided(h, c.LeaderCommit, u, u)
  BY <1>2 DEF AppendCallIs
<1>4. /\ c \in AppendEntriesCall /\ InLog(s, c.PrevLogIndex)
      /\ TermAt(s, c.PrevLogIndex) = c.PrevlogTerm
      /\ term[s] =< u /\ term'[s] = u /\ state'[s] = "Follower"
      /\ log'[s] = Merge(s, c)
      /\ commitIndex'[s] = commitIndex[s] \/ commitIndex'[s] =< c.LeaderCommit
      /\ \A p \in Server \ {s} : /\ term'[p] = term[p] /\ state'[p] = state[p]
                                 /\ log'[p] = log[p] /\ commitIndex'[p] = commitIndex[p]
      /\ UNCHANGED <<lastIncludedIndex, snapshot, leaderVars>>
      /\ UNCHANGED <<applied, delivering, pendingSnapshot, voteCalls, snapCalls>>
      /\ appendCalls' = Answered(appendCalls, c, AppendReply(s, c))
  BY <1>0, <1>1, AcceptMoves
<1>5. /\ PeerIs(h, s) /\ HistoryInv(h) /\ h \in History /\ h.term[s] = term[s]
      /\ commitIndex[s] \in Nat /\ Len(snapshot[s]) = lastIncludedIndex[s]
  BY <1>1, PeerFacts
<1>6. PICK g \in History : Adopt(h, g, s, u, k) /\ HistoryInv(g) /\ Grows(h, g)
  <2>1. h.term[s] =< u
    BY <1>4, <1>5
  <2> HIDE DEF s, u, k
  <2> QED BY <1>1, <1>3, <1>5, <2>1, CanAdopt
<1>7. IsLog(g, s, Merge(s, c), lastIncludedIndex[s], snapshot[s])
  BY <1>0, <1>1, <1>2, <1>4, <1>5, <1>6, MergeIsLog DEF PeerIs
<1> HIDE DEF s, u, k
<1>8. /\ g.winner = h.winner /\ g.entry = h.entry /\ g.len = h.len
      /\ g.term[s] = u /\ k =< g.acked[s][u]
      /\ \A p \in Server \ {s} : /\ g.term[p] = h.term[p] /\ g.lastIndex[p] = h.lastIndex[p]
                                 /\ g.lastTerm[p] = h.lastTerm[p]
  BY <1>1, <1>5, <1>6, AdoptFields
<1>9. h.term[s] =< u /\ Committed(h, s, commitIndex[s])
  BY <1>4, <1>5 DEF PeerIs
<1>10. KeepsLog(h, g, s, commitIndex[s]) /\ Committed(g, s, commitIndex[s])
  BY <1>1, <1>3, <1>5, <1>6, <1>9, AdoptKeepsCommitted
<1>11. Committed(g, s, commitIndex'[s])
  <2>1. commitIndex'[s] \in Nat
    BY <1>1 DEF Explained, TypeOK
  <2>2. CASE commitIndex'[s] =< c.LeaderCommit
    <3>1. PICK m \in Nat : m = commitIndex'[s]
      BY <2>1
    <3>2. m =< c.LeaderCommit /\ m =< k
      BY <1>1, <1>3, <2>2, <3>1
    <3>3. Decided(h, m, u, u)
      BY <1>1, <1>3, <3>2, DecidedBelow
    <3>4. Committed(g, s, m)
      BY <1>1, <1>3, <1>5, <1>6, <3>2, <3>3, AdoptCommits
    <3> QED BY <3>1, <3>4
  <2> QED BY <1>4, <1>10, <2>2
<1>12. Serves(g, s, applied'[s], delivering'[s], pendingSnapshot'[s])
  <2>1. Reaches(applied[s], delivering[s], pendingSnapshot[s], commitIndex[s])
    BY <1>1, ServiceReaches DEF Explained
  <2>2. Serves(g, s, applied[s], delivering[s], pendingSnapshot[s])
    BY <1>5, <1>10, <2>1, ServesKept DEF PeerIs
  <2> QED BY <1>4, <2>2
<1>13. PeerIs(g, s)'
  <2>1. IsLog(g, s, log'[s], lastIncludedIndex'[s], snapshot'[s])
    BY <1>4, <1>7
  <2> QED BY <1>4, <1>8, <1>11, <1>12, <2>1 DEF PeerIs
<1>14. \A p \in Server \ {s} : StandsBy(h, g, p)
  BY <1>4, <1>8 DEF StandsBy, SameLog, SameService, leaderVars
<1>15. ASSUME NEW d \in appendCalls'
       PROVE  AppendCallIs(g, d) \/ \E e \in appendCalls : SameAppend(d, e)
  <2>1. CASE d \in appendCalls
    BY <2>1, SameCall
  <2>2. CASE d \notin appendCalls
    <3>1. /\ d.to = c.to /\ d.Term = c.Term
          /\ d.PrevLogIndex = c.PrevLogIndex /\ d.PrevlogTerm = c.PrevlogTerm
          /\ d.Entries = c.Entries /\ d.LeaderCommit = c.LeaderCommit
      BY <1>0, <1>4, <2>2, AnsweredAppend
    <3>2. AppendCallIs(g, c)
      BY <1>0, <1>2, <1>5, <1>6, SameCall, AppendCallStays
    <3>3. d.reply.Success
      <4>1. d.reply = AppendReply(s, c)
        BY <1>0, <1>4, <2>2, AnsweredAppend
      <4>2. AppendVerdict(s, c) = "accept"
        BY DEF s
      <4>3. AppendReply(s, c).Success
        BY <4>2 DEF AppendReply
      <4> QED BY <4>1, <4>3
    <3> QED BY <1>8, <3>1, <3>2, <3>3 DEF AppendCallIs, s, u, k
  <2> QED BY <2>1, <2>2
<1>16. /\ \A d \in snapCalls' : \E e \in snapCalls : SameSnap(d, e)
       /\ voteCalls' \subseteq voteCalls
  BY <1>4, SameCall
<1>17. state'[s] # "Candidate"
  BY <1>4
<1> QED BY <1>1, <1>5, <1>6, <1>8, <1>10, <1>13, <1>14, <1>15, <1>16, <1>17, OnePeerMoves

-----------------------------------------------------------------------------
(* INSTALLSNAPSHOT *)

\* The follower's log behind the snapshot it has installed is what the history says.
LEMMA InstallIsLog ==
  ASSUME TypeOK, NEW h, HistoryInv(h), NEW s \in Server,
         IsLog(h, s, log[s], lastIncludedIndex[s], snapshot[s]),
         NEW u \in Nat, NEW k \in Nat, k >= lastIncludedIndex[s], k =< h.len[u],
         NEW t \in Nat, t = h.entry[u][k].term,
         NEW data, Len(data) = k, Copies(h, u, data),
         NEW g, Adopt(h, g, s, u, k)
  PROVE  IsLog(g, s, Compact(s, k, t), k, data)
<1> DEFINE T  == h.lastTerm[s]
           L  == h.lastIndex[s]
           b  == lastIncludedIndex[s]
           lg == Compact(s, k, t)
<1>0. /\ h \in History /\ LogsConsistent(h) /\ T \in Nat /\ L \in Nat
      /\ h.len[T] \in Nat /\ L =< h.len[T] /\ h.len[u] \in Nat
  BY HistoryTypes DEF HistoryInv, PeersConsistent
<1>1. b \in Nat /\ L = LastLogIndex(s) /\ \A i : InLog(s, i) => TermAt(s, i) = h.entry[T][i].term
  BY LogFacts, TermIs
<1>2. /\ lg[1].term = t /\ Len(lg) \in Nat
      /\ k =< L /\ TermAt(s, k) = t =>
            /\ k + Len(lg) - 1 = L
            /\ \A j \in k + 1 .. L : lg[j - k + 1] = log[s][SliceIndex(s, j)]
      /\ ~(k =< L /\ TermAt(s, k) = t) => Len(lg) = 1
  BY <1>1, CompactIs, SMTT(40)
<1>3. Agrees(h, s, u, k) <=> k =< L /\ TermAt(s, k) = t
  <2>1. k =< L => InLog(s, k)
    BY <1>0, <1>1 DEF InLog
  <2> QED BY <1>1, <2>1 DEF Agrees
<1>4. g.entry = h.entry
  BY <1>0, AdoptFields
<1> HIDE DEF T, L, b, lg
<1>5. CASE Agrees(h, s, u, k)
  <2>1. k =< L /\ TermAt(s, k) = t
    BY <1>3, <1>5
  <2>2. h.entry[T][k].term = h.entry[u][k].term /\ k =< h.len[T]
    BY <1>0, <1>5, <2>1 DEF Agrees, T
  <2>3. Same(h, T, u, k)
    BY <1>0, <2>2, LogsMatch
  <2>4. Copies(h, T, data)
    <3>1. Same(h, u, T, k)
      BY <2>3, SameIsEquivalence
    <3> QED BY <3>1, CopiesSame
  <2>5. g.lastIndex[s] = L /\ g.lastTerm[s] = T
    BY <1>0, <1>5, AdoptFields DEF L, T
  <2>6. ASSUME NEW j \in k + 1 .. L PROVE lg[j - k + 1] = h.entry[T][j]
    <3>1. lg[j - k + 1] = log[s][SliceIndex(s, j)]
      BY <1>2, <2>1
    <3>2. j \in b + 1 .. L
      BY <1>0, <1>1 DEF b
    <3>3. log[s][SliceIndex(s, j)] = h.entry[T][j]
      BY <3>2 DEF IsLog, SliceIndex, b, T, L
    <3> QED BY <3>1, <3>3
  <2>7. L = k + Len(lg) - 1 /\ lg[1].term = h.entry[T][k].term
    BY <1>2, <2>1, <2>2
  <2>8. IsLog(g, s, lg, k, data)
    BY <1>4, <2>4, <2>5, <2>6, <2>7 DEF IsLog, Copies
  <2> QED BY <2>8 DEF lg
<1>6. CASE ~Agrees(h, s, u, k)
  <2>1. Len(lg) = 1
    BY <1>2, <1>3, <1>6
  <2>2. g.lastIndex[s] = k /\ g.lastTerm[s] = t
    BY <1>6, AdoptTakes
  <2>3. Same(h, t, u, k)
    BY <1>0 DEF LogsConsistent
  <2>4. Copies(h, t, data) /\ h.entry[t][k] = h.entry[u][k]
    <3>1. Same(h, u, t, k)
      BY <2>3, SameIsEquivalence
    <3> QED BY <2>3, <3>1, CopiesSame, SameBelow
  <2>5. k = k + Len(lg) - 1 /\ lg[1].term = h.entry[t][k].term /\ k + 1 .. k = {}
    BY <1>2, <2>1, <2>4
  <2>6. IsLog(g, s, lg, k, data)
    BY <1>4, <2>2, <2>4, <2>5 DEF IsLog, Copies
  <2> QED BY <2>6 DEF lg
<1> QED BY <1>5, <1>6

LEMMA InstallMoves ==
  ASSUME TypeOK, NEW c \in snapCalls, InstallSnapshot(c), c.Term >= term[c.to],
         NEW s \in Server, c.to = s
  PROVE  /\ c \in InstallSnapshotCall
         /\ term'[s] = c.Term /\ state'[s] = "Follower"
         /\ \/ /\ c.LastIncludedIndex > commitIndex[s]
               /\ log'[s] = Compact(s, c.LastIncludedIndex, c.LastIncludedTerm)
               /\ lastIncludedIndex'[s] = c.LastIncludedIndex /\ snapshot'[s] = c.Data
               /\ commitIndex'[s] = c.LastIncludedIndex /\ pendingSnapshot'[s].Date = c.Data
            \/ /\ c.LastIncludedIndex =< commitIndex[s] /\ commitIndex'[s] = commitIndex[s]
               /\ SameLog(s) /\ pendingSnapshot'[s] = pendingSnapshot[s]
         /\ \A p \in Server \ {s} : /\ term'[p] = term[p] /\ state'[p] = state[p] /\ SameLog(p)
                                    /\ commitIndex'[p] = commitIndex[p]
                                    /\ pendingSnapshot'[p] = pendingSnapshot[p]
         /\ UNCHANGED <<leaderVars, applied, delivering, voteCalls, appendCalls>>
         /\ snapCalls' = Answered(snapCalls, c, [Term |-> term'[s]])
<1> DEFINE k == c.LastIncludedIndex
           x == [Index |-> k, Term |-> c.LastIncludedTerm, Date |-> c.Data]
<1>0. /\ c \in InstallSnapshotCall /\ term \in [Server -> Nat] /\ state \in [Server -> StateType]
      /\ log \in [Server -> LogType] /\ commitIndex \in [Server -> Nat]
      /\ lastIncludedIndex \in [Server -> Nat] /\ snapshot \in [Server -> Data]
      /\ pendingSnapshot \in [Server -> SnapshotState \cup {Nil}]
  BY DEF TypeOK
<1>1. c.Term \in Nat /\ k \in Nat /\ term[s] \in Nat /\ commitIndex[s] \in Nat
  BY <1>0 DEF InstallSnapshotCall
<1>2. /\ term' = [term EXCEPT ![s] = IF c.Term > term[s] THEN c.Term ELSE @]
      /\ state' = [state EXCEPT ![s] = "Follower"]
      /\ UNCHANGED <<leaderVars, applied, delivering, voteCalls, appendCalls>>
      /\ snapCalls' = Answered(snapCalls, c, [Term |-> term'[s]])
  BY DEF InstallSnapshot
<1>3. /\ term'[s] = c.Term /\ state'[s] = "Follower"
      /\ \A p \in Server \ {s} : term'[p] = term[p] /\ state'[p] = state[p]
  BY <1>0, <1>1, <1>2
<1>4. CASE k > commitIndex[s]
  <2>1. Installs(s, c)
    BY <1>4 DEF Installs
  <2>2. /\ log' = [log EXCEPT ![s] = Compact(s, k, c.LastIncludedTerm)]
        /\ lastIncludedIndex' = [lastIncludedIndex EXCEPT ![s] = k]
        /\ snapshot' = [snapshot EXCEPT ![s] = c.Data]
        /\ commitIndex' = [commitIndex EXCEPT ![s] = k]
        /\ pendingSnapshot' = [pendingSnapshot EXCEPT ![s] = x]
    BY <2>1 DEF InstallSnapshot
  <2>3. x.Date = c.Data
    OBVIOUS
  <2> HIDE DEF x, k
  <2>4. /\ log'[s] = Compact(s, k, c.LastIncludedTerm)
        /\ lastIncludedIndex'[s] = k /\ snapshot'[s] = c.Data
        /\ commitIndex'[s] = k /\ pendingSnapshot'[s] = x
    BY <1>0, <2>2
  <2>5. \A p \in Server \ {s} : /\ SameLog(p) /\ commitIndex'[p] = commitIndex[p]
                                /\ pendingSnapshot'[p] = pendingSnapshot[p]
    BY <1>0, <2>2 DEF SameLog
  <2> QED BY <1>0, <1>2, <1>3, <1>4, <2>3, <2>4, <2>5 DEF k
<1>5. CASE ~(k > commitIndex[s])
  <2>1. ~Installs(s, c) /\ k =< commitIndex[s]
    BY <1>1, <1>5 DEF Installs
  <2>2. UNCHANGED <<log, lastIncludedIndex, snapshot, commitIndex, pendingSnapshot>>
    BY <2>1 DEF InstallSnapshot
  <2> QED BY <1>0, <1>2, <1>3, <2>1, <2>2 DEF SameLog
<1> QED BY <1>4, <1>5

\* InstallSnapshot() from a leader that is not behind.
LEMMA InstallSafe ==
  ASSUME NEW h, Explained(h), Quiet, NEW c \in snapCalls, InstallSnapshot(c), c.Term >= term[c.to]
  PROVE  SafeStep(h)
<1> DEFINE s == c.to
           u == c.Term
           k == c.LastIncludedIndex
           t == c.LastIncludedTerm
<1>0. TypeOK /\ c \in InstallSnapshotCall /\ snapCalls \in SUBSET InstallSnapshotCall
  BY DEF Explained, TypeOK
<1>1. s \in Server /\ u \in Nat /\ k \in Nat /\ t \in Nat
  BY <1>0 DEF InstallSnapshotCall
<1>2. SnapCallIs(h, c) /\ Len(c.Data) = k
  BY DEF Explained, StateIs, SnapshotsInFlight
<1>3. /\ h.winner[u] # Nil /\ k =< h.len[u] /\ t = h.entry[u][k].term
      /\ Copies(h, u, c.Data) /\ Decided(h, k, u, u)
  BY <1>2 DEF SnapCallIs
<1>4. /\ term'[s] = u /\ state'[s] = "Follower"
      /\ \/ /\ k > commitIndex[s]
            /\ log'[s] = Compact(s, k, t)
            /\ lastIncludedIndex'[s] = k /\ snapshot'[s] = c.Data
            /\ commitIndex'[s] = k /\ pendingSnapshot'[s].Date = c.Data
         \/ /\ k =< commitIndex[s] /\ commitIndex'[s] = commitIndex[s]
            /\ SameLog(s) /\ pendingSnapshot'[s] = pendingSnapshot[s]
      /\ \A p \in Server \ {s} : /\ term'[p] = term[p] /\ state'[p] = state[p] /\ SameLog(p)
                                 /\ commitIndex'[p] = commitIndex[p]
                                 /\ pendingSnapshot'[p] = pendingSnapshot[p]
      /\ UNCHANGED <<leaderVars, applied, delivering, voteCalls, appendCalls>>
      /\ snapCalls' = Answered(snapCalls, c, [Term |-> term'[s]])
  BY <1>0, <1>1, InstallMoves
<1>5. /\ PeerIs(h, s) /\ HistoryInv(h) /\ h \in History /\ h.term[s] = term[s]
      /\ commitIndex[s] \in Nat /\ Len(snapshot[s]) = lastIncludedIndex[s]
      /\ lastIncludedIndex[s] \in Nat /\ lastIncludedIndex[s] =< commitIndex[s]
      /\ Len(log[s]) \in Nat \ {0} /\ term[s] \in Nat
  BY <1>1, PeerFacts
<1>6. h.term[s] =< u
  BY <1>1, <1>5
<1> HIDE DEF s, u, k, t
<1>a. h.winner[u] # Nil /\ k =< h.len[u] /\ HistoryInv(h) /\ h \in History
  BY <1>3, <1>5
<1>7. PICK g \in History : Adopt(h, g, s, u, k) /\ HistoryInv(g) /\ Grows(h, g)
  BY <1>1, <1>6, <1>a, CanAdopt
<1>8. /\ g.winner = h.winner /\ g.entry = h.entry /\ g.len = h.len
      /\ g.term[s] = u /\ k =< g.acked[s][u]
      /\ \A p \in Server \ {s} : /\ g.term[p] = h.term[p] /\ g.lastIndex[p] = h.lastIndex[p]
                                 /\ g.lastTerm[p] = h.lastTerm[p]
  <2>1. s \in Server /\ u \in Nat /\ k \in Nat /\ h \in History /\ Adopt(h, g, s, u, k)
    BY <1>1, <1>7, <1>a
  <2>2. g.winner = h.winner /\ g.entry = h.entry /\ g.len = h.len
    BY <2>1, AdoptFields
  <2>3. g.term[s] = u /\ k =< g.acked[s][u]
    BY <2>1, AdoptFields
  <2>4. \A p \in Server \ {s} : /\ g.term[p] = h.term[p] /\ g.lastIndex[p] = h.lastIndex[p]
                                 /\ g.lastTerm[p] = h.lastTerm[p]
    BY <2>1, AdoptFields
  <2> QED BY <2>2, <2>3, <2>4
<1>9. Committed(h, s, commitIndex[s])
  BY <1>5 DEF PeerIs
<1>10. KeepsLog(h, g, s, commitIndex[s]) /\ Committed(g, s, commitIndex[s])
  BY <1>1, <1>3, <1>5, <1>6, <1>7, <1>9, AdoptKeepsCommitted
<1>11. Serves(g, s, applied[s], delivering[s], pendingSnapshot[s])
  <2>1. Reaches(applied[s], delivering[s], pendingSnapshot[s], commitIndex[s])
    BY <1>1, ServiceReaches DEF Explained
  <2> QED BY <1>5, <1>10, <2>1, ServesKept DEF PeerIs
<1>12. /\ IsLog(g, s, log'[s], lastIncludedIndex'[s], snapshot'[s])
       /\ Committed(g, s, commitIndex'[s])
       /\ Serves(g, s, applied'[s], delivering'[s], pendingSnapshot'[s])
  <2>1. CASE k > commitIndex[s]
    <3>1. /\ log'[s] = Compact(s, k, t) /\ lastIncludedIndex'[s] = k /\ snapshot'[s] = c.Data
          /\ commitIndex'[s] = k /\ pendingSnapshot'[s].Date = c.Data
      BY <1>1, <1>4, <1>5, <2>1
    <3>2. k >= lastIncludedIndex[s]
      BY <1>1, <1>5, <2>1
    <3>3. Len(c.Data) = k
      BY <1>2 DEF k
    <3>4. IsLog(g, s, Compact(s, k, t), k, c.Data)
      BY <1>0, <1>1, <1>3, <1>5, <1>7, <3>2, <3>3, InstallIsLog DEF PeerIs
    <3>5. Committed(g, s, k)
      BY <1>1, <1>3, <1>5, <1>7, AdoptCommits
    <3>6. Serves(g, s, applied'[s], delivering'[s], pendingSnapshot'[s])
      <4>1. Copies(g, g.lastTerm[s], c.Data)
        BY <3>4 DEF IsLog
      <4> QED BY <1>4, <1>11, <3>1, <4>1 DEF Serves
    <3> QED BY <3>1, <3>4, <3>5, <3>6
  <2>2. CASE ~(k > commitIndex[s])
    <3>1. /\ k =< commitIndex[s] /\ commitIndex'[s] = commitIndex[s]
          /\ SameLog(s) /\ pendingSnapshot'[s] = pendingSnapshot[s]
      BY <1>1, <1>4, <1>5, <2>2
    <3>2. Agrees(h, s, u, k)
      <4>1. Same(h, h.lastTerm[s], u, commitIndex[s]) /\ commitIndex[s] =< h.lastIndex[s]
        BY <1>1, <1>3, <1>5, <1>6, <1>9, CommittedIsContained DEF Committed
      <4>2. h.lastIndex[s] \in Nat
        BY <1>1, <1>5, HistoryTypes
      <4>3. h.entry[h.lastTerm[s]][k] = h.entry[u][k] /\ k =< h.lastIndex[s]
        BY <1>1, <1>5, <3>1, <4>1, <4>2, SameBelow
      <4> QED BY <4>3 DEF Agrees
    <3>3. g.lastIndex[s] = h.lastIndex[s] /\ g.lastTerm[s] = h.lastTerm[s]
      BY <1>1, <1>5, <1>7, <3>2, AdoptFields
    <3>4. IsLog(g, s, log[s], lastIncludedIndex[s], snapshot[s])
      BY <1>1, <1>5, <1>7, <3>3, IsLogStays DEF PeerIs
    <3> QED BY <1>4, <1>10, <1>11, <3>1, <3>4 DEF SameLog
  <2> QED BY <2>1, <2>2
<1>13. PeerIs(g, s)'
  BY <1>4, <1>8, <1>12 DEF PeerIs
<1>14. \A p \in Server \ {s} : StandsBy(h, g, p)
  BY <1>4, <1>8 DEF StandsBy, SameService, leaderVars
<1>15. ASSUME NEW d \in snapCalls'
       PROVE  SnapCallIs(g, d) \/ \E e \in snapCalls : SameSnap(d, e)
  <2>1. CASE d \in snapCalls
    BY <2>1, SameCall
  <2>2. CASE d \notin snapCalls
    <3>1. /\ d.to = c.to /\ d.Term = c.Term /\ d.LastIncludedIndex = c.LastIncludedIndex
          /\ d.LastIncludedTerm = c.LastIncludedTerm /\ d.Data = c.Data
      BY <1>0, <1>4, <2>2, AnsweredSnap
    <3>2. SnapCallIs(g, c)
      BY <1>0, <1>2, <1>5, <1>7, SameCall, SnapCallStays DEF k
    <3> QED BY <1>8, <3>1, <3>2 DEF SnapCallIs, s, u, k
  <2> QED BY <2>1, <2>2
<1>16. /\ \A d \in appendCalls' : \E e \in appendCalls : SameAppend(d, e)
       /\ voteCalls' \subseteq voteCalls
  BY <1>4, SameCall
<1>17. state'[s] # "Candidate"
  BY <1>4
<1> QED BY <1>1, <1>5, <1>7, <1>8, <1>10, <1>13, <1>14, <1>15, <1>16, <1>17, OnePeerMoves

-----------------------------------------------------------------------------
(* START *)

\* Everybody but s stays where it is.
OthersStay(h, g, s) ==
    \A p \in Server \ {s} : /\ g.term[p] = h.term[p] /\ g.lastIndex[p] = h.lastIndex[p]
                            /\ g.lastTerm[p] = h.lastTerm[p]

LEMMA AdoptOthers ==
  ASSUME NEW h \in History, NEW g, NEW s \in Server, NEW u \in Nat, NEW k \in Nat,
         Adopt(h, g, s, u, k)
  PROVE  OthersStay(h, g, s)
BY AdoptFields DEF OthersStay

LEMMA ExtendFields ==
  ASSUME NEW h \in History, NEW f, NEW u \in Nat, NEW x, Extend(h, f, u, x)
  PROVE  /\ f.winner = h.winner /\ f.acked = h.acked /\ f.term = h.term
         /\ f.lastIndex = h.lastIndex /\ f.lastTerm = h.lastTerm
         /\ f.len[u] = h.len[u] + 1 /\ f.entry[u][h.len[u] + 1] = x
         /\ \A t \in Nat \ {u} : f.len[t] = h.len[t]
<1> DEFINE m == h.len[u] + 1
<1>1. h.len \in [Nat -> Nat] /\ h.entry \in [Nat -> [Nat -> LogEntry]]
  BY HistoryFields
<1>2. m \in Nat
  BY <1>1
<1>3. /\ f.entry = [h.entry EXCEPT ![u] = [h.entry[u] EXCEPT ![m] = x]]
      /\ f.len = [h.len EXCEPT ![u] = m]
      /\ f.winner = h.winner /\ f.acked = h.acked /\ f.term = h.term
      /\ f.lastIndex = h.lastIndex /\ f.lastTerm = h.lastTerm
  BY DEF Extend
<1> HIDE DEF m
<1>4. f.len[u] = m /\ \A t \in Nat \ {u} : f.len[t] = h.len[t]
  BY <1>1, <1>3
<1>5. f.entry[u][m] = x
  BY <1>1, <1>2, <1>3
<1> QED BY <1>3, <1>4, <1>5 DEF m

\* A leader's log with an entry appended is the leader's log spliced with the longer one.
LEMMA AppendSplices ==
  ASSUME NEW f, NEW u, NEW lo \in Seq(LogEntry), NEW x \in LogEntry, NEW base \in Nat, NEW n \in Nat,
         n + 1 = base + Len(lo), f.entry[u][n + 1] = x
  PROVE  Spliced(f, u, Append(lo, x), lo, base, n, n + 1)
<1> DEFINE lg == Append(lo, x)
           m == Len(lo)
<1>1. m \in Nat /\ Len(lg) = m + 1 /\ lg[m + 1] = x /\ \A i \in 1 .. m : lg[i] = lo[i]
  BY LenProperties, AppendProperties
<1>2. n + 1 = base + m
  OBVIOUS
<1> HIDE DEF lg, m
<1>3. Len(lg) = (n + 1) - base + 1
  BY <1>1, <1>2
<1>4. ASSUME NEW i \in base .. n PROVE lg[i - base + 1] = lo[i - base + 1]
  <2>1. i - base + 1 \in 1 .. m
    BY <1>1, <1>2
  <2> QED BY <1>1, <2>1
<1>5. ASSUME NEW i \in n + 1 .. n + 1 PROVE lg[i - base + 1] = f.entry[u][i]
  <2>1. i = n + 1 /\ i - base + 1 = m + 1
    BY <1>1, <1>2
  <2> QED BY <1>1, <2>1
<1> QED BY <1>3, <1>4, <1>5 DEF Spliced, lg

\* The history in which the leader s of term u has appended x and holds it.
StartsAs(h, g, s, u) ==
    LET n == h.lastIndex[s]
    IN  /\ HistoryInv(g) /\ Grows(h, g) /\ g.winner = h.winner
        /\ g.term[s] = u /\ g.lastIndex[s] = n + 1 /\ g.len[u] = n + 1
        /\ Holds(g, s, u, n + 1) /\ n + 1 =< g.acked[s][u]
        /\ KeepsLog(h, g, s, n) /\ Same(g, g.lastTerm[s], h.lastTerm[s], n)
        /\ \A t \in Nat \ {u} : g.len[t] = h.len[t]
        /\ OthersStay(h, g, s)

LEMMA CanStart ==
  ASSUME NEW h, HistoryInv(h), NEW s \in Server, NEW u \in Nat, u >= 1, h.term[s] =< u,
         h.winner[u] # Nil, h.len[u] = h.lastIndex[s], Same(h, h.lastTerm[s], u, h.lastIndex[s]),
         NEW lo \in Seq(LogEntry), NEW base \in Nat, NEW data, Len(data) = base,
         Len(lo) \in Nat \ {0}, base =< h.lastIndex[s], IsLog(h, s, lo, base, data),
         NEW x \in LogEntry, x.term = u
  PROVE  \E g : StartsAs(h, g, s, u) /\ IsLog(g, s, Append(lo, x), base, data)
<1> DEFINE n == h.lastIndex[s]
           T == h.lastTerm[s]
           k == n + 1
<1>0. /\ h \in History /\ T \in Nat /\ n \in Nat /\ k \in Nat /\ n =< h.len[T] /\ h.len[u] = n
      /\ Same(h, T, u, n) /\ h.term[s] \in Nat /\ h.len[T] \in Nat
  BY HistoryTypes DEF HistoryInv, PeersConsistent
<1>1. PICK f \in History : Extend(h, f, u, x) /\ HistoryInv(f) /\ Grows(h, f)
  BY CanExtend
<1>2. /\ f.winner = h.winner /\ f.acked = h.acked /\ f.term = h.term
      /\ f.lastIndex = h.lastIndex /\ f.lastTerm = h.lastTerm
      /\ f.len[u] = k /\ f.entry[u][k] = x
      /\ \A t \in Nat \ {u} : f.len[t] = h.len[t]
  BY <1>0, <1>1, ExtendFields
<1>3. f.term[s] =< u /\ f.winner[u] # Nil /\ k =< f.len[u]
  BY <1>0, <1>2
<1> HIDE DEF k
<1>4. PICK g \in History : Adopt(f, g, s, u, k) /\ HistoryInv(g) /\ Grows(f, g)
  BY <1>0, <1>1, <1>3, CanAdopt
<1>5. Grows(h, g)
  BY <1>0, <1>1, <1>4, GrowsTransitive
<1>a. f \in History /\ k \in Nat /\ Adopt(f, g, s, u, k)
  BY <1>0, <1>1, <1>4
<1>6. g.winner = f.winner /\ g.entry = f.entry /\ g.len = f.len
  BY <1>a, AdoptFields, SMTT(40)
<1>7. g.term[s] = u /\ k =< g.acked[s][u]
  BY <1>a, AdoptFields
<1>8. OthersStay(f, g, s)
  BY <1>a, AdoptOthers
<1>9. IsLog(f, s, lo, base, data)
  BY <1>1, <1>2, IsLogStays
<1>10. AgreesUpTo(f, s, u, n)
  <2>1. Same(f, T, u, n)
    BY <1>0, <1>1, SameStays
  <2> QED BY <1>0, <1>2, <2>1 DEF AgreesUpTo
<1>11. Spliced(f, u, Append(lo, x), lo, base, n, k)
  <2>1. n = base + Len(lo) - 1
    BY DEF IsLog
  <2>2. n + 1 = base + Len(lo)
    BY <1>0, <2>1
  <2>3. f.entry[u][n + 1] = x
    BY <1>2 DEF k
  <2> HIDE DEF n
  <2> QED BY <1>0, <2>2, <2>3, AppendSplices DEF k
<1>12. n < k /\ base =< n
  BY <1>0 DEF k
<1>13. IsLog(g, s, Append(lo, x), base, data) /\ ~Agrees(f, s, u, k)
  BY <1>0, <1>1, <1>3, <1>4, <1>9, <1>10, <1>11, <1>12, SpliceAdopts
<1>14. g.lastIndex[s] = k /\ g.lastTerm[s] = f.entry[u][k].term
  BY <1>0, <1>1, <1>4, <1>13, AdoptTakes
<1>15. g.lastTerm[s] = u
  BY <1>2, <1>14
<1>16. Holds(g, s, u, k)
  BY <1>0, <1>1, <1>3, <1>4, AdoptKeeps
<1>17. Same(g, u, T, n)
  <2>1. Same(g, T, u, n)
    BY <1>0, <1>5, SameStays
  <2> QED BY <2>1, SameIsEquivalence
<1>18. KeepsLog(h, g, s, n)
  <2>1. \A i \in 0 .. n : g.entry[T][i] = h.entry[T][i]
    BY <1>0, <1>5 DEF Grows
  <2> QED BY <1>15, <1>17, <2>1 DEF KeepsLog, Same
<1>b. OthersStay(h, g, s)
  BY <1>2, <1>8 DEF OthersStay
<1>19. StartsAs(h, g, s, u)
  BY <1>2, <1>4, <1>5, <1>6, <1>7, <1>b, <1>14, <1>15, <1>16, <1>17, <1>18 DEF StartsAs, k
<1> QED BY <1>13, <1>19

LEMMA StartMoves ==
  ASSUME TypeOK, NEW s \in Server, NEW command \in Command, Start(s, command)
  PROVE  /\ state[s] = "Leader" /\ AdvanceCommitIndex(s, log'[s], matchIndex'[s])
         /\ log'[s] = Append(log[s], [term |-> term[s], command |-> command])
         /\ matchIndex'[s][s] = LastLogIndex(s) + 1 /\ nextIndex'[s][s] = LastLogIndex(s) + 2
         /\ \A p \in Server \ {s} : /\ matchIndex'[s][p] = matchIndex[s][p]
                                    /\ nextIndex'[s][p] = nextIndex[s][p]
                                    /\ log'[p] = log[p] /\ matchIndex'[p] = matchIndex[p]
                                    /\ nextIndex'[p] = nextIndex[p]
         /\ UNCHANGED <<term, state, lastIncludedIndex, snapshot>>
         /\ UNCHANGED <<applied, delivering, pendingSnapshot, voteCalls, appendCalls, snapCalls>>
<1> DEFINE x == [term |-> term[s], command |-> command]
           n == LastLogIndex(s)
<1>1. /\ state[s] = "Leader" /\ AdvanceCommitIndex(s, log'[s], matchIndex'[s])
      /\ log' = [log EXCEPT ![s] = Append(log[s], x)]
      /\ matchIndex' = [matchIndex EXCEPT ![s][s] = n + 1]
      /\ nextIndex' = [nextIndex EXCEPT ![s][s] = n + 2]
      /\ UNCHANGED <<term, state, lastIncludedIndex, snapshot>>
      /\ UNCHANGED <<applied, delivering, pendingSnapshot, voteCalls, appendCalls, snapCalls>>
  BY DEF Start, networkVars
<1>2. /\ log \in [Server -> LogType] /\ nextIndex \in [Server -> [Server -> Nat]]
      /\ matchIndex \in [Server -> [Server -> Nat]]
  BY DEF TypeOK
<1> HIDE DEF x, n
<1>3. log'[s] = Append(log[s], x) /\ \A p \in Server \ {s} : log'[p] = log[p]
  BY <1>1, <1>2
<1>4. /\ matchIndex'[s][s] = n + 1
      /\ \A p \in Server \ {s} : matchIndex'[s][p] = matchIndex[s][p] /\ matchIndex'[p] = matchIndex[p]
  BY <1>1, <1>2
<1>5. /\ nextIndex'[s][s] = n + 2
      /\ \A p \in Server \ {s} : nextIndex'[s][p] = nextIndex[s][p] /\ nextIndex'[p] = nextIndex[p]
  BY <1>1, <1>2
<1> QED BY <1>1, <1>3, <1>4, <1>5 DEF x, n

\* Start(): the leader's log grows by an entry.
LEMMA StartSafe ==
  ASSUME NEW h, Explained(h), Quiet, NEW s \in Server, NEW command \in Command, Start(s, command)
  PROVE  SafeStep(h)
<1> DEFINE n == LastLogIndex(s)
           u == term[s]
           b == lastIncludedIndex[s]
           x == [term |-> u, command |-> command]
<1>0. /\ TypeOK /\ HistoryInv(h) /\ h \in History /\ PeerIs(h, s) /\ u \in Nat
      /\ commitIndex[s] \in Nat /\ b \in Nat /\ Len(snapshot[s]) = b
      /\ b =< commitIndex[s] /\ h.term[s] = u
      /\ commitIndex[s] =< h.lastIndex[s]
      /\ nextIndex[s] \in [Server -> Nat] /\ matchIndex[s] \in [Server -> Nat]
  BY PeerFacts DEF Explained
<1>1. /\ state[s] = "Leader" /\ AdvanceCommitIndex(s, log'[s], matchIndex'[s])
      /\ log'[s] = Append(log[s], x)
      /\ matchIndex'[s][s] = n + 1 /\ nextIndex'[s][s] = n + 2
      /\ \A p \in Server \ {s} : /\ matchIndex'[s][p] = matchIndex[s][p]
                                 /\ nextIndex'[s][p] = nextIndex[s][p]
                                 /\ log'[p] = log[p] /\ matchIndex'[p] = matchIndex[p]
                                 /\ nextIndex'[p] = nextIndex[p]
      /\ UNCHANGED <<term, state, lastIncludedIndex, snapshot>>
      /\ UNCHANGED <<applied, delivering, pendingSnapshot, voteCalls, appendCalls, snapCalls>>
  BY <1>0, StartMoves
<1>2. /\ u >= 1 /\ h.winner[u] = s /\ h.winner[u] # Nil /\ h.len[u] = n
      /\ Same(h, h.lastTerm[s], u, n)
  BY <1>1, LeaderFacts
<1>3. /\ h.lastIndex[s] = n /\ n \in Nat /\ log[s] \in Seq(LogEntry) /\ Len(log[s]) \in Nat \ {0}
      /\ b =< n
  BY <1>0, LogFacts, PeerFacts
<1>4. x \in LogEntry /\ x.term = u
  BY <1>0 DEF LogEntry
<1>5. PICK g : StartsAs(h, g, s, u) /\ IsLog(g, s, Append(log[s], x), b, snapshot[s])
  <2>1. IsLog(h, s, log[s], b, snapshot[s])
    BY <1>0 DEF PeerIs
  <2>2. h.term[s] =< u
    BY <1>0
  <2>3. h.len[u] = h.lastIndex[s] /\ b =< h.lastIndex[s] /\ Same(h, h.lastTerm[s], u, h.lastIndex[s])
    BY <1>2, <1>3
  <2> HIDE DEF x, n, b, u
  <2> QED BY <1>0, <1>2, <1>3, <1>4, <2>1, <2>2, <2>3, CanStart
<1> HIDE DEF x
<1>6. /\ HistoryInv(g) /\ Grows(h, g) /\ g.winner = h.winner
      /\ g.term[s] = u /\ g.lastIndex[s] = n + 1 /\ g.len[u] = n + 1
      /\ Holds(g, s, u, n + 1) /\ n + 1 =< g.acked[s][u]
      /\ KeepsLog(h, g, s, n) /\ Same(g, g.lastTerm[s], h.lastTerm[s], n)
      /\ \A t \in Nat \ {u} : g.len[t] = h.len[t]
      /\ OthersStay(h, g, s)
  BY <1>3, <1>5 DEF StartsAs
<1> HIDE DEF n, u, b
<1>7. KeepsLog(h, g, s, commitIndex[s])
  BY <1>0, <1>3, <1>6 DEF KeepsLog
<1>8. nextIndex'[s] \in [Server -> Nat] /\ matchIndex'[s] \in [Server -> Nat]
  BY DEF Explained, TypeOK
<1>9. Leads(g, s, nextIndex'[s], matchIndex'[s])
  <2>1. g \in History
    BY <1>6 DEF HistoryInv
  <2>2. \A p \in Server : matchIndex[s][p] =< h.acked[p][u] /\ matchIndex[s][p] < nextIndex[s][p]
                          /\ nextIndex[s][p] =< n + 1
    BY <1>0, <1>1, <1>3 DEF PeerIs, Leads, u
  <2>3. \A p \in Server : /\ matchIndex[s][p] \in Nat /\ nextIndex[s][p] \in Nat
                          /\ h.acked[p][u] \in Nat /\ g.acked[p][u] \in Nat
                          /\ h.acked[p][u] =< g.acked[p][u]
    BY <1>0, <1>6, <2>1, HistoryTypes DEF Grows, u
  <2>4. ASSUME NEW p \in Server
        PROVE  /\ matchIndex'[s][p] =< g.acked[p][u] /\ matchIndex'[s][p] < nextIndex'[s][p]
               /\ nextIndex'[s][p] =< (n + 1) + 1
    <3>1. CASE p = s
      BY <1>1, <1>3, <1>6, <3>1 DEF n
    <3>2. CASE p # s
      <4>1. matchIndex'[s][p] = matchIndex[s][p] /\ nextIndex'[s][p] = nextIndex[s][p]
        BY <1>1, <3>2
      <4>2. /\ matchIndex[s][p] =< h.acked[p][u] /\ matchIndex[s][p] < nextIndex[s][p]
            /\ nextIndex[s][p] =< n + 1
            /\ matchIndex[s][p] \in Nat /\ nextIndex[s][p] \in Nat
            /\ h.acked[p][u] \in Nat /\ g.acked[p][u] \in Nat
            /\ h.acked[p][u] =< g.acked[p][u]
        BY <2>2, <2>3
      <4>3. /\ matchIndex[s][p] =< g.acked[p][u] /\ nextIndex[s][p] =< (n + 1) + 1
        BY <1>3, <4>2
      <4> QED BY <4>1, <4>2, <4>3
    <3> QED BY <3>1, <3>2
  <2>5. g.winner[u] = s
    BY <1>2, <1>6
  <2> QED BY <1>6, <2>4, <2>5 DEF Leads
<1>10. IsLog(g, s, log'[s], b, snapshot[s])
  BY <1>1, <1>5 DEF x, u
<1>11. /\ commitIndex'[s] = commitIndex[s] \/ Committed(g, s, commitIndex'[s])
       /\ \A p \in Server \ {s} : commitIndex'[p] = commitIndex[p]
  <2>1. PICK match \in [Server -> Nat] : match = matchIndex'[s]
    BY <1>8
  <2>2. PICK lg \in LogType : lg = log'[s]
    BY DEF Explained, TypeOK
  <2>3. Len(lg) \in Nat
    BY LenProperties DEF LogType
  <2>4. AdvanceCommitIndex(s, lg, match)
    BY <1>1, <2>1, <2>2
  <2>5. Leads(g, s, nextIndex'[s], match) /\ IsLog(g, s, lg, lastIncludedIndex[s], snapshot[s])
    BY <1>9, <1>10, <2>1, <2>2 DEF b
  <2>6. lastIncludedIndex[s] =< commitIndex[s] /\ g.term[s] = term[s] /\ TypeOK /\ HistoryInv(g)
    BY <1>0, <1>6 DEF b, u
  <2> QED BY <2>3, <2>4, <2>5, <2>6, AdvanceCommits
<1>12. Committed(g, s, commitIndex[s])
  <2>1. Decided(h, commitIndex[s], h.lastTerm[s], h.term[s])
    BY <1>0 DEF PeerIs, Committed
  <2>2. /\ h.lastTerm[s] \in Nat /\ h.len[h.lastTerm[s]] \in Nat /\ h.term[s] \in Nat
        /\ h.lastIndex[s] =< h.len[h.lastTerm[s]] /\ h.lastIndex[s] \in Nat
        /\ g.term[s] \in Nat /\ g \in History
    BY <1>0, <1>6, HistoryTypes DEF HistoryInv, PeersConsistent
  <2>3. commitIndex[s] =< h.len[h.lastTerm[s]] /\ commitIndex[s] =< n
    BY <1>0, <1>3, <2>2
  <2>4. h.term[s] =< g.term[s]
    BY <1>6 DEF Grows
  <2>5. Decided(g, commitIndex[s], h.lastTerm[s], g.term[s])
    BY <1>0, <1>6, <2>1, <2>2, <2>3, <2>4, DecidedStays
  <2>6. Same(g, g.lastTerm[s], h.lastTerm[s], commitIndex[s])
    BY <1>0, <1>3, <1>6, <2>3, SameBelow
  <2>7. Decided(g, commitIndex[s], g.lastTerm[s], g.term[s])
    BY <1>0, <2>5, <2>6, DecidedSame
  <2>8. commitIndex[s] =< g.lastIndex[s]
    BY <1>0, <1>3, <1>6, <2>3
  <2> QED BY <2>7, <2>8 DEF Committed
<1>13. Serves(g, s, applied'[s], delivering'[s], pendingSnapshot'[s])
  <2>1. Reaches(applied[s], delivering[s], pendingSnapshot[s], commitIndex[s])
    BY ServiceReaches DEF Explained
  <2>2. Serves(g, s, applied[s], delivering[s], pendingSnapshot[s])
    BY <1>0, <1>7, <2>1, ServesKept DEF PeerIs
  <2> QED BY <1>1, <2>2
<1>14. PeerIs(g, s)'
  <2>1. IsLog(g, s, log'[s], lastIncludedIndex'[s], snapshot'[s])
    BY <1>1, <1>10 DEF b
  <2>2. Committed(g, s, commitIndex'[s])
    BY <1>11, <1>12
  <2>3. g.term[s] = term'[s] /\ state'[s] = "Leader"
    BY <1>1, <1>6 DEF u
  <2> QED BY <1>9, <1>13, <2>1, <2>2, <2>3 DEF PeerIs
<1>15. ASSUME NEW p \in Server \ {s} PROVE StandsBy(h, g, p)
  <2>1. ASSUME state[p] = "Leader" PROVE g.len[term[p]] = h.len[term[p]]
    <3>1. h.winner[term[p]] = p /\ term[p] \in Nat
      BY <2>1, LeaderFacts
    <3>2. term[p] # u
      BY <1>2, <3>1
    <3> QED BY <1>6, <3>1, <3>2
  <2> QED BY <1>1, <1>6, <1>11, <2>1 DEF StandsBy, SameLog, SameService, OthersStay
<1>16. /\ \A d \in appendCalls' : \E e \in appendCalls : SameAppend(d, e)
       /\ \A d \in snapCalls' : \E e \in snapCalls : SameSnap(d, e)
       /\ voteCalls' \subseteq voteCalls /\ state'[s] # "Candidate"
  BY <1>1, SameCall
<1> QED BY <1>6, <1>7, <1>14, <1>15, <1>16, OnePeerMoves

-----------------------------------------------------------------------------
(* ELECTIONS *)

\* A step of an election that nobody wins.
LEMMA CampaignSafe ==
  ASSUME NEW h, Explained(h), CandidatesMove(h, h), CallsMove(h),
         UNCHANGED <<log, lastIncludedIndex, snapshot, commitIndex, leaderVars>>,
         UNCHANGED <<applied, delivering, pendingSnapshot>>,
         \A p \in Server : state'[p] = "Leader" => state[p] = "Leader" /\ term'[p] = term[p]
  PROVE  SafeStep(h)
<1>1. \A p \in Server : SameLog(p) /\ SameService(p)
  BY DEF SameLog, SameService
<1>2. \A p \in Server : commitIndex'[p] =< commitIndex[p]
  BY PeerFacts
<1>3. \A p \in Server : state'[p] = "Leader" =>
         term'[p] = term[p] /\ Leads(h, p, nextIndex'[p], matchIndex'[p])
  BY PeerFacts DEF PeerIs, leaderVars
<1> QED BY <1>1, <1>2, <1>3, InPlaceSafe

\* A voter that grants its vote finds the candidate up to date.
LEMMA GrantIsUpToDate ==
  ASSUME NEW h, Explained(h), NEW c \in voteCalls, NEW p \in Server, p = c.to,
         NEW s \in Server, s = c.from, Grants(p, c), state[s] = "Candidate", term[s] = c.Term
  PROVE  \/ h.lastTerm[s] > h.lastTerm[p]
         \/ h.lastTerm[s] = h.lastTerm[p] /\ h.lastIndex[s] >= h.lastIndex[p]
<1>1. c.LastlogIndex = h.lastIndex[s] /\ c.LastlogTerm = h.lastTerm[s]
  <2>1. VoteCallIs(h, c)
    BY DEF Explained, StateIs
  <2> QED BY <2>1 DEF VoteCallIs
<1>2. h.lastIndex[p] = LastLogIndex(p) /\ TermAt(p, LastLogIndex(p)) = h.lastTerm[p]
  <2>1. IsLog(h, p, log[p], lastIncludedIndex[p], snapshot[p])
    BY PeerFacts DEF PeerIs
  <2> QED BY <2>1, TermIs DEF Explained
<1>3. UpToDate(p, c)
  BY DEF Grants
<1> QED BY <1>1, <1>2, <1>3 DEF UpToDate

\* RequestVote().
LEMMA RequestVoteSafe ==
  ASSUME NEW h, Explained(h), NEW c \in voteCalls, RequestVote(c)
  PROVE  SafeStep(h)
<1>0. TypeOK /\ TypeOK'
  BY DEF Explained
<1> DEFINE p == c.to
<1>1. /\ p \in Server /\ c.from \in Server /\ c.Term \in Nat
      /\ term'[p] = IF c.Term > term[p] THEN c.Term ELSE term[p]
      /\ state'[p] = IF c.Term > term[p] \/ Grants(p, c) THEN "Follower" ELSE state[p]
      /\ \A q \in Server \ {p} : term'[q] = term[q] /\ state'[q] = state[q]
      /\ voteCalls' = Answered(voteCalls, c, [Term |-> term'[p], VoteGranted |-> Grants(p, c)])
  BY <1>0, RequestVoteFacts
<1>2. /\ UNCHANGED <<log, lastIncludedIndex, snapshot, commitIndex, leaderVars>>
      /\ UNCHANGED <<applied, delivering, pendingSnapshot>>
      /\ appendCalls' = appendCalls /\ snapCalls' = snapCalls
  BY DEF RequestVote, applierVars, leaderVars
<1> HIDE DEF p
<1>3. \A q \in Server : state'[q] # "Follower" => state'[q] = state[q] /\ term'[q] = term[q]
  BY <1>1
<1>4. ASSUME NEW q \in Server, state'[q] = "Candidate", NEW r \in Server, Granted(r, q, term[q])'
      PROVE  \/ Granted(r, q, term[q])
             \/ h.lastTerm[q] > h.lastTerm[r]
             \/ h.lastTerm[q] = h.lastTerm[r] /\ h.lastIndex[q] >= h.lastIndex[r]
  <2>1. PICK T \in Nat : T = term[q]
    BY DEF Explained, TypeOK
  <2>2. Granted(r, q, T)' /\ state[q] = "Candidate"
    BY <1>3, <1>4, <2>1
  <2>3. \/ Granted(r, q, T)
        \/ r = c.to /\ q = c.from /\ T = c.Term /\ Grants(c.to, c)
    BY <1>0, <2>2, RequestVoteGrants
  <2> QED BY <2>1, <2>2, <2>3, GrantIsUpToDate
<1>5. CandidatesMove(h, h)
  BY <1>3, <1>4 DEF CandidatesMove
<1>6. CallsMove(h)
  <2>1. voteCalls \in SUBSET RequestVoteCall
    BY <1>0 DEF TypeOK
  <2>2. \A d \in voteCalls' : \E e \in voteCalls : SameVote(d, e)
    BY <1>1, <2>1, AnsweredVote
  <2> QED BY <1>2, <2>2, SameCall DEF CallsMove
<1> QED BY <1>2, <1>3, <1>5, <1>6, CampaignSafe

\* Nobody has a vote in a term it has not reached.
LEMMA NoVotesAhead ==
  ASSUME NEW h, Explained(h), NEW p \in Server, NEW s \in Server, NEW T \in Nat, Granted(p, s, T)
  PROVE  T =< term[s]
<1>0. term[s] \in Nat
  BY DEF Explained, TypeOK
<1>1. ASSUME NEW c \in voteCalls PROVE c.Term =< term[c.from]
  BY DEF Explained, StateIs, VoteCallIs
<1> QED BY <1>0, <1>1 DEF Granted, Counted, Answering

\* What startElection() does to the peers and the calls.
LEMMA StartElectionMoves ==
  ASSUME NEW h, Explained(h), NEW s \in Server, StartElection(s)
  PROVE  /\ term'[s] = term[s] + 1 /\ state[s] # "Leader"
         /\ \A q \in Server \ {s} : /\ term'[q] = term[q] /\ state'[q] = state[q]
                                    /\ nextIndex'[q] = nextIndex[q] /\ matchIndex'[q] = matchIndex[q]
         /\ UNCHANGED <<log, lastIncludedIndex, snapshot, commitIndex>>
         /\ UNCHANGED <<applied, delivering, pendingSnapshot, appendCalls, snapCalls>>
         /\ \A c \in voteCalls' :
               \/ c \in voteCalls
               \/ /\ c.from = s /\ c.Term = term'[s]
                  /\ c.LastlogIndex = h.lastIndex[s] /\ c.LastlogTerm = h.lastTerm[s]
<1>0. TypeOK
  BY DEF Explained
<1>1. term'[s] = term[s] + 1 /\ state[s] # "Leader" /\ \A q \in Server \ {s} : term'[q] = term[q]
  BY <1>0 DEF StartElection, TypeOK
<1>2. \A q \in Server \ {s} : /\ state'[q] = state[q]
                              /\ nextIndex'[q] = nextIndex[q] /\ matchIndex'[q] = matchIndex[q]
  <2>1. CASE BecomeLeader(s)
    BY <1>0, <2>1 DEF BecomeLeader, TypeOK
  <2>2. CASE state' = [state EXCEPT ![s] = "Candidate"] /\ UNCHANGED leaderVars
    BY <1>0, <2>2 DEF TypeOK, leaderVars
  <2> QED BY <2>1, <2>2 DEF StartElection
<1>3. /\ UNCHANGED <<log, lastIncludedIndex, snapshot, commitIndex>>
      /\ UNCHANGED <<applied, delivering, pendingSnapshot, appendCalls, snapCalls>>
  BY DEF StartElection, applierVars
<1>4. h.lastIndex[s] = LastLogIndex(s) /\ TermAt(s, LastLogIndex(s)) = h.lastTerm[s]
  <2>1. IsLog(h, s, log[s], lastIncludedIndex[s], snapshot[s])
    BY PeerFacts DEF PeerIs
  <2> QED BY <2>1, TermIs DEF Explained
<1>5. \A c \in voteCalls' :
         \/ c \in voteCalls
         \/ /\ c.from = s /\ c.Term = term[s] + 1
            /\ c.LastlogIndex = LastLogIndex(s) /\ c.LastlogTerm = TermAt(s, LastLogIndex(s))
  BY DEF StartElection
<1> QED BY <1>1, <1>2, <1>3, <1>4, <1>5

LEMMA StartElectionCandidates ==
  ASSUME NEW h, Explained(h), NEW s \in Server, StartElection(s), NEW g,
         g.lastIndex = h.lastIndex, g.lastTerm = h.lastTerm, HistoryInv(g)
  PROVE  CandidatesMove(h, g)
<1>0. TypeOK /\ TypeOK' /\ term[s] \in Nat /\ term'[s] \in Nat
  BY DEF Explained, TypeOK
<1>1. /\ term'[s] = term[s] + 1
      /\ \A q \in Server \ {s} : term'[q] = term[q] /\ state'[q] = state[q]
  BY StartElectionMoves
<1>2. ASSUME NEW q \in Server, state'[q] = "Candidate"
      PROVE  \/ term'[q] > term[q]
             \/ /\ state[q] = "Candidate" /\ term'[q] = term[q]
                /\ g.lastIndex[q] = h.lastIndex[q] /\ g.lastTerm[q] = h.lastTerm[q]
  BY <1>0, <1>1, <1>2
<1>3. ASSUME NEW q \in Server, state'[q] = "Candidate", NEW p \in Server, Granted(p, q, term[q])'
      PROVE  \/ term'[q] = term[q] /\ Granted(p, q, term[q])
             \/ g.lastTerm[q] > g.lastTerm[p]
             \/ g.lastTerm[q] = g.lastTerm[p] /\ g.lastIndex[q] >= g.lastIndex[p]
  <2>1. PICK T \in Nat : T = term'[q]
    BY <1>0 DEF TypeOK
  <2>2. Granted(p, q, T)'
    BY <1>3, <2>1
  <2>3. Granted(p, q, T) \/ (p = s /\ q = s /\ T = term[s] + 1)
    BY <1>0, <2>2, StartElectionGrants
  <2>4. CASE q = s /\ Granted(p, q, T)
    BY <1>0, <1>1, <2>1, <2>4, NoVotesAhead
  <2>5. CASE q # s /\ Granted(p, q, T)
    BY <1>1, <2>1, <2>5
  <2>6. CASE p = s /\ q = s
    <3>1. g.lastIndex[s] \in Nat
      BY HistoryTypes DEF HistoryInv
    <3> QED BY <2>6, <3>1
  <2> QED BY <2>3, <2>4, <2>5, <2>6
<1> QED BY <1>2, <1>3 DEF CandidatesMove

\* startElection() in a cluster of more than one peer.
LEMMA CandidacySafe ==
  ASSUME NEW h, Explained(h), NEW s \in Server, StartElection(s), Majority # 1
  PROVE  SafeStep(h)
<1>0. TypeOK /\ HistoryInv(h)
  BY DEF Explained
<1>1. CandidatesMove(h, h)
  BY <1>0, StartElectionCandidates
<1>2. /\ UNCHANGED <<log, lastIncludedIndex, snapshot, commitIndex, leaderVars>>
      /\ UNCHANGED <<applied, delivering, pendingSnapshot>>
      /\ appendCalls' = appendCalls /\ snapCalls' = snapCalls
      /\ state' = [state EXCEPT ![s] = "Candidate"]
      /\ \A q \in Server \ {s} : term'[q] = term[q]
  BY StartElectionMoves, ZenonT(40) DEF StartElection
<1>3. \A p \in Server : state'[p] = "Leader" => state[p] = "Leader" /\ term'[p] = term[p]
  BY <1>0, <1>2 DEF TypeOK
<1>4. CallsMove(h)
  <2>1. ASSUME NEW c \in voteCalls'
        PROVE  VoteCallIs(h, c)' \/ \E d \in voteCalls : SameVote(c, d)
    <3>1. CASE c.from = s /\ c.Term = term'[s]
               /\ c.LastlogIndex = h.lastIndex[s] /\ c.LastlogTerm = h.lastTerm[s]
      <4>1. term'[s] \in Nat
        BY DEF Explained, TypeOK
      <4> QED BY <3>1, <4>1 DEF VoteCallIs
    <3> QED BY <3>1, StartElectionMoves, SameCall
  <2> QED BY <1>2, <2>1, SameCall DEF CallsMove
<1> QED BY <1>1, <1>2, <1>3, <1>4, CampaignSafe

LEMMA ElectFields ==
  ASSUME NEW f \in History, NEW g, NEW s \in Server, NEW u \in Nat, Elect(f, g, s, u)
  PROVE  /\ g.winner[u] = s /\ g.len[u] = f.lastIndex[s] /\ g.acked[s][u] = f.lastIndex[s]
         /\ g.entry[u] = f.entry[f.lastTerm[s]] /\ g.entry[f.lastTerm[s]] = f.entry[f.lastTerm[s]]
         /\ g.term = f.term /\ g.lastIndex = f.lastIndex /\ g.lastTerm = f.lastTerm
<1>1. /\ f.len \in [Nat -> Nat] /\ f.winner \in [Nat -> Server \cup {Nil}]
      /\ f.entry \in [Nat -> [Nat -> LogEntry]] /\ f.acked \in [Server -> [Nat -> Nat]]
      /\ f.lastTerm[s] \in Nat
  BY HistoryFields
<1>2. /\ g.winner = [f.winner EXCEPT ![u] = s]
      /\ g.entry = [f.entry EXCEPT ![u] = f.entry[f.lastTerm[s]]]
      /\ g.len = [f.len EXCEPT ![u] = f.lastIndex[s]]
      /\ g.acked = [f.acked EXCEPT ![s] = [f.acked[s] EXCEPT ![u] = f.lastIndex[s]]]
      /\ g.term = f.term /\ g.lastIndex = f.lastIndex /\ g.lastTerm = f.lastTerm
  BY DEF Elect
<1>3. g.winner[u] = s
  BY <1>1, <1>2
<1>4. g.len[u] = f.lastIndex[s]
  BY <1>1, <1>2
<1>5. g.entry[u] = f.entry[f.lastTerm[s]] /\ g.entry[f.lastTerm[s]] = f.entry[f.lastTerm[s]]
  BY <1>1, <1>2
<1>6. g.acked[s][u] = f.lastIndex[s]
  <2>1. g.acked[s] = [f.acked[s] EXCEPT ![u] = f.lastIndex[s]]
    BY <1>1, <1>2
  <2>2. f.acked[s] \in [Nat -> Nat]
    BY <1>1
  <2> QED BY <2>1, <2>2
<1> QED BY <1>2, <1>3, <1>4, <1>5, <1>6

\* A leader that has just been elected leads.
LEMMA ElectLeads ==
  ASSUME NEW f \in History, NEW g \in History, NEW s \in Server, NEW u \in Nat, Elect(f, g, s, u),
         f.term[s] = u, NEW next, NEW match, NEW n, n = f.lastIndex[s],
         \A p \in Server : next[p] = n + 1 /\ match[p] = IF p = s THEN n ELSE 0
  PROVE  Leads(g, s, next, match)
<1>1. /\ g.winner[u] = s /\ g.len[u] = n /\ g.acked[s][u] = n /\ g.term[s] = u
      /\ g.entry[u] = g.entry[g.lastTerm[s]] /\ g.lastIndex[s] = n
  BY ElectFields
<1>2. n \in Nat
  BY HistoryTypes
<1>3. Holds(g, s, u, n)
  BY <1>1, <1>2 DEF Holds, Same
<1>4. \A p \in Server : g.acked[p][u] \in Nat
  BY HistoryTypes
<1>5. \A p \in Server : match[p] =< g.acked[p][u] /\ match[p] < next[p] /\ next[p] =< n + 1
  BY <1>1, <1>2, <1>4
<1> QED BY <1>1, <1>3, <1>5 DEF Leads

\* s has just won term u.
Wins(s, u) ==
    /\ term'[s] = u /\ state'[s] = "Leader" /\ u >= 1
    /\ term[s] < u \/ state[s] = "Candidate"
    /\ \A p \in Server : /\ nextIndex'[s][p] = LastLogIndex(s) + 1
                         /\ matchIndex'[s][p] = IF p = s THEN LastLogIndex(s) ELSE 0
    /\ \A q \in Server \ {s} : /\ term'[q] = term[q] /\ state'[q] = state[q]
                               /\ nextIndex'[q] = nextIndex[q] /\ matchIndex'[q] = matchIndex[q]
    /\ UNCHANGED <<log, lastIncludedIndex, snapshot, commitIndex>>
    /\ UNCHANGED <<applied, delivering, pendingSnapshot, appendCalls, snapCalls>>

\* The voters of a winner are bound to it.
LEMMA WinnersVoters ==
  ASSUME NEW h, Explained(h), NEW s \in Server, NEW u \in Nat, Wins(s, u), NEW p \in votes'[s]
  PROVE  p \in Server /\ Granted(p, s, u)' /\ Bound(p, u, s)' /\ term'[p] >= u
<1>1. p \in Server /\ term'[p] \in Nat
  BY DEF Explained, TypeOK
<1>2. Granted(p, s, u)'
  BY DEF Granted, Counted, Wins
<1>3. VotesBacked' /\ OneVote'
  BY DEF Explained, ElectionInv
<1>4. VotedFor(p, u, s)'
  BY <1>1, <1>2, <1>3 DEF VotesBacked
<1>5. \A q \in Server : Granted(p, q, u)' => q = s
  BY <1>1, <1>2, <1>3 DEF OneVote
<1>6. term'[p] >= u
  BY <1>1, <1>4 DEF VotedFor
<1> QED BY <1>1, <1>2, <1>4, <1>5, <1>6 DEF Bound

LEMMA WinnersMajority ==
  ASSUME NEW h, Explained(h), NEW s \in Server, state'[s] = "Leader"
  PROVE  votes'[s] \in Majorities
<1>1. votes'[s] \subseteq Server /\ Cardinality(votes'[s]) >= Majority
  BY DEF Explained, TypeOK, ElectionInv, LeaderHasMajority
<1> QED BY <1>1 DEF Majorities

\* Nobody has won the term before.
LEMMA NobodyWonBefore ==
  ASSUME NEW h, Explained(h), NEW s \in Server, NEW u \in Nat, Wins(s, u), CandidatesMove(h, h)
  PROVE  h.winner[u] = Nil
<1>1. SUFFICES ASSUME h.winner[u] # Nil PROVE FALSE
  OBVIOUS
<1>2. PICK w : w = h.winner[u]
  OBVIOUS
<1>3. w \in Server /\ WinnerIs(u, w)
  <2>1. w \in Server \cup {Nil}
    BY <1>2, HistoryTypes DEF Explained, HistoryInv
  <2> QED BY <1>1, <1>2, <2>1 DEF Explained, StateIs
<1>4. WinnerIs(u, w)'
  BY <1>3, WinnerStays
<1>5. PICK Q \in Majorities : \A p \in Q : Bound(p, u, w)'
  BY <1>4 DEF WinnerIs, Majorities
<1>6. state'[s] = "Leader"
  BY DEF Wins
<1>7. PICK p \in Server : p \in Q /\ p \in votes'[s]
  BY <1>6, WinnersMajority, MajoritiesIntersect
<1>8. Granted(p, s, u)' /\ Bound(p, u, w)'
  BY <1>5, <1>7, WinnersVoters
<1>9. s = w
  BY <1>8 DEF Bound
<1>10. term[s] \in Nat /\ term[s] =< u
  BY TermsNeverFall DEF Wins
<1> QED BY <1>3, <1>9, <1>10 DEF WinnerIs, Wins

\* What else is the same once s has won term u.
WonBy(f, g, s, u) ==
    /\ g.winner[u] = s /\ g.term = f.term /\ g.lastIndex = f.lastIndex /\ g.lastTerm = f.lastTerm
    /\ \A t \in Nat \ {u} : g.winner[t] = f.winner[t] /\ g.len[t] = f.len[t]

LEMMA ElectWins ==
  ASSUME NEW f \in History, NEW g, NEW s \in Server, NEW u \in Nat, Elect(f, g, s, u)
  PROVE  WonBy(f, g, s, u)
<1>1. g.term = f.term /\ g.lastIndex = f.lastIndex /\ g.lastTerm = f.lastTerm
  BY DEF Elect
<1>2. /\ f.len \in [Nat -> Nat] /\ f.winner \in [Nat -> Server \cup {Nil}]
  BY HistoryFields
<1>3. g.winner[u] = s /\ \A t \in Nat \ {u} : g.winner[t] = f.winner[t]
  BY <1>2 DEF Elect
<1>4. \A t \in Nat \ {u} : g.len[t] = f.len[t]
  BY <1>2 DEF Elect
<1> QED BY <1>1, <1>3, <1>4 DEF WonBy

\* The history after the election of s: f, with the terms the peers have moved to, and
\* the log of s as that of its term.
LEMMA WinSafe ==
  ASSUME NEW h, Explained(h), NEW s \in Server, NEW u \in Nat, Wins(s, u), CandidatesMove(h, h),
         \A c \in voteCalls' : VoteCallIs(h, c)' \/ \E d \in voteCalls : SameVote(c, d),
         NEW f \in History, HistoryInv(f), TermsGrow(h, f), Grows(h, f),
         \A p \in Server : f.term[p] = term'[p],
         \A p \in votes'[s] : Informed(f, p, s, u)
  PROVE  SafeStep(h)
<1>1. /\ f.winner = h.winner /\ f.entry = h.entry /\ f.len = h.len /\ f.acked = h.acked
      /\ f.lastIndex = h.lastIndex /\ f.lastTerm = h.lastTerm
  BY DEF TermsGrow
<1>2. h.winner[u] = Nil
  BY NobodyWonBefore
<1>3. term'[s] = u /\ state'[s] = "Leader" /\ u >= 1 /\ f.term[s] = u
  BY DEF Wins
<1>4. PICK Q \in Majorities : Q = votes'[s]
  BY <1>3, WinnersMajority
<1>5. \A p \in Q : f.term[p] >= u
  BY <1>4, WinnersVoters
<1>6. \A p \in Q, t \in Nat, i \in Nat :
         t < u /\ Own(f, i, t) /\ i =< f.acked[p][t] => Holds(f, s, t, i) \/ Abandoned(f, i, t)
  BY <1>4 DEF Informed
<1>7. PICK g \in History : Elect(f, g, s, u) /\ HistoryInv(g) /\ Grows(f, g)
  BY <1>1, <1>2, <1>3, <1>5, <1>6, CanElect
<1>8. h \in History /\ HistoryInv(h)
  BY DEF Explained, HistoryInv
<1>9. Grows(h, g)
  BY <1>7, <1>8, GrowsTransitive
<1>10. /\ g.winner[u] = s /\ g.term = f.term /\ g.lastIndex = h.lastIndex /\ g.lastTerm = h.lastTerm
       /\ \A t \in Nat \ {u} : g.winner[t] = h.winner[t] /\ g.len[t] = h.len[t]
  <2>1. /\ g.winner[u] = s /\ g.term = f.term /\ g.lastIndex = f.lastIndex /\ g.lastTerm = f.lastTerm
        /\ \A t \in Nat \ {u} : g.winner[t] = f.winner[t] /\ g.len[t] = f.len[t]
    <3>1. WonBy(f, g, s, u)
      BY <1>7, ElectWins
    <3> QED BY <3>1 DEF WonBy
  <2> QED BY <1>1, <2>1
<1>11. \A p \in Server : SameLog(p) /\ SameService(p) /\ commitIndex'[p] =< commitIndex[p]
  BY PeerFacts DEF SameLog, SameService, Wins
<1>12. ASSUME NEW p \in Server PROVE PeerIs(g, p)' /\ KeepsLog(h, g, p, commitIndex[p])
  <2>1. g.lastIndex[p] = h.lastIndex[p] /\ g.lastTerm[p] = h.lastTerm[p] /\ g.term[p] = term'[p]
    BY <1>10
  <2>2. state'[p] = "Candidate" => state[p] = "Candidate" \/ term'[p] > term[p]
    BY DEF CandidatesMove
  <2>3. CASE p = s
    <3>1. f.lastIndex[s] = LastLogIndex(s)
      BY <1>1, PeerFacts
    <3>2. Leads(g, s, nextIndex'[s], matchIndex'[s])
      BY <1>3, <1>7, <3>1, ElectLeads DEF Wins
    <3> QED BY <1>7, <1>9, <1>11, <2>1, <2>2, <2>3, <3>2, PeerStays
  <2>4. CASE p # s
    <3>1. /\ state'[p] = state[p] /\ term'[p] = term[p]
          /\ nextIndex'[p] = nextIndex[p] /\ matchIndex'[p] = matchIndex[p]
      BY <2>4 DEF Wins
    <3>2. state[p] = "Leader" => g.len[term[p]] = h.len[term[p]]
      <4>1. SUFFICES ASSUME state[p] = "Leader" PROVE g.len[term[p]] = h.len[term[p]]
        OBVIOUS
      <4>2. PICK v : v = term[p]
        OBVIOUS
      <4>3. v \in Nat /\ h.winner[v] # Nil
        BY <4>1, <4>2, LeaderFacts
      <4> QED BY <1>2, <1>10, <4>2, <4>3
    <3> QED BY <1>7, <1>9, <1>11, <2>1, <2>2, <3>1, <3>2, PeerStays
  <2> QED BY <2>3, <2>4
<1>13. CandidatesMove(h, g)
  BY <1>10 DEF CandidatesMove
<1>14. WinnerIs(u, s)'
  <2>1. \A p \in Q : Bound(p, u, s)'
    BY <1>4, WinnersVoters
  <2> QED BY <1>3, <2>1 DEF WinnerIs, Majorities
<1>15. \A t \in Nat : h.winner[t] = Nil /\ g.winner[t] # Nil => WinnerIs(t, g.winner[t])'
  BY <1>10, <1>14
<1>16. /\ \A c \in appendCalls' : AppendCallIs(g, c) \/ \E d \in appendCalls : SameAppend(c, d)
       /\ \A c \in snapCalls' : SnapCallIs(g, c) \/ \E d \in snapCalls : SameSnap(c, d)
  BY SameCall DEF Wins
<1>17. \A c \in voteCalls' : VoteCallIs(g, c)' \/ \E d \in voteCalls : SameVote(c, d)
  BY <1>10 DEF VoteCallIs
<1>18. MovesAre(h, g)
  BY <1>7, <1>9, <1>12, <1>13, <1>15, <1>16, <1>17 DEF MovesAre
<1>19. StateIs(g)'
  BY <1>18, StateMoves
<1> QED BY <1>7, <1>12, <1>19 DEF SafeStep, Keeps

\* becomeLeaderLocked().
LEMMA BecomeLeaderMoves ==
  ASSUME TypeOK, NEW s \in Server, BecomeLeader(s)
  PROVE  /\ state'[s] = "Leader" /\ \A q \in Server \ {s} : state'[q] = state[q]
         /\ \A p \in Server : /\ nextIndex'[s][p] = LastLogIndex(s) + 1
                              /\ matchIndex'[s][p] = IF p = s THEN LastLogIndex(s) ELSE 0
         /\ \A q \in Server \ {s} : nextIndex'[q] = nextIndex[q] /\ matchIndex'[q] = matchIndex[q]
BY DEF BecomeLeader, TypeOK

\* startElection() in a cluster of one peer, which wins at once.
LEMMA SoloElectionSafe ==
  ASSUME NEW h, Explained(h), NEW s \in Server, StartElection(s), Majority = 1
  PROVE  SafeStep(h)
<1>0. TypeOK /\ TypeOK' /\ HistoryInv(h) /\ term[s] \in Nat
  BY DEF Explained, TypeOK
<1>1. CandidatesMove(h, h)
  BY <1>0, StartElectionCandidates
<1>2. PICK u \in Nat : u = term[s] + 1
  BY <1>0
<1>3. BecomeLeader(s) /\ votes'[s] = {s}
  BY <1>0 DEF StartElection, TypeOK
<1>4. Wins(s, u)
  BY <1>0, <1>2, <1>3, StartElectionMoves, BecomeLeaderMoves DEF Wins
<1>5. \A c \in voteCalls' : VoteCallIs(h, c)' \/ \E d \in voteCalls : SameVote(c, d)
  <2>1. ASSUME NEW c \in voteCalls'
        PROVE  VoteCallIs(h, c)' \/ \E d \in voteCalls : SameVote(c, d)
    <3>1. CASE c.from = s /\ c.Term = term'[s]
               /\ c.LastlogIndex = h.lastIndex[s] /\ c.LastlogTerm = h.lastTerm[s]
      <4>1. term'[s] \in Nat
        BY DEF Explained, TypeOK
      <4> QED BY <3>1, <4>1 DEF VoteCallIs
    <3> QED BY <3>1, StartElectionMoves, SameCall
  <2> QED BY <2>1
<1>6. term' \in [Server -> Nat] /\ \A p \in Server : term'[p] >= h.term[p]
  BY TermsNeverFall, PeerFacts DEF Explained, TypeOK
<1>7. PICK tm \in [Server -> Nat] : tm = term'
  BY <1>6
<1>8. PICK f \in History : TermsGrow(h, f) /\ f.term = tm /\ HistoryInv(f) /\ Grows(h, f)
  BY <1>0, <1>6, <1>7, TermsCanGrow
<1>9. Informed(f, s, s, u)
  BY <1>8 DEF Informed, HistoryInv, AcksKept
<1> QED BY <1>1, <1>3, <1>4, <1>5, <1>7, <1>8, <1>9, WinSafe

\* The vote that makes s leader, or that is one of too few.
LEMMA CountVoteSafe ==
  ASSUME NEW h, Explained(h), NEW c \in voteCalls, HandleVoteReply(c), CountsVote(c.from, c)
  PROVE  SafeStep(h)
<1> DEFINE s == c.from
<1>0. TypeOK /\ TypeOK' /\ HistoryInv(h) /\ h \in History /\ s \in Server /\ term[s] \in Nat
  BY DEF Explained, TypeOK, HistoryInv, RequestVoteCall
<1>1. /\ state[s] = "Candidate" /\ UNCHANGED <<term, log, lastIncludedIndex, snapshot, commitIndex>>
      /\ UNCHANGED <<applied, delivering, pendingSnapshot, appendCalls, snapCalls>>
      /\ voteCalls' \subseteq voteCalls
      /\ BecomeLeader(s) \/ UNCHANGED <<state, leaderVars>>
  <2>1. c.reply.Term = term[s] /\ ~(c.reply.Term > term[s])
    BY <1>0 DEF CountsVote
  <2> QED BY <2>1 DEF HandleVoteReply, CountsVote, persistentVars, applierVars
<1> HIDE DEF s
<1>u. PICK u \in Nat : u = term[s]
  BY <1>0
<1>2. \A p, q \in Server, T \in Nat : Granted(p, q, T)' => Granted(p, q, T)
  BY <1>0, CountVoteGrants
<1>3. \A q \in Server : state'[q] = "Candidate" => state[q] = "Candidate"
  BY <1>0, <1>1, BecomeLeaderMoves
<1>4. CandidatesMove(h, h)
  <2>1. ASSUME NEW q \in Server, NEW p \in Server, Granted(p, q, term[q])'
        PROVE  Granted(p, q, term[q])
    <3>1. PICK T \in Nat : T = term[q]
      BY <1>0 DEF TypeOK
    <3>2. Granted(p, q, T)'
      BY <1>1, <2>1, <3>1
    <3> QED BY <1>2, <3>1, <3>2
  <2> QED BY <1>1, <1>3, <2>1 DEF CandidatesMove
<1>5. CASE UNCHANGED <<state, leaderVars>>
  <2>1. CallsMove(h)
    BY <1>1, FewerCalls
  <2> QED BY <1>1, <1>4, <1>5, <2>1, CampaignSafe
<1>6. CASE BecomeLeader(s)
  <2>1. u >= 1
    BY <1>0, <1>1, <1>u, PeerFacts DEF PeerIs
  <2>2. Wins(s, u)
    BY <1>0, <1>1, <1>6, <1>u, <2>1, BecomeLeaderMoves DEF Wins
  <2>3. ASSUME NEW p \in votes'[s] PROVE Informed(h, p, s, u)
    <3>1. p \in Server /\ Granted(p, s, u)'
      BY <1>0, <2>2, <2>3, WinnersVoters
    <3>2. Granted(p, s, u)
      BY <1>0, <1>2, <3>1
    <3> QED BY <1>0, <1>1, <1>u, <3>1, <3>2 DEF Explained, StateIs
  <2>4. \A d \in voteCalls' : VoteCallIs(h, d)' \/ \E e \in voteCalls : SameVote(d, e)
    BY <1>1, SameCall
  <2>5. \A p \in Server : h.term[p] = term'[p] /\ h.term[p] \in Nat
    BY <1>1, PeerFacts
  <2>6. TermsGrow(h, h)
    BY <2>5 DEF TermsGrow
  <2>7. Grows(h, h)
    BY <1>0, GrowsReflexive
  <2> QED BY <1>0, <1>4, <2>2, <2>3, <2>4, <2>5, <2>6, <2>7, WinSafe
<1> QED BY <1>1, <1>5, <1>6

-----------------------------------------------------------------------------
(* EVERY STEP *)

\* Every step has a history.
LEMMA NextSafe ==
  ASSUME NEW h, Explained(h)
  PROVE  SafeStep(h)
<1>0. TypeOK /\ DurableState /\ [Next]_vars
  BY DEF Explained
<1>1. CASE \E s \in Server : StartElection(s)
  BY <1>1, CandidacySafe, SoloElectionSafe
<1>2. CASE \E c \in voteCalls : RequestVote(c)
  BY <1>2, RequestVoteSafe
<1>3. CASE \E c \in voteCalls : HandleVoteReply(c) /\ CountsVote(c.from, c)
  BY <1>3, CountVoteSafe
<1>4. CASE /\ ~ \E s \in Server : StartElection(s)
           /\ ~ \E c \in voteCalls : RequestVote(c)
           /\ ~ \E c \in voteCalls : HandleVoteReply(c) /\ CountsVote(c.from, c)
  <2>1. Quiet
    BY <1>0, <1>4, MostStepsAreQuiet
  <2>2. CASE UNCHANGED vars
    BY <2>1, <2>2, FailureSafe
  <2>3. CASE \E c \in voteCalls : HandleVoteReply(c) \/ VoteCallFails(c)
    <3>1. PICK c \in voteCalls : HandleVoteReply(c) \/ VoteCallFails(c)
      BY <2>3
    <3>2. CASE HandleVoteReply(c)
      BY <1>4, <2>1, <3>2, IgnoredVoteSafe
    <3>3. CASE VoteCallFails(c)
      BY <2>1, <3>3, FailureSafe
    <3> QED BY <3>1, <3>2, <3>3
  <2>4. CASE \E s \in Server, command \in Command : Start(s, command)
    BY <2>1, <2>4, StartSafe
  <2>5. CASE \E s, p \in Server, g \in Goroutine : ReplicateEntries(s, p, g) \/ ReplicateSnapshot(s, p, g)
    BY <2>1, <2>5, ReplicateEntriesSafe, ReplicateSnapshotSafe
  <2>6. CASE \E c \in appendCalls : AppendEntries(c) \/ HandleAppendReply(c) \/ AppendCallFails(c)
    <3>1. PICK c \in appendCalls : AppendEntries(c) \/ HandleAppendReply(c) \/ AppendCallFails(c)
      BY <2>6
    <3>2. CASE AppendEntries(c)
      BY <2>1, <3>2, AcceptSafe, RejectSafe
    <3>3. CASE HandleAppendReply(c)
      BY <2>1, <3>3, HandleAppendReplySafe
    <3>4. CASE AppendCallFails(c)
      BY <2>1, <3>4, FailureSafe
    <3> QED BY <3>1, <3>2, <3>3, <3>4
  <2>7. CASE \E c \in snapCalls : InstallSnapshot(c) \/ HandleSnapReply(c) \/ SnapCallFails(c)
    <3>1. PICK c \in snapCalls : InstallSnapshot(c) \/ HandleSnapReply(c) \/ SnapCallFails(c)
      BY <2>7
    <3>2. CASE InstallSnapshot(c)
      BY <2>1, <3>2, InstallSafe, StaleSnapshotSafe
    <3>3. CASE HandleSnapReply(c)
      BY <2>1, <3>3, HandleSnapReplySafe
    <3>4. CASE SnapCallFails(c)
      BY <2>1, <3>4, FailureSafe
    <3> QED BY <3>1, <3>2, <3>3, <3>4
  <2>8. CASE \E s \in Server : Snapshot(s)
    BY <2>1, <2>8, SnapshotSafe
  <2>9. CASE \E s \in Applying : ApplierWait(s) \/ ApplierTakeSnapshot(s) \/ ApplierTakeEntries(s) \/ Deliver(s)
    BY <2>1, <2>9, ApplierSafe, RaftAssumption
  <2>10. CASE \E s \in Crashing : Restart(s)
    BY <2>1, <2>10, RestartSafe, RaftAssumption
  <2> QED BY <1>0, <1>4, <2>2, <2>3, <2>4, <2>5, <2>6, <2>7, <2>8, <2>9, <2>10 DEF Next
<1> QED BY <1>1, <1>2, <1>3, <1>4

\* The history of the initial state.
LEMMA InitSafe == Init => SafetyInv
<1>1. SUFFICES ASSUME Init PROVE SafetyInv
  OBVIOUS
<1>2. TypeOK
  BY <1>1, InitType
<1> DEFINE h == [winner |-> [t \in Nat |-> Nil], entry |-> [t \in Nat |-> [i \in Nat |-> Dummy]],
                 len |-> [t \in Nat |-> 0], acked |-> [p \in Server |-> [t \in Nat |-> 0]],
                 term |-> [p \in Server |-> 0],
                 lastIndex |-> [p \in Server |-> 0], lastTerm |-> [p \in Server |-> 0]]
<1>3. Dummy \in LogEntry /\ Dummy.term = 0
  BY DEF Dummy, LogEntry
<1>4. h \in History
  BY <1>3 DEF History
<1>5. /\ \A t \in Nat : h.winner[t] = Nil /\ h.len[t] = 0
      /\ \A t \in Nat, i \in Nat : h.entry[t][i] = Dummy
      /\ \A p \in Server : h.term[p] = 0 /\ h.lastIndex[p] = 0 /\ h.lastTerm[p] = 0
      /\ \A p \in Server, t \in Nat : h.acked[p][t] = 0
  OBVIOUS
<1> HIDE DEF h
<1>6. HistoryInv(h)
  BY <1>4, <1>5, FreshHistory
<1>7. ASSUME NEW s \in Server PROVE PeerIs(h, s)
  <2>1. /\ term[s] = 0 /\ log[s] = <<Dummy>> /\ lastIncludedIndex[s] = 0 /\ snapshot[s] = <<>>
        /\ commitIndex[s] = 0 /\ applied[s] = <<>> /\ delivering[s] = <<>>
        /\ pendingSnapshot[s] = Nil /\ state[s] = "Follower"
    BY <1>1 DEF Init
  <2>2. IsLog(h, s, log[s], lastIncludedIndex[s], snapshot[s])
    <3>1. Len(log[s]) = 1 /\ log[s][1] = Dummy /\ Len(snapshot[s]) = 0
      BY <2>1
    <3>2. Copies(h, h.lastTerm[s], snapshot[s])
      BY <3>1 DEF Copies
    <3> QED BY <1>5, <2>1, <3>1, <3>2 DEF IsLog
  <2>3. Committed(h, s, 0)
    BY <1>5 DEF Committed, Decided
  <2>4. Serves(h, s, applied[s], delivering[s], pendingSnapshot[s])
    <3>1. Len(applied[s]) = 0 /\ Len(delivering[s]) = 0
      BY <2>1
    <3> QED BY <2>1, <3>1 DEF Serves, Copies
  <2> QED BY <1>5, <2>1, <2>2, <2>3, <2>4 DEF PeerIs
<1>8. /\ voteCalls = {} /\ appendCalls = {} /\ snapCalls = {}
      /\ \A s \in Server : state[s] = "Follower"
  BY <1>1 DEF Init
<1>9. StateIs(h)
  BY <1>5, <1>7, <1>8 DEF StateIs
<1> QED BY <1>6, <1>9 DEF SafetyInv

\* What holds of every reachable state of the peers, with its history.
RaftInv == DurableInv /\ ElectionInv /\ ApplierInv /\ SafetyInv

LEMMA NextRaft ==
  ASSUME DurableInv, DurableInv', ElectionInv, ElectionInv', ApplierInv, SafetyInv, [Next]_vars
  PROVE  SafetyInv'
<1>1. PICK h : HistoryInv(h) /\ StateIs(h)
  BY DEF SafetyInv
<1>2. Explained(h)
  BY <1>1 DEF Explained, DurableInv
<1>3. PICK g : HistoryInv(g) /\ Keeps(h, g) /\ StateIs(g)'
  BY <1>2, NextSafe DEF SafeStep
<1> QED BY <1>3 DEF SafetyInv

\* Every reachable state of the peers has a history that explains it.
LEMMA RaftInvariant == Spec => []RaftInv
<1>1. Init => SafetyInv
  BY InitSafe
<1>2. DurableInv /\ DurableInv' /\ ElectionInv /\ ElectionInv' /\ ApplierInv /\ SafetyInv
        /\ [Next]_vars => SafetyInv'
  BY NextRaft
<1>3. DurableInv /\ ElectionInv /\ ApplierInv /\ SafetyInv => RaftInv
  BY DEF RaftInv
<1> QED BY <1>1, <1>2, <1>3, DurableInvariant, ElectionInvariant, ApplierInvariant, PTL DEF Spec

LEMMA RaftInvReached ==
  ASSUME RaftInv
  PROVE  \E h : Reached(h)
BY DEF RaftInv, DurableInv, SafetyInv, Reached

\* What a peer that holds an entry at an index says of the history.
LEMMA EntryIs ==
  ASSUME NEW h, Reached(h), NEW s \in Server, NEW T, T = h.lastTerm[s]
  PROVE  /\ \A i : InLog(s, i) => TermAt(s, i) = h.entry[T][i].term
         /\ \A i \in lastIncludedIndex[s] + 1 .. LastLogIndex(s) :
               log[s][SliceIndex(s, i)] = h.entry[T][i]
         /\ \A i \in 1 .. LastLogIndex(s) : CommittedCommand(s, i) = h.entry[T][i].command
<1>1. /\ TypeOK /\ HistoryInv(h) /\ IsLog(h, s, log[s], lastIncludedIndex[s], snapshot[s])
      /\ lastIncludedIndex[s] \in Nat /\ Len(snapshot[s]) = lastIncludedIndex[s]
      /\ h.lastIndex[s] = LastLogIndex(s) /\ LastLogIndex(s) \in Nat
  BY PeerStands, LogFacts DEF Reached, PeerIs
<1>2. \A i : InLog(s, i) => TermAt(s, i) = h.entry[T][i].term
  BY <1>1, TermIs
<1>3. \A i \in lastIncludedIndex[s] + 1 .. LastLogIndex(s) :
         log[s][SliceIndex(s, i)] = h.entry[T][i]
  BY <1>1 DEF IsLog, SliceIndex
<1>4. ASSUME NEW i \in 1 .. LastLogIndex(s)
      PROVE  CommittedCommand(s, i) = h.entry[T][i].command
  <2>1. CASE i =< lastIncludedIndex[s]
    <3>1. snapshot[s][i] = h.entry[T][i].command
      BY <1>1, <2>1 DEF IsLog, Copies
    <3> QED BY <2>1, <3>1 DEF CommittedCommand
  <2>2. CASE ~(i =< lastIncludedIndex[s])
    BY <1>1, <1>3, <2>2 DEF CommittedCommand
  <2> QED BY <2>1, <2>2
<1> QED BY <1>2, <1>3, <1>4

\* Every index into the log that raft.go computes is in the log: the commit index of
\* every peer, and a leader's nextIndex and matchIndex of every peer.
THEOREM NoIndexOutOfRange == Spec => []IndexesInRange
<1>1. ASSUME RaftInv PROVE IndexesInRange
  <2>1. PICK h : Reached(h)
    BY <1>1, RaftInvReached
  <2>2. \A s \in Server : commitIndex[s] =< LastLogIndex(s)
    BY <2>1, PeerStands
  <2>3. ASSUME NEW s \in Server, state[s] = "Leader", NEW p \in Server
        PROVE  matchIndex[s][p] < nextIndex[s][p] /\ nextIndex[s][p] =< LastLogIndex(s) + 1
    <3>1. Leads(h, s, nextIndex[s], matchIndex[s]) /\ h.lastIndex[s] = LastLogIndex(s)
      BY <2>1, <2>3, PeerStands DEF PeerIs
    <3> QED BY <3>1 DEF Leads
  <2> QED BY <2>1, <2>2, <2>3 DEF IndexesInRange, Reached
<1> QED BY <1>1, RaftInvariant, PTL

\* No leader sends a LeaderCommit beyond the entries it sends along with it, so a
\* follower never commits what AppendEntries() has not compared.
THEOREM CommitIsCovered == Spec => []CommitCoveredByEntries
<1>1. ASSUME RaftInv PROVE CommitCoveredByEntries
  <2>1. PICK h : Reached(h)
    BY <1>1, RaftInvReached
  <2>2. \A c \in appendCalls : AppendCallIs(h, c)
    BY <2>1 DEF Reached, StateIs
  <2> QED BY <2>2 DEF CommitCoveredByEntries, AppendCallIs
<1> QED BY <1>1, RaftInvariant, PTL

\* The least index of an interval is where it starts.
LEMMA MinOfInterval ==
  ASSUME NEW a \in Nat, NEW b \in Nat, a =< b
  PROVE  Min(a .. b) = a
<1>1. a .. b \subseteq Nat /\ a .. b # {} /\ a \in a .. b
  OBVIOUS
<1>2. Min(a .. b) \in a .. b /\ \A y \in a .. b : Min(a .. b) =< y
  BY <1>1, MinIsLeast
<1>3. Min(a .. b) >= a /\ Min(a .. b) =< a /\ Min(a .. b) \in Int
  BY <1>1, <1>2
<1> QED BY <1>3

\* The indexes two logs have in common are in both.
LEMMA CommonIs ==
  ASSUME TypeOK, NEW s \in Server, NEW t \in Server, NEW i \in Common(s, t)
  PROVE  /\ i \in Nat /\ InLog(s, i) /\ InLog(t, i)
         /\ i > Min(Common(s, t)) => i > lastIncludedIndex[s] /\ i > lastIncludedIndex[t]
<1> DEFINE a == Max({lastIncludedIndex[s], lastIncludedIndex[t]})
           b == Min({LastLogIndex(s), LastLogIndex(t)})
<1>1. /\ lastIncludedIndex[s] \in Nat /\ lastIncludedIndex[t] \in Nat
      /\ LastLogIndex(s) \in Nat /\ LastLogIndex(t) \in Nat
  BY LogFacts
<1>2. /\ a \in Nat /\ a >= lastIncludedIndex[s] /\ a >= lastIncludedIndex[t]
      /\ b \in Nat /\ b =< LastLogIndex(s) /\ b =< LastLogIndex(t)
  BY <1>1, MaxOfTwo, MinOfTwo
<1>3. Common(s, t) = a .. b
  BY DEF Common
<1> HIDE DEF a, b
<1>4. i \in Nat /\ a =< i /\ i =< b
  BY <1>2, <1>3
<1>5. Min(Common(s, t)) = a
  BY <1>2, <1>3, <1>4, MinOfInterval
<1> QED BY <1>1, <1>2, <1>4, <1>5 DEF InLog

\* Two logs with the same term at an index agree on everything up to it, whatever
\* elections, back-ups, snapshots and crashes they have gone through.
THEOREM LogsMatchEverywhere == Spec => []LogMatching
<1>1. ASSUME RaftInv PROVE LogMatching
  <2>1. PICK h : Reached(h)
    BY <1>1, RaftInvReached
  <2>2. TypeOK /\ HistoryInv(h) /\ h \in History /\ LogsConsistent(h)
    BY <2>1 DEF Reached, HistoryInv
  <2>3. SUFFICES ASSUME NEW s \in Server, NEW t \in Server, NEW i \in Common(s, t),
                        TermAt(s, i) = TermAt(t, i), NEW j \in Common(s, t)
                 PROVE  /\ j =< i => TermAt(s, j) = TermAt(t, j)
                        /\ j =< i /\ j > Min(Common(s, t)) =>
                              log[s][SliceIndex(s, j)] = log[t][SliceIndex(t, j)]
    BY DEF LogMatching
  <2>4. SUFFICES ASSUME j =< i
                 PROVE  /\ TermAt(s, j) = TermAt(t, j)
                        /\ j > Min(Common(s, t)) =>
                              log[s][SliceIndex(s, j)] = log[t][SliceIndex(t, j)]
    OBVIOUS
  <2>5. /\ i \in Nat /\ InLog(s, i) /\ InLog(t, i) /\ j \in Nat /\ InLog(s, j) /\ InLog(t, j)
        /\ j > Min(Common(s, t)) => j > lastIncludedIndex[s] /\ j > lastIncludedIndex[t]
    BY <2>2, CommonIs
  <2>6. PICK S : S = h.lastTerm[s]
    OBVIOUS
  <2>7. PICK T : T = h.lastTerm[t]
    OBVIOUS
  <2>8. /\ S \in Nat /\ T \in Nat /\ h.len[S] \in Nat /\ h.len[T] \in Nat
        /\ LastLogIndex(s) =< h.len[S] /\ LastLogIndex(t) =< h.len[T]
    <3>1. h.lastIndex[s] = LastLogIndex(s) /\ h.lastIndex[t] = LastLogIndex(t)
      BY <2>1, PeerStands
    <3>2. PeersConsistent(h)
      BY <2>2 DEF HistoryInv
    <3>3. /\ h.lastTerm[s] \in Nat /\ h.len[h.lastTerm[s]] \in Nat
          /\ h.lastIndex[s] =< h.len[h.lastTerm[s]]
      BY <2>2, <3>2, HistoryTypes DEF PeersConsistent
    <3>4. /\ h.lastTerm[t] \in Nat /\ h.len[h.lastTerm[t]] \in Nat
          /\ h.lastIndex[t] =< h.len[h.lastTerm[t]]
      BY <2>2, <3>2, HistoryTypes DEF PeersConsistent
    <3> QED BY <2>6, <2>7, <3>1, <3>3, <3>4
  <2>9. i =< h.len[S] /\ i =< h.len[T] /\ h.entry[S][i].term = h.entry[T][i].term
    <3>1. LastLogIndex(s) \in Nat /\ LastLogIndex(t) \in Nat /\ i =< LastLogIndex(s) /\ i =< LastLogIndex(t)
      BY <2>2, <2>5, LogFacts DEF InLog
    <3>2. TermAt(s, i) = h.entry[S][i].term /\ TermAt(t, i) = h.entry[T][i].term
      BY <2>1, <2>5, <2>6, <2>7, EntryIs
    <3>3. h.entry[S][i].term = h.entry[T][i].term
      BY <2>3, <3>2, Zenon
    <3>4. i =< h.len[S] /\ i =< h.len[T]
      BY <2>5, <2>8, <3>1
    <3> QED BY <3>3, <3>4
  <2>10. h.entry[S][j] = h.entry[T][j]
    <3>1. Same(h, S, T, i)
      BY <2>2, <2>5, <2>8, <2>9, LogsMatch, Zenon
    <3> QED BY <2>4, <2>5, <3>1, SameBelow
  <2>11. TermAt(s, j) = TermAt(t, j)
    BY <2>1, <2>5, <2>6, <2>7, <2>10, EntryIs
  <2>12. ASSUME j > Min(Common(s, t))
         PROVE  log[s][SliceIndex(s, j)] = log[t][SliceIndex(t, j)]
    <3>0. j > lastIncludedIndex[s] /\ j > lastIncludedIndex[t]
      BY <2>5, <2>12, Zenon
    <3>1. /\ j \in lastIncludedIndex[s] + 1 .. LastLogIndex(s)
          /\ j \in lastIncludedIndex[t] + 1 .. LastLogIndex(t)
      <4>1. /\ lastIncludedIndex[s] \in Nat /\ LastLogIndex(s) \in Nat
            /\ lastIncludedIndex[t] \in Nat /\ LastLogIndex(t) \in Nat
        BY <2>2, LogFacts
      <4>2. j \in Nat /\ InLog(s, j) /\ InLog(t, j)
        BY <2>5
      <4> QED BY <3>0, <4>1, <4>2 DEF InLog
    <3> QED BY <2>1, <2>6, <2>7, <2>10, <3>1, EntryIs
  <2> QED BY <2>11, <2>12
<1> QED BY <1>1, RaftInvariant, PTL

\* A leader's log holds every entry that any peer of its own or an earlier term has
\* committed: UpToDate keeps everybody else from being elected.
THEOREM LeadersHaveCommitted == Spec => []LeaderCompleteness
<1>1. ASSUME RaftInv PROVE LeaderCompleteness
  <2>1. PICK h : Reached(h)
    BY <1>1, RaftInvReached
  <2>2. TypeOK /\ HistoryInv(h) /\ h \in History
    BY <2>1 DEF Reached, HistoryInv
  <2>3. SUFFICES ASSUME NEW l \in Server, NEW s \in Server, state[l] = "Leader", term[s] =< term[l]
                 PROVE  /\ commitIndex[s] =< LastLogIndex(l)
                        /\ \A i \in Common(l, s) : i =< commitIndex[s] => TermAt(l, i) = TermAt(s, i)
    BY DEF LeaderCompleteness
  <2>4. PICK u : u = term[l]
    OBVIOUS
  <2>5. PICK S : S = h.lastTerm[s]
    OBVIOUS
  <2>6. PICK L : L = h.lastTerm[l]
    OBVIOUS
  <2>7. /\ u \in Nat /\ h.term[l] = u /\ h.lastIndex[l] = LastLogIndex(l) /\ PeerIs(h, l)
        /\ commitIndex[s] \in Nat /\ h.term[s] =< u /\ PeerIs(h, s)
    BY <2>1, <2>3, <2>4, PeerStands
  <2>8. h.winner[u] = l /\ h.winner[u] # Nil /\ h.len[u] = LastLogIndex(l)
        /\ Same(h, L, u, LastLogIndex(l))
    BY <2>3, <2>6, <2>7, RaftAssumption DEF PeerIs, Leads, Holds
  <2>9. commitIndex[s] =< LastLogIndex(l) /\ Same(h, S, u, commitIndex[s])
    <3>1. Committed(h, s, commitIndex[s])
      BY <2>7 DEF PeerIs
    <3> QED BY <2>2, <2>5, <2>7, <2>8, <3>1, CommittedIsContained
  <2>10. ASSUME NEW i \in Common(l, s), i =< commitIndex[s]
         PROVE  TermAt(l, i) = TermAt(s, i)
    <3>1. i \in Nat /\ InLog(l, i) /\ InLog(s, i)
      BY <2>2, CommonIs
    <3>2. TermAt(l, i) = h.entry[L][i].term /\ TermAt(s, i) = h.entry[S][i].term
      BY <2>1, <2>5, <2>6, <3>1, EntryIs
    <3>3. h.entry[S][i] = h.entry[u][i]
      BY <2>7, <2>9, <2>10, <3>1, SameBelow
    <3>4. h.entry[L][i] = h.entry[u][i]
      <4>1. LastLogIndex(l) \in Nat /\ i =< LastLogIndex(l)
        BY <2>2, <3>1, LogFacts DEF InLog
      <4> QED BY <2>8, <3>1, <4>1, SameBelow
    <3> QED BY <3>2, <3>3, <3>4
  <2> QED BY <2>9, <2>10
<1> QED BY <1>1, RaftInvariant, PTL

\* Two peers agree on what both have committed.
LEMMA CommittedAgree ==
  ASSUME NEW h, HistoryInv(h), NEW s \in Server, NEW t \in Server, NEW m \in Nat, NEW n \in Nat,
         Committed(h, s, m), Committed(h, t, n), NEW i \in Nat, i >= 1, i =< m, i =< n
  PROVE  h.entry[h.lastTerm[s]][i] = h.entry[h.lastTerm[t]][i]
<1> DEFINE S == h.lastTerm[s]
           T == h.lastTerm[t]
<1>0. h.term[s] \in Nat /\ h.term[t] \in Nat
  BY HistoryTypes DEF HistoryInv
<1>1. Decided(h, i, S, h.term[s]) /\ Decided(h, i, T, h.term[t])
  BY DecidedBelow DEF Committed
<1>2. PICK a \in 0 .. h.term[s], j \in Nat : j >= i /\ Chosen(h, j, a) /\ Same(h, S, a, i)
  BY <1>1 DEF Decided
<1>3. PICK b \in 0 .. h.term[t], k \in Nat : k >= i /\ Chosen(h, k, b) /\ Same(h, T, b, i)
  BY <1>1 DEF Decided
<1> HIDE DEF S, T
<1>4. a \in Nat /\ b \in Nat
  BY <1>0
<1>5. Same(h, a, b, i)
  BY <1>2, <1>3, <1>4, ChosenAgree
<1>6. h.entry[S][i] = h.entry[a][i] /\ h.entry[T][i] = h.entry[b][i] /\ h.entry[a][i] = h.entry[b][i]
  BY <1>2, <1>3, <1>5, SameBelow
<1> QED BY <1>6 DEF S, T

\* No two services ever ingest different commands at the same index, and what a service
\* holds is what its peer has committed: the check server.go makes of every ApplyMsg
\* never fails.
THEOREM ServicesAgree == Spec => []StateMachineSafety
<1>1. ASSUME RaftInv PROVE StateMachineSafety
  <2>1. PICK h : Reached(h)
    BY <1>1, RaftInvReached
  <2>2. TypeOK /\ IndexOrder /\ ApplierInv /\ HistoryInv(h)
    BY <2>1 DEF Reached
  <2>3. ASSUME NEW s \in Server
        PROVE  /\ commitIndex[s] \in Nat /\ LastLogIndex(s) \in Nat
               /\ commitIndex[s] =< LastLogIndex(s) /\ Committed(h, s, commitIndex[s])
    BY <2>1, <2>2, PeerStands, LogFacts DEF PeerIs
  <2>4. ASSUME NEW s \in Server, NEW t \in Server, NEW i \in 1 .. Min({commitIndex[s], commitIndex[t]})
        PROVE  CommittedCommand(s, i) = CommittedCommand(t, i)
    <3>1. i \in Nat /\ i >= 1 /\ i =< commitIndex[s] /\ i =< commitIndex[t]
      BY <2>3, MinOfTwo
    <3>2. i \in 1 .. LastLogIndex(s) /\ i \in 1 .. LastLogIndex(t)
      BY <2>3, <3>1
    <3>3. h.entry[h.lastTerm[s]][i] = h.entry[h.lastTerm[t]][i]
      BY <2>2, <2>3, <3>1, CommittedAgree
    <3>4. CommittedCommand(s, i) = h.entry[h.lastTerm[s]][i].command
      BY <2>1, <3>2, EntryIs
    <3>5. CommittedCommand(t, i) = h.entry[h.lastTerm[t]][i].command
      BY <2>1, <3>2, EntryIs
    <3> QED BY <3>3, <3>4, <3>5
  <2>5. ASSUME NEW s \in Server, NEW i \in 1 .. Len(applied[s])
        PROVE  applied[s][i] = CommittedCommand(s, i)
    <3>1. Len(applied[s]) \in Nat /\ Len(applied[s]) =< commitIndex[s]
      BY <2>2, ServiceReaches DEF Reaches
    <3>2. i \in 1 .. LastLogIndex(s)
      BY <2>3, <3>1
    <3>3. CommittedCommand(s, i) = h.entry[h.lastTerm[s]][i].command
      BY <2>1, <3>2, EntryIs
    <3>4. Serves(h, s, applied[s], delivering[s], pendingSnapshot[s])
      BY <2>1, PeerStands DEF PeerIs
    <3>5. applied[s][i] = h.entry[h.lastTerm[s]][i].command
      BY <3>4 DEF Serves, Copies
    <3> QED BY <3>3, <3>5
  <2> QED BY <2>4, <2>5 DEF StateMachineSafety
<1> QED BY <1>1, RaftInvariant, PTL

\* What a leader counts as replicated is on the follower's disk, as long as the follower
\* is still in the leader's term: commits rest on nothing that a crash can take away.
THEOREM MatchIndexOnDisk == Spec => []MatchIndexSound
<1>1. ASSUME RaftInv PROVE MatchIndexSound
  <2>1. PICK h : Reached(h)
    BY <1>1, RaftInvReached
  <2>2. TypeOK /\ DurableState /\ HistoryInv(h) /\ h \in History
    BY <2>1 DEF Reached, HistoryInv
  <2>3. SUFFICES ASSUME NEW l \in Server, NEW p \in Server, state[l] = "Leader",
                        disk[p].Term = term[l]
                 PROVE  /\ matchIndex[l][p] =< disk[p].LastIncludedIndex + Len(disk[p].Log) - 1
                        /\ \A i \in Common(l, p) : i =< matchIndex[l][p] =>
                              TermAt(l, i) = disk[p].Log[i - disk[p].LastIncludedIndex + 1].term
    BY DEF MatchIndexSound
  <2>4. /\ disk[p].Term = term[p] /\ disk[p].Log = log[p]
        /\ disk[p].LastIncludedIndex = lastIncludedIndex[p]
    <3>1. disk[p] = [Term |-> term[p], VoteFor |-> voteFor[p], Log |-> log[p],
                     LastIncludedIndex |-> lastIncludedIndex[p],
                     LastIncludedTerm |-> lastIncludedTerm[p], Snapshot |-> snapshot[p]]
      BY <2>2 DEF DurableState
    <3> QED BY <3>1
  <2>5. PICK u : u = term[l]
    OBVIOUS
  <2>6. PICK k : k = h.acked[p][u]
    OBVIOUS
  <2>7. /\ u \in Nat /\ h.term[l] = u /\ h.term[p] = u /\ PeerIs(h, l)
        /\ h.lastIndex[l] = LastLogIndex(l) /\ h.lastIndex[p] = LastLogIndex(p)
        /\ matchIndex[l][p] \in Nat
    BY <2>1, <2>3, <2>4, <2>5, PeerStands
  <2>8. k \in Nat /\ Holds(h, p, u, k)
    BY <2>2, <2>6, <2>7, HistoryTypes DEF HistoryInv, AcksHeld
  <2>9. matchIndex[l][p] =< k /\ Same(h, h.lastTerm[l], u, LastLogIndex(l))
    BY <2>3, <2>6, <2>7 DEF PeerIs, Leads, Holds
  <2>10. k =< LastLogIndex(p) /\ Same(h, h.lastTerm[p], u, k)
    BY <2>7, <2>8 DEF Holds
  <2>11. LastLogIndex(p) \in Nat /\ LastLogIndex(l) \in Nat /\ lastIncludedIndex[p] \in Nat
    BY <2>2, LogFacts
  <2>12. matchIndex[l][p] =< LastLogIndex(p)
    BY <2>7, <2>8, <2>9, <2>10, <2>11
  <2>13. ASSUME NEW i \in Common(l, p), i =< matchIndex[l][p]
         PROVE  TermAt(l, i) = TermAt(p, i)
    <3>1. i \in Nat /\ InLog(l, i) /\ InLog(p, i)
      BY <2>2, CommonIs
    <3>2. i =< k /\ i =< LastLogIndex(l)
      BY <2>7, <2>8, <2>9, <2>11, <2>13, <3>1 DEF InLog
    <3>3. h.entry[h.lastTerm[l]][i] = h.entry[u][i]
      BY <2>9, <2>11, <3>1, <3>2, SameBelow
    <3>4. h.entry[h.lastTerm[p]][i] = h.entry[u][i]
      BY <2>8, <2>10, <3>1, <3>2, SameBelow
    <3>5. TermAt(l, i) = h.entry[h.lastTerm[l]][i].term
      BY <2>1, <3>1, EntryIs
    <3>6. TermAt(p, i) = h.entry[h.lastTerm[p]][i].term
      BY <2>1, <3>1, EntryIs
    <3> QED BY <3>3, <3>4, <3>5, <3>6
  <2> QED BY <2>4, <2>12, <2>13 DEF LastLogIndex, TermAt, SliceIndex
<1> QED BY <1>1, RaftInvariant, PTL

\* The cursor after a refusal, where the follower's answer points below the refused probe ...
LEMMA ProbeMovesDown ==
  ASSUME NEW m \in Nat, NEW n \in Nat, NEW prev \in Nat, prev >= 1, NEW back \in Int, back =< prev
  PROVE  Max({m + 1, Min({n + 1, Max({1, back})})}) # prev + 1 \/ m = prev
<1> DEFINE x == Max({1, back})
           y == Min({n + 1, x})
<1>1. x \in Int /\ x =< prev
  BY MaxOfTwo
<1> HIDE DEF x
<1>2. y \in Int /\ y =< prev
  BY <1>1, MinOfTwo
<1> HIDE DEF y
<1>3. Max({m + 1, y}) = IF m + 1 >= y THEN m + 1 ELSE y
  BY <1>2, MaxOfTwo
<1>4. Max({m + 1, y}) # prev + 1 \/ m = prev
  BY <1>2, <1>3
<1> QED BY <1>4 DEF y, x

\* ... and where it points above it, into the leader's log.
LEMMA ProbeMovesUp ==
  ASSUME NEW m \in Nat, NEW n \in Nat, NEW prev \in Nat, NEW back \in Int,
         back > prev + 1, back =< n + 1
  PROVE  Max({m + 1, Min({n + 1, Max({1, back})})}) # prev + 1
<1> DEFINE x == Max({1, back})
           y == Min({n + 1, x})
<1>1. x = back
  BY MaxOfTwo
<1> HIDE DEF x
<1>2. y = back
  BY <1>1, MinOfTwo
<1> HIDE DEF y
<1>3. Max({m + 1, y}) = IF m + 1 >= y THEN m + 1 ELSE y
  BY <1>2, MaxOfTwo
<1>4. Max({m + 1, y}) # prev + 1
  BY <1>2, <1>3
<1> QED BY <1>4 DEF y, x

\* After a refusal replicateToPeer() never probes the same index again unless the peer is
\* known to hold what comes before it, so the retry without a pause goes on to something new.
THEOREM RefusalsMoveOn == Spec => []RejectionMovesOn
<1>1. ASSUME RaftInv PROVE RejectionMovesOn
  <2>1. PICK h : Reached(h)
    BY <1>1, RaftInvReached
  <2>2. TypeOK /\ HistoryInv(h) /\ h \in History
    BY <2>1 DEF Reached, HistoryInv
  <2>3. SUFFICES ASSUME NEW c \in appendCalls, c.phase = "answered", ~c.reply.Success,
                        c.reply.Term =< term[c.from], state[c.from] = "Leader",
                        term[c.from] = c.Term
                 PROVE  \/ NextAfterReject(c.from, c.to, c.reply) # c.PrevLogIndex + 1
                        \/ matchIndex[c.from][c.to] = c.PrevLogIndex
    BY DEF RejectionMovesOn
  <2>4. PICK s \in Server, p \in Server, u \in Nat, prev \in Nat, r \in AppendEntriesReply :
           s = c.from /\ p = c.to /\ u = c.Term /\ prev = c.PrevLogIndex /\ r = c.reply
    BY <2>2 DEF TypeOK, AppendEntriesCall
  <2>5. /\ prev + Len(c.Entries) =< h.len[u] /\ Len(c.Entries) \in Nat
        /\ c.PrevlogTerm = h.entry[u][prev].term /\ RejectIs(h, c)
    <3>1. AppendCallIs(h, c)
      BY <2>1 DEF Reached, StateIs
    <3>2. c.Entries \in Seq(LogEntry)
      BY <2>2 DEF TypeOK, AppendEntriesCall
    <3>3. Len(c.Entries) \in Nat
      BY <3>2, LenProperties
    <3> QED BY <2>3, <2>4, <3>1, <3>3 DEF AppendCallIs
  <2>6. PICK n : n = LastLogIndex(s)
    OBVIOUS
  <2>7. PICK m : m = matchIndex[s][p]
    OBVIOUS
  <2>8. PICK back : back = BackUp(s, r)
    OBVIOUS
  <2>9. n \in Nat /\ m \in Nat /\ back \in Int
    BY <2>2, <2>6, <2>7, <2>8, LogFacts, BackUpType DEF TypeOK
  <2>10. /\ h.len[u] = n
         /\ \A i : InLog(s, i) => TermAt(s, i) = h.entry[u][i].term
    <3>1. PeerIs(h, s) /\ h.term[s] = u /\ h.lastIndex[s] = n
      BY <2>1, <2>3, <2>4, <2>6, PeerStands
    <3>2. h.len[u] = n /\ Same(h, h.lastTerm[s], u, n)
      BY <2>3, <2>4, <3>1 DEF PeerIs, Leads, Holds
    <3>3. ASSUME NEW i, InLog(s, i) PROVE TermAt(s, i) = h.entry[u][i].term
      <4>1. TermAt(s, i) = h.entry[h.lastTerm[s]][i].term
        BY <2>1, <3>3, EntryIs
      <4>2. i \in Nat /\ i =< n
        BY <2>2, <2>6, <3>3, LogFacts DEF InLog
      <4>3. h.entry[h.lastTerm[s]][i] = h.entry[u][i]
        BY <2>9, <3>2, <4>2, SameBelow
      <4> QED BY <4>1, <4>3
    <3> QED BY <3>2, <3>3
  <2>11. SUFFICES Max({m + 1, Min({n + 1, Max({1, back})})}) # prev + 1 \/ m = prev
    BY <2>4, <2>6, <2>7, <2>8 DEF NextAfterReject
  <2>12. prev =< n
    BY <2>5, <2>9, <2>10
  <2>13. CASE r.XTerm = -1 /\ prev >= 1 /\ r.XLen =< prev
    <3>1. back = r.XLen
      BY <2>8, <2>13 DEF BackUp
    <3> QED BY <2>9, <2>13, <3>1, ProbeMovesDown
  <2>14. CASE r.XTerm = -1 /\ r.XLen > prev + 1 /\ r.XLen =< n + 1
    <3>1. back = r.XLen
      BY <2>8, <2>14 DEF BackUp
    <3> QED BY <2>9, <2>14, <3>1, ProbeMovesUp
  <2>15. CASE r.XTerm # -1 /\ r.XTerm # c.PrevlogTerm /\ prev >= 1 /\ r.XIndex =< prev
    <3> DEFINE hits == {i \in lastIncludedIndex[s] .. LastLogIndex(s) : TermAt(s, i) = r.XTerm}
    <3>1. back = IF hits # {} THEN Max(hits) + 1 ELSE r.XIndex
      BY <2>8, <2>15 DEF BackUp
    <3>2. CASE hits = {}
      <4>1. back =< prev
        BY <2>15, <3>1, <3>2
      <4> QED BY <2>9, <2>15, <4>1, ProbeMovesDown
    <3>3. CASE hits # {}
      <4>1. lastIncludedIndex[s] \in Int /\ n \in Int /\ hits \subseteq lastIncludedIndex[s] .. n
        BY <2>2, <2>6, <2>9, LogFacts
      <4>2. Max(hits) \in hits
        <5> HIDE DEF hits
        <5> QED BY <3>3, <4>1, MaxIsGreatest
      <4>3. PICK x : x = Max(hits)
        OBVIOUS
      <4>4. x \in lastIncludedIndex[s] .. n /\ InLog(s, x) /\ TermAt(s, x) = r.XTerm
        BY <2>6, <4>2, <4>3 DEF InLog
      <4>5. x # prev
        BY <2>5, <2>10, <2>15, <4>4
      <4>6. x \in Int /\ x =< n /\ back = x + 1
        BY <3>1, <3>3, <4>1, <4>3, <4>4
      <4>7. CASE x < prev
        <5>1. back =< prev
          BY <4>6, <4>7
        <5> QED BY <2>9, <2>15, <5>1, ProbeMovesDown
      <4>8. CASE x > prev
        <5>1. back > prev + 1 /\ back =< n + 1
          BY <2>9, <4>6, <4>8
        <5> QED BY <2>9, <5>1, ProbeMovesUp
      <4> QED BY <4>5, <4>6, <4>7, <4>8
    <3> QED BY <3>2, <3>3
  <2> QED BY <2>4, <2>5, <2>10, <2>13, <2>14, <2>15 DEF RejectIs
<1> QED BY <1>1, RaftInvariant, PTL

\* A step that changes a log takes no commit index back; only a restart does that.
LEMMA LogOrCommit ==
  ASSUME TypeOK, TypeOK', DurableState, [Next]_vars
  PROVE  \/ UNCHANGED <<log, lastIncludedIndex>>
         \/ \A p \in Server : commitIndex'[p] >= commitIndex[p]
<1>0. \A p \in Server : commitIndex[p] \in Nat /\ commitIndex'[p] \in Nat
  BY DEF TypeOK
<1>1. ASSUME NEW s \in Server, NEW command \in Command, Start(s, command)
      PROVE  \A p \in Server : commitIndex'[p] >= commitIndex[p]
  <2>1. log'[s] \in LogType
    BY DEF TypeOK
  <2> QED BY <1>1, <2>1, AdvanceCommitIndexGrows DEF Start
<1>2. ASSUME NEW c \in appendCalls, AppendEntries(c)
      PROVE  \A p \in Server : commitIndex'[p] >= commitIndex[p]
  <2> DEFINE s == c.to
  <2>1. s \in Server
    BY DEF TypeOK, AppendEntriesCall
  <2>2. PICK n : \/ n > commitIndex[s] /\ commitIndex' = [commitIndex EXCEPT ![s] = n]
                 \/ UNCHANGED commitIndex
    BY <1>2 DEF AppendEntries
  <2> HIDE DEF s
  <2>3. CASE UNCHANGED commitIndex
    BY <1>0, <2>3
  <2>4. CASE n > commitIndex[s] /\ commitIndex' = [commitIndex EXCEPT ![s] = n]
    <3>1. commitIndex'[s] = n /\ \A p \in Server \ {s} : commitIndex'[p] = commitIndex[p]
      BY <2>1, <2>4 DEF TypeOK
    <3>2. commitIndex'[s] >= commitIndex[s]
      BY <1>0, <2>1, <2>4, <3>1
    <3> QED BY <1>0, <3>1, <3>2
  <2> QED BY <2>2, <2>3, <2>4
<1>3. ASSUME NEW c \in snapCalls, InstallSnapshot(c)
      PROVE  \A p \in Server : commitIndex'[p] >= commitIndex[p]
  <2> DEFINE s == c.to
             i == c.LastIncludedIndex
  <2>1. s \in Server /\ i \in Nat
    BY DEF TypeOK, InstallSnapshotCall
  <2>2. \/ i > commitIndex[s] /\ commitIndex' = [commitIndex EXCEPT ![s] = i]
        \/ UNCHANGED commitIndex
    BY <1>3 DEF InstallSnapshot, Installs
  <2> HIDE DEF s, i
  <2>3. CASE UNCHANGED commitIndex
    BY <1>0, <2>3
  <2>4. CASE i > commitIndex[s] /\ commitIndex' = [commitIndex EXCEPT ![s] = i]
    <3>1. commitIndex'[s] = i /\ \A p \in Server \ {s} : commitIndex'[p] = commitIndex[p]
      BY <2>1, <2>4 DEF TypeOK
    <3>2. commitIndex'[s] >= commitIndex[s]
      BY <1>0, <2>1, <2>4, <3>1
    <3> QED BY <1>0, <3>1, <3>2
  <2> QED BY <2>2, <2>3, <2>4
<1>4. ASSUME NEW s \in Server, Snapshot(s)
      PROVE  \A p \in Server : commitIndex'[p] >= commitIndex[p]
  BY <1>0, <1>4 DEF Snapshot
<1>5. ASSUME NEW s \in Crashing, Restart(s) PROVE UNCHANGED <<log, lastIncludedIndex>>
  BY <1>5, RestartKeeps, RaftAssumption DEF persistentVars
<1>6. ASSUME NEW c \in voteCalls, RequestVote(c) \/ HandleVoteReply(c) \/ VoteCallFails(c)
      PROVE  UNCHANGED <<log, lastIncludedIndex>>
  BY <1>6 DEF RequestVote, HandleVoteReply, StepDown, VoteCallFails, persistentVars
<1>7. ASSUME NEW c \in appendCalls, HandleAppendReply(c) \/ AppendCallFails(c)
      PROVE  UNCHANGED <<log, lastIncludedIndex>>
  BY <1>7 DEF HandleAppendReply, StepDown, AppendCallFails, persistentVars
<1>8. ASSUME NEW c \in snapCalls, HandleSnapReply(c) \/ SnapCallFails(c)
      PROVE  UNCHANGED <<log, lastIncludedIndex>>
  BY <1>8 DEF HandleSnapReply, StepDown, SnapCallFails, persistentVars
<1>9. ASSUME NEW s, StartElection(s) \/ ApplierWait(s) \/ ApplierTakeSnapshot(s)
                    \/ ApplierTakeEntries(s) \/ Deliver(s)
      PROVE  UNCHANGED <<log, lastIncludedIndex>>
  BY <1>9 DEF StartElection, ApplierWait, ApplierTakeSnapshot, ApplierTakeEntries, Deliver,
              persistentVars
<1>10. ASSUME NEW s, NEW p, NEW g, ReplicateEntries(s, p, g) \/ ReplicateSnapshot(s, p, g)
       PROVE  UNCHANGED <<log, lastIncludedIndex>>
  BY <1>10 DEF ReplicateEntries, ReplicateSnapshot, persistentVars
<1>11. UNCHANGED vars => UNCHANGED <<log, lastIncludedIndex>>
  BY DEF vars, persistentVars
<1> QED BY <1>1, <1>2, <1>3, <1>4, <1>5, <1>6, <1>7, <1>8, <1>9, <1>10, <1>11 DEF Next

LEMMA NextCommittedStays ==
  ASSUME RaftInv, RaftInv', [Next]_vars, NEW s \in Server,
         NEW i \in lastIncludedIndex[s] + 1 .. commitIndex[s], i > lastIncludedIndex'[s]
  PROVE  /\ i =< lastIncludedIndex'[s] + Len(log'[s]) - 1
         /\ log'[s][i - lastIncludedIndex'[s] + 1] = log[s][SliceIndex(s, i)]
<1>1. PICK h : Reached(h) /\ Explained(h)
  <2>1. PICK h : Reached(h)
    BY RaftInvReached
  <2>2. Explained(h)
    BY <2>1 DEF Explained, Reached, RaftInv, DurableInv
  <2> QED BY <2>1, <2>2
<1>2. TypeOK /\ TypeOK' /\ DurableState
  BY <1>1 DEF Explained
<1> DEFINE b == lastIncludedIndex[s]
           b2 == lastIncludedIndex'[s]
           m == commitIndex[s]
           n == LastLogIndex(s)
<1>3. b \in Nat /\ b2 \in Nat /\ m \in Nat /\ n \in Nat /\ m =< n /\ h.lastIndex[s] = n
      /\ Len(log[s]) \in Nat /\ n = b + Len(log[s]) - 1
  BY <1>1, <1>2, PeerStands, LogFacts DEF TypeOK
<1>4. i \in Nat /\ i =< m /\ i \in b + 1 .. n /\ i > b2
  BY <1>3
<1>5. log[s][SliceIndex(s, i)] = h.entry[h.lastTerm[s]][i] /\ SliceIndex(s, i) = i - b + 1
  BY <1>1, <1>4, EntryIs DEF SliceIndex
<1>6. CASE UNCHANGED <<log, lastIncludedIndex>>
  BY <1>3, <1>4, <1>5, <1>6
<1>7. CASE \A p \in Server : commitIndex'[p] >= commitIndex[p]
  <2>1. PICK g : HistoryInv(g) /\ Keeps(h, g) /\ StateIs(g)'
    BY <1>1, NextSafe DEF SafeStep
  <2>2. PeerIs(g, s)'
    BY <2>1 DEF StateIs
  <2>3. /\ IsLog(g, s, log'[s], b2, snapshot'[s]) /\ commitIndex'[s] =< g.lastIndex[s]
    BY <2>2 DEF PeerIs, Committed
  <2>4. commitIndex'[s] \in Nat /\ g.lastIndex[s] \in Nat /\ Len(log'[s]) \in Nat
    <3>1. log'[s] \in Seq(LogEntry)
      BY <1>2 DEF TypeOK, LogType
    <3> QED BY <1>2, <2>1, <3>1, HistoryTypes DEF TypeOK, HistoryInv
  <2>5. i \in b2 + 1 .. g.lastIndex[s]
    BY <1>3, <1>4, <1>7, <2>3, <2>4
  <2>6. log'[s][i - b2 + 1] = g.entry[g.lastTerm[s]][i]
    BY <2>3, <2>5 DEF IsLog
  <2>7. g.lastIndex[s] = b2 + Len(log'[s]) - 1
    BY <2>3 DEF IsLog
  <2>8. g.entry[g.lastTerm[s]][i] = h.entry[h.lastTerm[s]][i]
    <3>1. KeepsLog(h, g, s, m)
      BY <2>1 DEF Keeps
    <3>2. i \in 0 .. m
      BY <1>3, <1>4
    <3> QED BY <3>1, <3>2 DEF KeepsLog
  <2> HIDE DEF b2
  <2>9. i =< b2 + Len(log'[s]) - 1
    BY <1>3, <2>4, <2>5, <2>7
  <2>10. log'[s][i - b2 + 1] = log[s][SliceIndex(s, i)]
    BY <1>5, <2>6, <2>8
  <2> QED BY <2>9, <2>10 DEF b2
<1> QED BY <1>2, <1>6, <1>7, LogOrCommit

\* No step of any peer, not even a crash, cuts from a log or replaces in it an entry the
\* peer has committed: it stays until a snapshot covers it.
THEOREM CommittedIsKept == Spec => CommittedStays
<1> DEFINE Kept == \A s \in Server : \A i \in lastIncludedIndex[s] + 1 .. commitIndex[s] :
                      i > lastIncludedIndex'[s] =>
                        /\ i =< lastIncludedIndex'[s] + Len(log'[s]) - 1
                        /\ log'[s][i - lastIncludedIndex'[s] + 1] = log[s][SliceIndex(s, i)]
<1>1. RaftInv /\ RaftInv' /\ [Next]_vars => [Kept]_vars
  BY NextCommittedStays
<1> QED BY <1>1, RaftInvariant, PTL DEF Spec, CommittedStays

=============================================================================

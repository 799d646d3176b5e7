------------------------- MODULE RaftHistoryProofs -------------------------
(***************************************************************************)
(* The argument behind Raft's log safety, free of the state of raft.go: a  *)
(* history h records what every leader's log was and who acknowledged how  *)
(* much of it, and four kinds of steps extend it.                          *)
(*   h.winner[t]     who won term t, or Nil                                *)
(*   h.entry[t][i]   the entry at index i of the log of term t's leader    *)
(*   h.len[t]        the last index of that log                            *)
(*   h.acked[p][t]   the last index of that log p has acknowledged         *)
(*   h.term[p]       the term p is in                                      *)
(*   h.lastIndex[p], h.lastTerm[p]   index and term of p's last entry:     *)
(*                   p's log is the log of term lastTerm[p], cut there     *)
(***************************************************************************)
EXTENDS RaftProofs

History == [winner: [Nat -> Server \cup {Nil}], entry: [Nat -> [Nat -> LogEntry]],
            len: [Nat -> Nat], acked: [Server -> [Nat -> Nat]], term: [Server -> Nat],
            lastIndex: [Server -> Nat], lastTerm: [Server -> Nat]]

\* The leaders' logs of terms t and u are the same up to index k.
Same(h, t, u, k) == \A j \in 0 .. k : h.entry[t][j] = h.entry[u][j]

\* The leader of term t has appended an entry of its own at index i.
Own(h, i, t) == i >= 1 /\ i =< h.len[t] /\ h.entry[t][i].term = t

\* The log of term u holds what the log of term t holds up to index i.
Contains(h, u, i, t) == i =< h.len[t] /\ i =< h.len[u] /\ Same(h, u, t, i)

\* Peer p holds the log of term t up to index k.
Holds(h, p, t, k) == k =< h.lastIndex[p] /\ k =< h.len[t] /\ Same(h, h.lastTerm[p], t, k)

Majorities == {Q \in SUBSET Server : Cardinality(Q) >= Majority}

\* A majority has moved on from term t without acknowledging its index i.
Abandoned(h, i, t) == \E Q \in Majorities : \A p \in Q : h.term[p] > t /\ h.acked[p][t] < i

\* The leader of term t has an entry of its own at i, and a majority has acknowledged it.
Chosen(h, i, t) == Own(h, i, t) /\ \E Q \in Majorities : \A p \in Q : h.acked[p][t] >= i

-----------------------------------------------------------------------------
(* THE INVARIANT OF HISTORIES *)

\* All logs start with the dummy entry, nobody appends before an election, and the log
\* up to an entry of term u is what the leader of term u had.
LogsConsistent(h) ==
    /\ \A t \in Nat : h.entry[t][0] = Dummy
    /\ \A t \in Nat : h.winner[t] = Nil => h.len[t] = 0
    /\ \A t \in Nat, i \in Nat : i =< h.len[t] =>
          LET u == h.entry[t][i].term
          IN  u =< t /\ i =< h.len[u] /\ Same(h, u, t, i)

\* Every peer's log is some leader's, up to an entry of that leader.
PeersConsistent(h) ==
    \A p \in Server :
        /\ h.lastTerm[p] =< h.term[p]
        /\ h.lastIndex[p] =< h.len[h.lastTerm[p]]
        /\ h.entry[h.lastTerm[p]][h.lastIndex[p]].term = h.lastTerm[p]

\* A peer acknowledges what there is, in the term it is in, and holds it while it stays
\* in that term.
AcksHeld(h) ==
    \A p \in Server :
        /\ \A t \in Nat : /\ h.acked[p][t] =< h.len[t]
                          /\ h.acked[p][t] > 0 => t =< h.term[p]
        /\ Holds(h, p, h.term[p], h.acked[p][h.term[p]])

\* What a peer has acknowledged and may be chosen it never gives up.
AcksKept(h) ==
    \A p \in Server, t \in Nat, i \in Nat :
        Own(h, i, t) /\ i =< h.acked[p][t] => Holds(h, p, t, i) \/ Abandoned(h, i, t)

\* A later leader has what may have been chosen before, and what it does not have can
\* never be chosen any more.
LeadersComplete(h) ==
    \A t, u \in Nat, i \in Nat :
        /\ t < u /\ h.winner[u] # Nil
        /\ i >= 1 /\ (i > h.len[t] \/ Own(h, i, t))
        => Contains(h, u, i, t) \/ Abandoned(h, i, t)

HistoryInv(h) ==
    /\ h \in History
    /\ LogsConsistent(h)
    /\ PeersConsistent(h)
    /\ AcksHeld(h)
    /\ AcksKept(h)
    /\ LeadersComplete(h)

-----------------------------------------------------------------------------
(* THE STEPS OF HISTORIES *)

\* Some peers move to later terms.
TermsGrow(h, g) ==
    /\ g.winner = h.winner /\ g.entry = h.entry /\ g.len = h.len /\ g.acked = h.acked
    /\ g.lastIndex = h.lastIndex /\ g.lastTerm = h.lastTerm
    /\ \A p \in Server : g.term[p] >= h.term[p]

\* Peer s wins term u with the log it has.
Elect(h, g, s, u) ==
    /\ g.winner = [h.winner EXCEPT ![u] = s]
    /\ g.entry = [h.entry EXCEPT ![u] = h.entry[h.lastTerm[s]]]
    /\ g.len = [h.len EXCEPT ![u] = h.lastIndex[s]]
    /\ g.acked = [h.acked EXCEPT ![s] = [h.acked[s] EXCEPT ![u] = h.lastIndex[s]]]
    /\ g.term = h.term /\ g.lastIndex = h.lastIndex /\ g.lastTerm = h.lastTerm

\* The leader of term u appends an entry of its own; nobody has it yet.
Extend(h, g, u, e) ==
    /\ g.entry = [h.entry EXCEPT ![u] = [h.entry[u] EXCEPT ![h.len[u] + 1] = e]]
    /\ g.len = [h.len EXCEPT ![u] = h.len[u] + 1]
    /\ g.winner = h.winner /\ g.acked = h.acked /\ g.term = h.term
    /\ g.lastIndex = h.lastIndex /\ g.lastTerm = h.lastTerm

\* Peer s, in term u or moving there, acknowledges the log of term u up to index k: it
\* keeps its own log if that agrees at k, and takes the leader's otherwise.
Agrees(h, s, u, k) ==
    k =< h.lastIndex[s] /\ h.entry[h.lastTerm[s]][k].term = h.entry[u][k].term

Adopt(h, g, s, u, k) ==
    /\ g.winner = h.winner /\ g.entry = h.entry /\ g.len = h.len
    /\ g.term = [h.term EXCEPT ![s] = u]
    /\ g.acked = [h.acked EXCEPT ![s] = [h.acked[s] EXCEPT ![u] =
                    IF h.acked[s][u] >= k THEN h.acked[s][u] ELSE k]]
    /\ g.lastIndex = [h.lastIndex EXCEPT ![s] = IF Agrees(h, s, u, k) THEN h.lastIndex[s] ELSE k]
    /\ g.lastTerm = [h.lastTerm EXCEPT ![s] =
                       IF Agrees(h, s, u, k) THEN h.lastTerm[s] ELSE h.entry[u][k].term]

\* Everything a step leaves as it was: logs only grow, and so do terms and
\* acknowledgements, those of a term that has been left excepted.
Grows(h, g) ==
    /\ \A t \in Nat : /\ h.len[t] =< g.len[t]
                      /\ \A i \in 0 .. h.len[t] : g.entry[t][i] = h.entry[t][i]
                      /\ h.winner[t] # Nil => g.winner[t] = h.winner[t]
    /\ \A p \in Server : /\ h.term[p] =< g.term[p]
                         /\ \A t \in Nat : /\ h.acked[p][t] =< g.acked[p][t]
                                           /\ t < h.term[p] => g.acked[p][t] = h.acked[p][t]

-----------------------------------------------------------------------------
(* LOGS THAT ARE THE SAME *)

LEMMA HistoryTypes ==
  ASSUME NEW h \in History
  PROVE  /\ \A t \in Nat : h.len[t] \in Nat /\ h.winner[t] \in Server \cup {Nil}
         /\ \A t \in Nat, i \in Nat : h.entry[t][i] \in LogEntry /\ h.entry[t][i].term \in Nat
         /\ \A p \in Server : /\ h.term[p] \in Nat /\ h.lastIndex[p] \in Nat
                              /\ h.lastTerm[p] \in Nat
         /\ \A p \in Server, t \in Nat : h.acked[p][t] \in Nat
<1>1. /\ h.len \in [Nat -> Nat] /\ h.winner \in [Nat -> Server \cup {Nil}]
      /\ h.entry \in [Nat -> [Nat -> LogEntry]] /\ h.acked \in [Server -> [Nat -> Nat]]
      /\ h.term \in [Server -> Nat] /\ h.lastIndex \in [Server -> Nat]
      /\ h.lastTerm \in [Server -> Nat]
  BY DEF History
<1>2. \A t \in Nat, i \in Nat : h.entry[t][i] \in LogEntry
  BY <1>1
<1>3. \A e \in LogEntry : e.term \in Nat
  BY DEF LogEntry
<1>4. \A p \in Server, t \in Nat : h.acked[p][t] \in Nat
  BY <1>1
<1> QED BY <1>1, <1>2, <1>3, <1>4

LEMMA SameIsEquivalence ==
  ASSUME NEW h, NEW t, NEW u, NEW k
  PROVE  /\ Same(h, t, t, k)
         /\ Same(h, t, u, k) => Same(h, u, t, k)
         /\ \A v : Same(h, t, u, k) /\ Same(h, u, v, k) => Same(h, t, v, k)
BY DEF Same

LEMMA SameBelow ==
  ASSUME NEW h, NEW t, NEW u, NEW k \in Nat, NEW j \in Nat, j =< k, Same(h, t, u, k)
  PROVE  Same(h, t, u, j) /\ h.entry[t][j] = h.entry[u][j]
BY DEF Same

\* Two leaders' logs with the same term at an index are the same up to there.
LEMMA LogsMatch ==
  ASSUME NEW h \in History, LogsConsistent(h), NEW t \in Nat, NEW u \in Nat, NEW i \in Nat,
         i =< h.len[t], i =< h.len[u], h.entry[t][i].term = h.entry[u][i].term
  PROVE  Same(h, t, u, i)
<1> DEFINE v == h.entry[t][i].term
<1>1. Same(h, v, t, i) /\ Same(h, v, u, i)
  BY DEF LogsConsistent
<1> HIDE DEF v
<1> QED BY <1>1, SameIsEquivalence

\* The terms in a leader's log do not fall.
LEMMA TermsRise ==
  ASSUME NEW h \in History, LogsConsistent(h), NEW t \in Nat, NEW i \in Nat, NEW j \in Nat,
         j =< i, i =< h.len[t]
  PROVE  h.entry[t][j].term =< h.entry[t][i].term
<1> DEFINE u == h.entry[t][i].term
<1>1. u \in Nat /\ h.len[u] \in Nat
  BY HistoryTypes
<1>2. i =< h.len[u] /\ Same(h, u, t, i)
  BY DEF LogsConsistent
<1>3. h.entry[u][j] = h.entry[t][j]
  BY <1>2, SameBelow
<1> HIDE DEF u
<1>4. j =< h.len[u]
  BY <1>1, <1>2
<1>5. h.entry[u][j].term =< u
  BY <1>1, <1>4 DEF LogsConsistent
<1> QED BY <1>3, <1>5 DEF u

\* Index 0 is the same everywhere.
LEMMA SameAtZero ==
  ASSUME NEW h, LogsConsistent(h), NEW t \in Nat, NEW u \in Nat
  PROVE  Same(h, t, u, 0)
BY DEF LogsConsistent, Same

\* A term with an entry beyond the dummy has been won.
LEMMA EntriesHaveWinners ==
  ASSUME NEW h \in History, LogsConsistent(h), NEW t \in Nat, NEW i \in Nat, i >= 1, i =< h.len[t]
  PROVE  h.winner[t] # Nil
BY HistoryTypes DEF LogsConsistent

\* Holding a log up to k is holding it up to anything below.
LEMMA HoldsBelow ==
  ASSUME NEW h \in History, NEW p \in Server, NEW t \in Nat, NEW k \in Nat, NEW j \in Nat, j =< k,
         Holds(h, p, t, k)
  PROVE  Holds(h, p, t, j)
<1>1. h.lastIndex[p] \in Nat /\ h.len[t] \in Nat
  BY HistoryTypes
<1> QED BY <1>1, SameBelow DEF Holds

\* Whoever holds a log that contains another one holds that one as well.
LEMMA HoldsSame ==
  ASSUME NEW h \in History, NEW p \in Server, NEW t \in Nat, NEW u \in Nat, NEW k \in Nat,
         k =< h.len[u], Holds(h, p, t, k), Same(h, t, u, k)
  PROVE  Holds(h, p, u, k)
BY SameIsEquivalence DEF Holds

LEMMA MajoritiesIntersect ==
  ASSUME NEW Q \in Majorities, NEW R \in Majorities
  PROVE  \E p \in Server : p \in Q /\ p \in R
BY MajoritiesMeet DEF Majorities

LEMMA ChosenNotAbandoned ==
  ASSUME NEW h \in History, NEW t \in Nat, NEW i \in Nat, Chosen(h, i, t)
  PROVE  ~Abandoned(h, i, t)
<1>1. SUFFICES ASSUME Abandoned(h, i, t) PROVE FALSE
  OBVIOUS
<1>2. PICK Q \in Majorities : \A p \in Q : h.acked[p][t] >= i
  BY DEF Chosen
<1>3. PICK R \in Majorities : \A p \in R : h.acked[p][t] < i
  BY <1>1 DEF Abandoned
<1>4. PICK p \in Server : p \in Q /\ p \in R
  BY MajoritiesIntersect
<1> QED BY <1>2, <1>3, <1>4, HistoryTypes

\* What is chosen is in the log of every later leader.
LEMMA ChosenIsContained ==
  ASSUME NEW h, HistoryInv(h), NEW t \in Nat, NEW u \in Nat, NEW i \in Nat, t =< u,
         h.winner[u] # Nil, Chosen(h, i, t)
  PROVE  Contains(h, u, i, t)
<1>1. h \in History /\ Own(h, i, t) /\ i >= 1 /\ i =< h.len[t]
  BY DEF HistoryInv, Chosen, Own
<1>2. CASE t = u
  BY <1>1, <1>2, SameIsEquivalence DEF Contains
<1>3. CASE t < u
  BY <1>1, <1>3, ChosenNotAbandoned DEF HistoryInv, LeadersComplete
<1> QED BY <1>2, <1>3

\* Whatever is chosen, in one term or in two, is the same up to where both reach.
LEMMA ChosenAgree ==
  ASSUME NEW h, HistoryInv(h), NEW t \in Nat, NEW u \in Nat, NEW i \in Nat, NEW j \in Nat,
         NEW k \in Nat, k =< i, k =< j, Chosen(h, i, t), Chosen(h, j, u)
  PROVE  Same(h, t, u, k)
<1>1. /\ h \in History /\ LogsConsistent(h)
      /\ i >= 1 /\ i =< h.len[t] /\ j >= 1 /\ j =< h.len[u]
  BY DEF HistoryInv, Chosen, Own
<1>2. h.winner[t] # Nil /\ h.winner[u] # Nil
  BY <1>1, EntriesHaveWinners
<1>3. CASE t =< u
  <2>1. Same(h, u, t, i)
    BY <1>2, <1>3, ChosenIsContained DEF Contains
  <2> QED BY <2>1, SameBelow, SameIsEquivalence
<1>4. CASE u =< t
  <2>1. Same(h, t, u, j)
    BY <1>2, <1>4, ChosenIsContained DEF Contains
  <2> QED BY <2>1, SameBelow
<1> QED BY <1>3, <1>4

\* The heart of the election restriction: a voter p that finds the candidate s up to date
\* has acknowledged nothing that may be chosen and that s does not hold.
LEMMA UpToDateSuffices ==
  ASSUME NEW h, HistoryInv(h), NEW p \in Server, NEW s \in Server,
         \/ h.lastTerm[s] > h.lastTerm[p]
         \/ h.lastTerm[s] = h.lastTerm[p] /\ h.lastIndex[s] >= h.lastIndex[p],
         NEW t \in Nat, NEW i \in Nat, Own(h, i, t), i =< h.acked[p][t]
  PROVE  Holds(h, s, t, i) \/ Abandoned(h, i, t)
<1> DEFINE T == h.lastTerm[p]
           S == h.lastTerm[s]
           n == h.lastIndex[s]
<1>0. /\ h \in History /\ LogsConsistent(h) /\ PeersConsistent(h)
      /\ i >= 1 /\ i =< h.len[t] /\ h.entry[t][i].term = t
  BY DEF HistoryInv, Own
<1>1. /\ T \in Nat /\ S \in Nat /\ n \in Nat /\ h.lastIndex[p] \in Nat
      /\ h.len[T] \in Nat /\ h.len[S] \in Nat
  BY <1>0, HistoryTypes
<1>2. CASE Abandoned(h, i, t)
  BY <1>2
<1>3. CASE ~Abandoned(h, i, t)
  <2>1. i =< h.lastIndex[p] /\ Same(h, T, t, i)
    BY <1>3 DEF HistoryInv, AcksKept, Holds
  <2>2. CASE S = T
    <3>1. i =< n
      BY <1>1, <2>1, <2>2
    <3> QED BY <1>0, <2>1, <2>2, <3>1 DEF Holds
  <2>3. CASE S > T
    <3>1. h.lastIndex[p] =< h.len[T] /\ n =< h.len[S] /\ h.entry[S][n].term = S
      BY <1>0 DEF PeersConsistent
    <3>2. i =< h.len[T] /\ h.entry[T][i].term = t
      BY <1>0, <1>1, <2>1, <3>1, SameBelow
    <3>3. t =< T
      BY <1>0, <1>1, <3>2 DEF LogsConsistent
    <3>4. h.winner[S] # Nil
      <4>1. n # 0
        BY <1>0, <1>1, <2>3, <3>1 DEF LogsConsistent, Dummy
      <4> QED BY <1>0, <1>1, <3>1, <4>1, EntriesHaveWinners
    <3>5. Contains(h, S, i, t)
      BY <1>0, <1>1, <1>3, <2>3, <3>3, <3>4 DEF HistoryInv, LeadersComplete
    <3>6. i =< h.len[S] /\ Same(h, S, t, i) /\ h.entry[S][i].term = t
      BY <1>0, <3>5, SameBelow DEF Contains
    <3>7. i =< n
      <4>1. SUFFICES ASSUME n < i PROVE FALSE
        BY <1>1
      <4>2. h.entry[S][n].term =< h.entry[S][i].term
        BY <1>0, <1>1, <3>6, <4>1, TermsRise
      <4> HIDE DEF S, T, n
      <4> QED BY <1>1, <2>3, <3>1, <3>3, <3>6, <4>2
    <3> QED BY <1>0, <3>6, <3>7 DEF Holds
  <2> QED BY <1>1, <2>2, <2>3
<1> QED BY <1>2, <1>3

-----------------------------------------------------------------------------
(* WHAT STAYS TRUE AS A HISTORY GROWS *)

LEMMA SameStays ==
  ASSUME NEW h \in History, NEW g, Grows(h, g), NEW t \in Nat, NEW u \in Nat, NEW k \in Nat,
         k =< h.len[t], k =< h.len[u]
  PROVE  Same(h, t, u, k) <=> Same(g, t, u, k)
<1>1. h.len[t] \in Nat /\ h.len[u] \in Nat
  BY HistoryTypes
<1>2. \A j \in 0 .. k : g.entry[t][j] = h.entry[t][j] /\ g.entry[u][j] = h.entry[u][j]
  BY <1>1 DEF Grows
<1> QED BY <1>2 DEF Same

LEMMA OwnStays ==
  ASSUME NEW h \in History, NEW g \in History, Grows(h, g), NEW t \in Nat, NEW i \in Nat
  PROVE  /\ Own(h, i, t) => Own(g, i, t)
         /\ Own(g, i, t) /\ i =< h.len[t] => Own(h, i, t)
<1>1. h.len[t] \in Nat /\ g.len[t] \in Nat /\ h.len[t] =< g.len[t]
  BY HistoryTypes DEF Grows
<1>2. i =< h.len[t] => g.entry[t][i] = h.entry[t][i]
  BY <1>1 DEF Grows
<1> QED BY <1>1, <1>2 DEF Own

LEMMA ContainsStays ==
  ASSUME NEW h \in History, NEW g \in History, Grows(h, g), NEW t \in Nat, NEW u \in Nat,
         NEW i \in Nat, Contains(h, u, i, t)
  PROVE  Contains(g, u, i, t)
<1>1. /\ h.len[t] \in Nat /\ g.len[t] \in Nat /\ h.len[t] =< g.len[t]
      /\ h.len[u] \in Nat /\ g.len[u] \in Nat /\ h.len[u] =< g.len[u]
  BY HistoryTypes DEF Grows
<1> QED BY <1>1, SameStays DEF Contains

LEMMA AbandonedStays ==
  ASSUME NEW h \in History, NEW g \in History, Grows(h, g), NEW t \in Nat, NEW i \in Nat,
         Abandoned(h, i, t)
  PROVE  Abandoned(g, i, t)
<1>1. PICK Q \in Majorities : \A p \in Q : h.term[p] > t /\ h.acked[p][t] < i
  BY DEF Abandoned
<1>2. ASSUME NEW p \in Q PROVE g.term[p] > t /\ g.acked[p][t] < i
  <2>1. p \in Server
    BY DEF Majorities
  <2>2. /\ h.term[p] \in Nat /\ g.term[p] \in Nat /\ h.term[p] =< g.term[p]
        /\ g.acked[p][t] = h.acked[p][t]
    BY <1>1, <2>1, HistoryTypes DEF Grows
  <2> QED BY <1>1, <2>2
<1> QED BY <1>2 DEF Abandoned

LEMMA ChosenStays ==
  ASSUME NEW h \in History, NEW g \in History, Grows(h, g), NEW t \in Nat, NEW i \in Nat,
         Chosen(h, i, t)
  PROVE  Chosen(g, i, t)
<1>1. PICK Q \in Majorities : \A p \in Q : h.acked[p][t] >= i
  BY DEF Chosen
<1>2. ASSUME NEW p \in Q PROVE g.acked[p][t] >= i
  <2>1. p \in Server
    BY DEF Majorities
  <2>2. h.acked[p][t] \in Nat /\ g.acked[p][t] \in Nat /\ h.acked[p][t] =< g.acked[p][t]
    BY <2>1, HistoryTypes DEF Grows
  <2> QED BY <1>1, <2>2
<1> QED BY <1>2, OwnStays DEF Chosen

\* A peer whose log does not change holds what it held.
LEMMA HoldsStays ==
  ASSUME NEW h \in History, NEW g \in History, Grows(h, g), PeersConsistent(h), NEW p \in Server,
         g.lastIndex[p] = h.lastIndex[p], g.lastTerm[p] = h.lastTerm[p],
         NEW t \in Nat, NEW k \in Nat, Holds(h, p, t, k)
  PROVE  Holds(g, p, t, k)
<1>1. /\ h.len[t] \in Nat /\ g.len[t] \in Nat /\ h.len[t] =< g.len[t]
      /\ h.lastIndex[p] \in Nat /\ h.lastTerm[p] \in Nat /\ h.len[h.lastTerm[p]] \in Nat
  BY HistoryTypes DEF Grows
<1>2. k =< h.len[h.lastTerm[p]]
  BY <1>1 DEF Holds, PeersConsistent
<1>3. Same(h, h.lastTerm[p], t, k) <=> Same(g, h.lastTerm[p], t, k)
  BY <1>1, <1>2, SameStays DEF Holds
<1> QED BY <1>1, <1>3 DEF Holds

LEMMA GrowsTransitive ==
  ASSUME NEW f \in History, NEW h \in History, NEW g \in History, Grows(f, h), Grows(h, g)
  PROVE  Grows(f, g)
<1>1. ASSUME NEW t \in Nat
      PROVE  /\ f.len[t] =< g.len[t]
             /\ \A i \in 0 .. f.len[t] : g.entry[t][i] = f.entry[t][i]
             /\ f.winner[t] # Nil => g.winner[t] = f.winner[t]
  <2>1. f.len[t] \in Nat /\ h.len[t] \in Nat /\ g.len[t] \in Nat
    BY HistoryTypes
  <2>2. f.len[t] =< h.len[t] /\ h.len[t] =< g.len[t]
    BY DEF Grows
  <2>3. \A i \in 0 .. f.len[t] : i \in 0 .. h.len[t]
    BY <2>1, <2>2
  <2> QED BY <2>1, <2>2, <2>3 DEF Grows
<1>2. ASSUME NEW p \in Server
      PROVE  /\ f.term[p] =< g.term[p]
             /\ \A t \in Nat : /\ f.acked[p][t] =< g.acked[p][t]
                               /\ t < f.term[p] => g.acked[p][t] = f.acked[p][t]
  <2>1. /\ f.term[p] \in Nat /\ h.term[p] \in Nat /\ g.term[p] \in Nat
        /\ f.term[p] =< h.term[p] /\ h.term[p] =< g.term[p]
    BY HistoryTypes DEF Grows
  <2>2. ASSUME NEW t \in Nat
        PROVE  /\ f.acked[p][t] =< g.acked[p][t]
               /\ t < f.term[p] => g.acked[p][t] = f.acked[p][t]
    <3>1. f.acked[p][t] \in Nat /\ h.acked[p][t] \in Nat /\ g.acked[p][t] \in Nat
      BY HistoryTypes
    <3>2. /\ f.acked[p][t] =< h.acked[p][t] /\ h.acked[p][t] =< g.acked[p][t]
          /\ t < f.term[p] => h.acked[p][t] = f.acked[p][t]
          /\ t < h.term[p] => g.acked[p][t] = h.acked[p][t]
      BY DEF Grows
    <3> QED BY <2>1, <3>1, <3>2
  <2> QED BY <2>1, <2>2
<1> QED BY <1>1, <1>2 DEF Grows

-----------------------------------------------------------------------------
(* THE STEPS KEEP THE INVARIANT *)

LEMMA TermsGrowStep ==
  ASSUME NEW h, HistoryInv(h), NEW g \in History, TermsGrow(h, g)
  PROVE  HistoryInv(g) /\ Grows(h, g)
<1>0. /\ h \in History /\ LogsConsistent(h) /\ PeersConsistent(h) /\ AcksHeld(h)
      /\ g.winner = h.winner /\ g.entry = h.entry /\ g.len = h.len /\ g.acked = h.acked
      /\ g.lastIndex = h.lastIndex /\ g.lastTerm = h.lastTerm
      /\ \A p \in Server : g.term[p] >= h.term[p] /\ g.term[p] \in Nat /\ h.term[p] \in Nat
  BY HistoryTypes DEF HistoryInv, TermsGrow
<1>1. Grows(h, g)
  BY <1>0, HistoryTypes DEF Grows
<1>2. \A t, u, k : Same(g, t, u, k) <=> Same(h, t, u, k)
  BY <1>0 DEF Same
<1>3. LogsConsistent(g)
  BY <1>0, <1>2 DEF LogsConsistent
<1>4. PeersConsistent(g)
  <2>1. ASSUME NEW p \in Server PROVE h.lastTerm[p] =< g.term[p]
    <3>1. h.lastTerm[p] \in Nat /\ h.lastTerm[p] =< h.term[p]
      BY <1>0, HistoryTypes DEF PeersConsistent
    <3> QED BY <1>0, <3>1
  <2> QED BY <1>0, <2>1 DEF PeersConsistent
<1>5. \A p, t, k : Holds(g, p, t, k) <=> Holds(h, p, t, k)
  BY <1>0, <1>2 DEF Holds
<1>6. AcksHeld(g)
  <2>1. ASSUME NEW p \in Server, NEW t \in Nat, g.acked[p][t] > 0 PROVE t =< g.term[p]
    <3>1. t =< h.term[p]
      BY <1>0, <2>1 DEF AcksHeld
    <3> QED BY <1>0, <3>1
  <2>2. ASSUME NEW p \in Server PROVE Holds(g, p, g.term[p], g.acked[p][g.term[p]])
    <3>1. CASE g.term[p] = h.term[p]
      BY <1>0, <1>5, <3>1 DEF AcksHeld
    <3>2. CASE g.term[p] # h.term[p]
      <4>1. g.term[p] \in Nat /\ ~(g.term[p] =< h.term[p])
        BY <1>0, <3>2
      <4>2. h.acked[p][g.term[p]] = 0
        <5>1. h.acked[p][g.term[p]] \in Nat
          BY <1>0, <4>1, HistoryTypes
        <5> QED BY <1>0, <4>1, <5>1 DEF AcksHeld
      <4>3. Holds(h, p, g.term[p], 0)
        BY <1>0, <4>1, SameAtZero, HistoryTypes DEF Holds
      <4> QED BY <1>0, <1>5, <4>2, <4>3
    <3> QED BY <3>1, <3>2
  <2> QED BY <1>0, <2>1, <2>2 DEF AcksHeld
<1>7. \A i, t : Own(g, i, t) <=> Own(h, i, t)
  BY <1>0 DEF Own
<1>8. AcksKept(g)
  <2>1. ASSUME NEW p \in Server, NEW t \in Nat, NEW i \in Nat, Own(g, i, t), i =< g.acked[p][t]
        PROVE  Holds(g, p, t, i) \/ Abandoned(g, i, t)
    <3>1. Holds(h, p, t, i) \/ Abandoned(h, i, t)
      BY <1>0, <1>7, <2>1 DEF HistoryInv, AcksKept
    <3> QED BY <1>0, <1>1, <1>5, <3>1, AbandonedStays
  <2> QED BY <2>1 DEF AcksKept
<1>9. LeadersComplete(g)
  <2>1. ASSUME NEW t \in Nat, NEW u \in Nat, NEW i \in Nat, t < u, g.winner[u] # Nil,
               i >= 1, i > g.len[t] \/ Own(g, i, t)
        PROVE  Contains(g, u, i, t) \/ Abandoned(g, i, t)
    <3>1. Contains(h, u, i, t) \/ Abandoned(h, i, t)
      BY <1>0, <1>7, <2>1 DEF HistoryInv, LeadersComplete
    <3> QED BY <1>0, <1>1, <3>1, AbandonedStays, ContainsStays
  <2> QED BY <2>1 DEF LeadersComplete
<1> QED BY <1>1, <1>3, <1>4, <1>6, <1>8, <1>9 DEF HistoryInv

\* Winning an election with the votes of an informed majority.
LEMMA ElectStep ==
  ASSUME NEW h, HistoryInv(h), NEW g \in History, NEW s \in Server, NEW u \in Nat, u >= 1,
         h.term[s] = u, h.winner[u] = Nil, Elect(h, g, s, u),
         NEW Q \in Majorities, \A p \in Q : h.term[p] >= u,
         \A p \in Q, t \in Nat, i \in Nat :
            t < u /\ Own(h, i, t) /\ i =< h.acked[p][t] => Holds(h, s, t, i) \/ Abandoned(h, i, t)
  PROVE  HistoryInv(g) /\ Grows(h, g)
<1> DEFINE T == h.lastTerm[s]
           n == h.lastIndex[s]
<1>0. /\ h \in History /\ LogsConsistent(h) /\ PeersConsistent(h) /\ AcksHeld(h)
      /\ T \in Nat /\ n \in Nat /\ h.len[T] \in Nat /\ h.len[u] = 0
      /\ n =< h.len[T] /\ h.entry[T][n].term = T /\ T =< u
  BY HistoryTypes DEF HistoryInv, LogsConsistent, PeersConsistent
<1>1. T < u
  <2>1. SUFFICES ASSUME T = u PROVE FALSE
    BY <1>0
  <2>2. n = 0 /\ h.entry[u][0].term = 0
    BY <1>0, <2>1 DEF LogsConsistent, Dummy
  <2> QED BY <1>0, <2>1, <2>2
<1>2. /\ g.winner[u] = s /\ g.len[u] = n /\ g.acked[s][u] = n
      /\ \A i \in Nat : g.entry[u][i] = h.entry[T][i]
      /\ \A t \in Nat \ {u} : /\ g.winner[t] = h.winner[t] /\ g.len[t] = h.len[t]
                              /\ g.entry[t] = h.entry[t]
      /\ \A p \in Server, t \in Nat : ~(p = s /\ t = u) => g.acked[p][t] = h.acked[p][t]
      /\ g.term = h.term /\ g.lastIndex = h.lastIndex /\ g.lastTerm = h.lastTerm
  <2>1. /\ h.winner \in [Nat -> Server \cup {Nil}] /\ h.entry \in [Nat -> [Nat -> LogEntry]]
        /\ h.len \in [Nat -> Nat] /\ h.acked \in [Server -> [Nat -> Nat]]
    BY <1>0 DEF History
  <2>2. /\ g.winner = [h.winner EXCEPT ![u] = s] /\ g.entry = [h.entry EXCEPT ![u] = h.entry[T]]
        /\ g.len = [h.len EXCEPT ![u] = n]
        /\ g.acked = [h.acked EXCEPT ![s] = [h.acked[s] EXCEPT ![u] = n]]
        /\ g.term = h.term /\ g.lastIndex = h.lastIndex /\ g.lastTerm = h.lastTerm
    BY DEF Elect
  <2> HIDE DEF T, n
  <2>3. /\ g.acked[s] = [h.acked[s] EXCEPT ![u] = n]
        /\ \A p \in Server \ {s} : g.acked[p] = h.acked[p]
    BY <2>1, <2>2
  <2>4. g.acked[s][u] = n /\ \A t \in Nat \ {u} : g.acked[s][t] = h.acked[s][t]
    BY <2>1, <2>3
  <2>5. /\ g.winner[u] = s /\ g.len[u] = n /\ g.entry[u] = h.entry[T]
        /\ \A t \in Nat \ {u} : /\ g.winner[t] = h.winner[t] /\ g.len[t] = h.len[t]
                                /\ g.entry[t] = h.entry[t]
    BY <2>1, <2>2
  <2>6. \A p \in Server, t \in Nat : ~(p = s /\ t = u) => g.acked[p][t] = h.acked[p][t]
    BY <2>3, <2>4
  <2> QED BY <2>2, <2>4, <2>5, <2>6
<1>3. /\ \A p \in Server : h.acked[p][u] = 0
      /\ \A p \in Server : h.term[p] \in Nat
  <2>1. \A p \in Server : h.acked[p][u] \in Nat /\ h.acked[p][u] =< h.len[u]
    BY <1>0, HistoryTypes DEF AcksHeld
  <2> QED BY <1>0, <2>1, HistoryTypes
<1> HIDE DEF T, n
<1>4. /\ \A t \in Nat : g.entry[t][0] = Dummy
      /\ \A t \in Nat \ {u}, i \in Nat : g.entry[t][i] = h.entry[t][i]
  BY <1>0, <1>2 DEF LogsConsistent
<1>5. Grows(h, g)
  <2>1. ASSUME NEW t \in Nat
        PROVE  /\ h.len[t] =< g.len[t]
               /\ \A i \in 0 .. h.len[t] : g.entry[t][i] = h.entry[t][i]
               /\ h.winner[t] # Nil => g.winner[t] = h.winner[t]
    <3>1. CASE t = u
      BY <1>0, <1>2, <1>4, <3>1 DEF LogsConsistent
    <3>2. CASE t # u
      <4>1. t \in Nat \ {u} /\ h.len[t] \in Nat
        BY <1>0, <3>2, HistoryTypes
      <4>2. g.winner[t] = h.winner[t] /\ g.len[t] = h.len[t] /\ g.entry[t] = h.entry[t]
        BY <1>2, <4>1
      <4> QED BY <4>1, <4>2
    <3> QED BY <3>1, <3>2
  <2>2. ASSUME NEW p \in Server, NEW t \in Nat
        PROVE  h.acked[p][t] =< g.acked[p][t] /\ (t < h.term[p] => g.acked[p][t] = h.acked[p][t])
    <3>1. CASE p = s /\ t = u
      BY <1>0, <1>2, <1>3, <3>1
    <3>2. CASE ~(p = s /\ t = u)
      BY <1>0, <1>2, <3>2, HistoryTypes
    <3> QED BY <3>1, <3>2
  <2> QED BY <1>2, <1>3, <2>1, <2>2 DEF Grows
<1>6. ASSUME NEW t \in Nat, NEW k \in Nat, k =< n, k =< h.len[t], t # u
      PROVE  Same(g, u, t, k) <=> Same(h, T, t, k)
  BY <1>0, <1>2, <1>4, <1>6 DEF Same
<1>7. LogsConsistent(g)
  <2>1. \A t \in Nat : g.winner[t] = Nil => g.len[t] = 0
    BY <1>0, <1>2, RaftAssumption DEF LogsConsistent
  <2>2. ASSUME NEW t \in Nat, NEW i \in Nat, i =< g.len[t]
        PROVE  LET v == g.entry[t][i].term
               IN  v =< t /\ i =< g.len[v] /\ Same(g, v, t, i)
    <3>1. CASE t = u
      <4> DEFINE v == h.entry[T][i].term
      <4>1. g.entry[t][i].term = v /\ i =< n /\ i =< h.len[T]
        BY <1>0, <1>2, <2>2, <3>1
      <4>2. v \in Nat /\ v =< T /\ i =< h.len[v] /\ Same(h, v, T, i)
        BY <1>0, <4>1, HistoryTypes DEF LogsConsistent
      <4> HIDE DEF v
      <4>3. v < u
        BY <1>0, <1>1, <4>2
      <4>4. Same(g, u, v, i)
        BY <1>6, <4>1, <4>2, <4>3, SameIsEquivalence
      <4>5. g.len[v] = h.len[v]
        BY <1>2, <4>2, <4>3
      <4> QED BY <3>1, <4>1, <4>2, <4>3, <4>4, <4>5, SameIsEquivalence
    <3>2. CASE t # u
      <4> DEFINE v == h.entry[t][i].term
      <4>1. g.entry[t][i].term = v /\ i =< h.len[t]
        BY <1>2, <2>2, <3>2
      <4>2. v \in Nat /\ v =< t /\ i =< h.len[v] /\ Same(h, v, t, i)
        BY <1>0, <4>1, HistoryTypes DEF LogsConsistent
      <4>3. Same(g, v, t, i)
        BY <1>0, <1>5, <4>1, <4>2, SameStays
      <4>4. i =< g.len[v]
        BY <1>0, <1>2, <4>2
      <4> QED BY <4>1, <4>2, <4>3, <4>4
    <3> QED BY <3>1, <3>2
  <2> QED BY <1>4, <2>1, <2>2 DEF LogsConsistent
<1>8. PeersConsistent(g)
  <2>1. ASSUME NEW p \in Server
        PROVE  /\ h.lastIndex[p] =< g.len[h.lastTerm[p]]
               /\ g.entry[h.lastTerm[p]][h.lastIndex[p]] = h.entry[h.lastTerm[p]][h.lastIndex[p]]
    <3> DEFINE v == h.lastTerm[p]
               m == h.lastIndex[p]
    <3>1. v \in Nat /\ m \in Nat /\ m =< h.len[v] /\ h.len[v] \in Nat /\ g.len[v] \in Nat
      BY <1>0, HistoryTypes DEF PeersConsistent
    <3>2. h.len[v] =< g.len[v] /\ g.entry[v][m] = h.entry[v][m]
      BY <1>5, <3>1 DEF Grows
    <3> QED BY <3>1, <3>2
  <2> QED BY <1>0, <1>2, <2>1 DEF PeersConsistent
<1>9. \A p \in Server, t \in Nat, k \in Nat : Holds(h, p, t, k) => Holds(g, p, t, k)
  BY <1>0, <1>2, <1>5, HoldsStays
<1>10. Holds(g, s, u, n)
  <2>1. Same(g, u, T, n)
    BY <1>0, <1>1, <1>6, SameIsEquivalence
  <2>2. n =< g.len[u] /\ n =< g.lastIndex[s] /\ g.lastTerm[s] = T
    BY <1>0, <1>2 DEF T, n
  <2> QED BY <2>1, <2>2, SameIsEquivalence DEF Holds
<1>11. AcksHeld(g)
  <2>1. ASSUME NEW p \in Server, NEW t \in Nat
        PROVE  g.acked[p][t] =< g.len[t] /\ (g.acked[p][t] > 0 => t =< g.term[p])
    <3>1. CASE t = u
      BY <1>0, <1>2, <1>3, <3>1
    <3>2. CASE t # u
      BY <1>0, <1>2, <3>2 DEF AcksHeld
    <3> QED BY <3>1, <3>2
  <2>2. ASSUME NEW p \in Server PROVE Holds(g, p, g.term[p], g.acked[p][g.term[p]])
    <3>1. CASE p = s
      BY <1>2, <1>10, <3>1
    <3>2. CASE p # s
      <4>1. g.acked[p][g.term[p]] = h.acked[p][h.term[p]] /\ h.acked[p][h.term[p]] \in Nat
        BY <1>0, <1>2, <1>3, <3>2, HistoryTypes
      <4>2. Holds(h, p, h.term[p], h.acked[p][h.term[p]])
        BY <1>0 DEF AcksHeld
      <4> QED BY <1>2, <1>3, <1>9, <4>1, <4>2
    <3> QED BY <3>1, <3>2
  <2> QED BY <2>1, <2>2 DEF AcksHeld
<1>12. ASSUME NEW i \in Nat, NEW t \in Nat, Own(g, i, t) PROVE t # u /\ Own(h, i, t)
  <2>1. t # u
    <3>1. SUFFICES ASSUME t = u PROVE FALSE
      OBVIOUS
    <3>2. i =< n /\ h.entry[T][i].term = u
      BY <1>2, <1>12, <3>1 DEF Own
    <3>3. h.entry[T][i].term =< T
      BY <1>0, <3>2 DEF LogsConsistent
    <3> QED BY <1>0, <1>1, <3>2, <3>3
  <2> QED BY <1>2, <1>12, <2>1 DEF Own
<1>13. AcksKept(g)
  <2>1. ASSUME NEW p \in Server, NEW t \in Nat, NEW i \in Nat, Own(g, i, t), i =< g.acked[p][t]
        PROVE  Holds(g, p, t, i) \/ Abandoned(g, i, t)
    <3>1. t # u /\ Own(h, i, t)
      BY <1>12, <2>1
    <3>2. i =< h.acked[p][t]
      BY <1>2, <2>1, <3>1
    <3>3. Holds(h, p, t, i) \/ Abandoned(h, i, t)
      BY <3>1, <3>2 DEF HistoryInv, AcksKept
    <3> QED BY <1>0, <1>5, <1>9, <3>3, AbandonedStays
  <2> QED BY <2>1 DEF AcksKept
<1>14. LeadersComplete(g)
  <2>1. ASSUME NEW t \in Nat, NEW w \in Nat, NEW i \in Nat, t < w, g.winner[w] # Nil,
               i >= 1, i > g.len[t] \/ Own(g, i, t)
        PROVE  Contains(g, w, i, t) \/ Abandoned(g, i, t)
    <3>1. i > h.len[t] \/ Own(h, i, t)
      <4>1. h.len[t] =< g.len[t] /\ h.len[t] \in Nat /\ g.len[t] \in Nat
        BY <1>0, <1>5, HistoryTypes DEF Grows
      <4> QED BY <1>12, <2>1, <4>1
    <3>2. CASE w # u
      <4>1. Contains(h, w, i, t) \/ Abandoned(h, i, t)
        BY <1>2, <2>1, <3>1, <3>2 DEF HistoryInv, LeadersComplete
      <4> QED BY <1>0, <1>5, <4>1, AbandonedStays, ContainsStays
    <3>3. CASE w = u
      <4>1. CASE \A p \in Q : h.acked[p][t] < i
        <5>1. \A p \in Q : h.term[p] > t
          BY <1>3, <2>1, <3>3 DEF Majorities
        <5>2. Abandoned(h, i, t)
          BY <4>1, <5>1 DEF Abandoned
        <5> QED BY <1>0, <1>5, <5>2, AbandonedStays
      <4>2. ASSUME NEW p \in Q, ~(h.acked[p][t] < i) PROVE Contains(g, w, i, t) \/ Abandoned(g, i, t)
        <5>1. p \in Server
          BY DEF Majorities
        <5>2. i =< h.acked[p][t] /\ h.acked[p][t] =< h.len[t] /\ h.len[t] \in Nat
          BY <1>0, <4>2, <5>1, HistoryTypes DEF AcksHeld
        <5>3. i =< h.len[t]
          <6>1. h.acked[p][t] \in Nat
            BY <1>0, <5>1, HistoryTypes
          <6> QED BY <5>2, <6>1
        <5>4. Own(h, i, t)
          BY <3>1, <5>2, <5>3
        <5>5. Holds(h, s, t, i) \/ Abandoned(h, i, t)
          BY <2>1, <3>3, <5>2, <5>4
        <5>6. CASE Holds(h, s, t, i)
          <6>1. i =< n /\ Same(h, T, t, i)
            BY <5>6 DEF Holds, T, n
          <6>2. Same(g, u, t, i)
            BY <1>6, <2>1, <3>3, <5>3, <6>1
          <6>3. g.len[t] = h.len[t]
            BY <1>2, <2>1, <3>3
          <6> QED BY <1>2, <3>3, <5>3, <6>1, <6>2, <6>3 DEF Contains
        <5> QED BY <1>0, <1>5, <5>5, <5>6, AbandonedStays
      <4> QED BY <4>1, <4>2
    <3> QED BY <3>2, <3>3
  <2> QED BY <2>1 DEF LeadersComplete
<1> QED BY <1>5, <1>7, <1>8, <1>11, <1>13, <1>14 DEF HistoryInv

\* A leader's log gets one more entry of the leader's term.
LEMMA ExtendStep ==
  ASSUME NEW h, HistoryInv(h), NEW g \in History, NEW u \in Nat, u >= 1, h.winner[u] # Nil,
         NEW e \in LogEntry, e.term = u, Extend(h, g, u, e)
  PROVE  HistoryInv(g) /\ Grows(h, g)
<1> DEFINE m == h.len[u] + 1
<1>0. /\ h \in History /\ LogsConsistent(h) /\ PeersConsistent(h) /\ AcksHeld(h)
      /\ h.len[u] \in Nat /\ m \in Nat
  BY HistoryTypes DEF HistoryInv
<1>1. /\ g.len[u] = m /\ g.entry[u][m] = e
      /\ \A i \in Nat \ {m} : g.entry[u][i] = h.entry[u][i]
      /\ \A t \in Nat \ {u} : g.len[t] = h.len[t] /\ g.entry[t] = h.entry[t]
      /\ g.winner = h.winner /\ g.acked = h.acked /\ g.term = h.term
      /\ g.lastIndex = h.lastIndex /\ g.lastTerm = h.lastTerm
  <2>1. h.entry \in [Nat -> [Nat -> LogEntry]] /\ h.len \in [Nat -> Nat]
    BY <1>0 DEF History
  <2>2. /\ g.entry = [h.entry EXCEPT ![u] = [h.entry[u] EXCEPT ![m] = e]]
        /\ g.len = [h.len EXCEPT ![u] = m]
        /\ g.winner = h.winner /\ g.acked = h.acked /\ g.term = h.term
        /\ g.lastIndex = h.lastIndex /\ g.lastTerm = h.lastTerm
    BY DEF Extend
  <2> HIDE DEF m
  <2>3. g.entry[u] = [h.entry[u] EXCEPT ![m] = e]
    BY <2>1, <2>2
  <2>4. g.entry[u][m] = e /\ \A i \in Nat \ {m} : g.entry[u][i] = h.entry[u][i]
    BY <1>0, <2>1, <2>3
  <2> QED BY <2>1, <2>2, <2>4
<1>2. m > h.len[u] /\ m >= 1
  BY <1>0
<1> HIDE DEF m
<1>3. \A t \in Nat, i \in Nat : i =< h.len[t] => g.entry[t][i] = h.entry[t][i]
  <2>1. ASSUME NEW t \in Nat, NEW i \in Nat, i =< h.len[t] PROVE g.entry[t][i] = h.entry[t][i]
    <3>1. CASE t = u
      BY <1>0, <1>1, <1>2, <2>1, <3>1
    <3>2. CASE t # u
      BY <1>1, <3>2
    <3> QED BY <3>1, <3>2
  <2> QED BY <2>1
<1>4. \A t \in Nat : h.len[t] =< g.len[t] /\ h.len[t] \in Nat /\ g.len[t] \in Nat
  BY <1>0, <1>1, <1>2, HistoryTypes
<1>5. Grows(h, g)
  <2>1. \A p \in Server : /\ h.term[p] \in Nat /\ \A t \in Nat : h.acked[p][t] \in Nat
    BY <1>0, HistoryTypes
  <2>2. \A t \in Nat : \A i \in 0 .. h.len[t] : g.entry[t][i] = h.entry[t][i]
    BY <1>3, <1>4
  <2> QED BY <1>1, <1>4, <2>1, <2>2 DEF Grows
<1>6. LogsConsistent(g)
  <2>1. \A t \in Nat : g.entry[t][0] = Dummy
    BY <1>3, <1>4, <1>0 DEF LogsConsistent
  <2>2. \A t \in Nat : g.winner[t] = Nil => g.len[t] = 0
    BY <1>0, <1>1 DEF LogsConsistent
  <2>3. ASSUME NEW t \in Nat, NEW i \in Nat, i =< g.len[t]
        PROVE  LET v == g.entry[t][i].term
               IN  v =< t /\ i =< g.len[v] /\ Same(g, v, t, i)
    <3>1. CASE i =< h.len[t]
      <4> DEFINE v == h.entry[t][i].term
      <4>1. v \in Nat /\ v =< t /\ i =< h.len[v] /\ Same(h, v, t, i)
        BY <1>0, <3>1, HistoryTypes DEF LogsConsistent
      <4>2. Same(g, v, t, i)
        BY <1>0, <1>5, <3>1, <4>1, SameStays
      <4>3. g.entry[t][i].term = v
        BY <1>3, <3>1
      <4> HIDE DEF v
      <4>4. i =< g.len[v]
        BY <1>4, <4>1
      <4> QED BY <4>1, <4>2, <4>3, <4>4
    <3>2. CASE ~(i =< h.len[t])
      <4>1. t = u
        BY <1>1, <2>3, <3>2
      <4>2. i = m
        BY <1>0, <1>1, <2>3, <3>2, <4>1 DEF m
      <4> QED BY <1>0, <1>1, <4>1, <4>2, SameIsEquivalence
    <3> QED BY <3>1, <3>2
  <2> QED BY <2>1, <2>2, <2>3 DEF LogsConsistent
<1>7. PeersConsistent(g)
  <2>1. ASSUME NEW p \in Server
        PROVE  /\ h.lastIndex[p] =< g.len[h.lastTerm[p]]
               /\ g.entry[h.lastTerm[p]][h.lastIndex[p]] = h.entry[h.lastTerm[p]][h.lastIndex[p]]
    <3> DEFINE v == h.lastTerm[p]
               k == h.lastIndex[p]
    <3>1. v \in Nat /\ k \in Nat /\ k =< h.len[v]
      BY <1>0, HistoryTypes DEF PeersConsistent
    <3> HIDE DEF v, k
    <3>2. k =< g.len[v] /\ g.entry[v][k] = h.entry[v][k]
      BY <1>3, <1>4, <3>1
    <3> QED BY <3>2 DEF v, k
  <2> QED BY <1>0, <1>1, <2>1 DEF PeersConsistent
<1>8. \A p \in Server, t \in Nat, k \in Nat : Holds(h, p, t, k) => Holds(g, p, t, k)
  BY <1>0, <1>1, <1>5, <1>7, HoldsStays
<1>9. AcksHeld(g)
  <2>1. ASSUME NEW p \in Server, NEW t \in Nat PROVE h.acked[p][t] =< g.len[t]
    <3>1. h.acked[p][t] \in Nat /\ h.acked[p][t] =< h.len[t]
      BY <1>0, HistoryTypes DEF AcksHeld
    <3> QED BY <1>4, <3>1
  <2>2. ASSUME NEW p \in Server PROVE Holds(g, p, h.term[p], h.acked[p][h.term[p]])
    <3>1. h.term[p] \in Nat /\ h.acked[p][h.term[p]] \in Nat
      BY <1>0, HistoryTypes
    <3> QED BY <1>0, <1>8, <3>1 DEF AcksHeld
  <2> QED BY <1>0, <1>1, <2>1, <2>2 DEF AcksHeld
<1>10. AcksKept(g)
  <2>1. ASSUME NEW p \in Server, NEW t \in Nat, NEW i \in Nat, Own(g, i, t), i =< g.acked[p][t]
        PROVE  Holds(g, p, t, i) \/ Abandoned(g, i, t)
    <3>1. h.acked[p][t] \in Nat /\ h.acked[p][t] =< h.len[t] /\ i =< h.acked[p][t]
      BY <1>0, <1>1, <2>1, HistoryTypes DEF AcksHeld
    <3>2. i =< h.len[t]
      BY <1>4, <3>1
    <3>3. Own(h, i, t)
      BY <1>0, <1>5, <2>1, <3>2, OwnStays
    <3>4. Holds(h, p, t, i) \/ Abandoned(h, i, t)
      BY <3>1, <3>3 DEF HistoryInv, AcksKept
    <3> QED BY <1>0, <1>5, <1>8, <3>4, AbandonedStays
  <2> QED BY <2>1 DEF AcksKept
<1>11. LeadersComplete(g)
  <2>1. ASSUME NEW t \in Nat, NEW w \in Nat, NEW i \in Nat, t < w, g.winner[w] # Nil,
               i >= 1, i > g.len[t] \/ Own(g, i, t)
        PROVE  Contains(g, w, i, t) \/ Abandoned(g, i, t)
    <3>1. i > h.len[t] \/ Own(h, i, t)
      <4>1. CASE i > g.len[t]
        BY <1>4, <4>1
      <4>2. CASE Own(g, i, t) /\ i =< h.len[t]
        BY <1>0, <1>5, <4>2, OwnStays
      <4> QED BY <1>4, <2>1, <4>1, <4>2
    <3>2. Contains(h, w, i, t) \/ Abandoned(h, i, t)
      BY <1>1, <2>1, <3>1 DEF HistoryInv, LeadersComplete
    <3> QED BY <1>0, <1>5, <3>2, AbandonedStays, ContainsStays
  <2> QED BY <2>1 DEF LeadersComplete
<1> QED BY <1>5, <1>6, <1>7, <1>9, <1>10, <1>11 DEF HistoryInv

\* Adopting a leader's log loses nothing the peer and that leader have in common.
LEMMA AdoptKeeps ==
  ASSUME NEW h, HistoryInv(h), NEW g \in History, NEW s \in Server, NEW u \in Nat,
         NEW k \in Nat, k =< h.len[u], Adopt(h, g, s, u, k)
  PROVE  /\ \A i \in Nat : Holds(h, s, u, i) => Holds(g, s, u, i)
         /\ Holds(g, s, u, k)
<1> DEFINE T == h.lastTerm[s]
           n == h.lastIndex[s]
<1>0. /\ h \in History /\ LogsConsistent(h) /\ PeersConsistent(h)
      /\ T \in Nat /\ n \in Nat /\ h.len[T] \in Nat /\ h.len[u] \in Nat
      /\ n =< h.len[T]
      /\ g.entry = h.entry /\ g.len = h.len
  BY HistoryTypes DEF HistoryInv, PeersConsistent, Adopt
<1>1. /\ g.lastIndex[s] = IF Agrees(h, s, u, k) THEN n ELSE k
      /\ g.lastTerm[s] = IF Agrees(h, s, u, k) THEN T ELSE h.entry[u][k].term
  BY <1>0 DEF Adopt, History
<1>2. \A a, b, j : Same(g, a, b, j) <=> Same(h, a, b, j)
  BY <1>0 DEF Same
<1>3. CASE Agrees(h, s, u, k)
  <2>1. k =< n /\ k =< h.len[T] /\ h.entry[T][k].term = h.entry[u][k].term
    BY <1>0, <1>3 DEF Agrees
  <2>2. Same(h, T, u, k)
    BY <1>0, <2>1, LogsMatch
  <2> HIDE DEF T, n
  <2> QED BY <1>0, <1>1, <1>2, <1>3, <2>1, <2>2 DEF Holds, T, n
<1>4. CASE ~Agrees(h, s, u, k)
  <2> DEFINE v == h.entry[u][k].term
  <2>1. v \in Nat /\ Same(h, v, u, k)
    BY <1>0, HistoryTypes DEF LogsConsistent
  <2>2. ASSUME NEW i \in Nat, Holds(h, s, u, i) PROVE i =< k
    <3>1. SUFFICES ASSUME k < i PROVE FALSE
      OBVIOUS
    <3>2. k =< i /\ i =< n /\ Same(h, T, u, i)
      BY <2>2, <3>1 DEF Holds
    <3>3. h.entry[T][k] = h.entry[u][k]
      BY <3>2, SameBelow
    <3>4. k =< n
      BY <1>0, <3>2
    <3> QED BY <1>4, <3>3, <3>4 DEF Agrees
  <2>3. g.lastIndex[s] = k /\ g.lastTerm[s] = v
    BY <1>1, <1>4
  <2> HIDE DEF v
  <2>4. Holds(g, s, u, k)
    BY <1>0, <1>2, <2>1, <2>3 DEF Holds
  <2> QED BY <2>2, <2>4, HoldsBelow
<1> QED BY <1>3, <1>4

\* ... and nothing that an earlier leader's log may have had chosen.
LEMMA AdoptKeepsEarlier ==
  ASSUME NEW h, HistoryInv(h), NEW g \in History, NEW s \in Server, NEW u \in Nat,
         NEW k \in Nat, k =< h.len[u], Adopt(h, g, s, u, k),
         NEW t \in Nat, NEW i \in Nat, NEW j \in Nat, j =< i, Contains(h, u, i, t),
         Holds(h, s, t, j)
  PROVE  Holds(g, s, t, j)
<1>0. h \in History /\ g.entry = h.entry /\ g.len = h.len
  BY DEF HistoryInv, Adopt
<1>1. i =< h.len[u] /\ h.len[u] \in Nat /\ Same(h, u, t, j) /\ j =< h.len[t]
  BY <1>0, SameBelow, HistoryTypes DEF Contains, Holds
<1>2. Holds(h, s, u, j)
  <2>1. j =< h.len[u]
    BY <1>1
  <2> QED BY <1>0, <1>1, <2>1, HoldsSame, SameIsEquivalence
<1>3. Holds(g, s, u, j)
  BY <1>2, AdoptKeeps
<1>4. Same(g, u, t, j)
  BY <1>0, <1>1 DEF Same
<1> QED BY <1>0, <1>1, <1>3, <1>4, HoldsSame

\* A peer acknowledges a piece of the log of a leader that is not behind.
LEMMA AdoptStep ==
  ASSUME NEW h, HistoryInv(h), NEW g \in History, NEW s \in Server, NEW u \in Nat,
         h.term[s] =< u, h.winner[u] # Nil, NEW k \in Nat, k =< h.len[u], Adopt(h, g, s, u, k)
  PROVE  HistoryInv(g) /\ Grows(h, g)
<1> DEFINE T == h.lastTerm[s]
           n == h.lastIndex[s]
           a == IF h.acked[s][u] >= k THEN h.acked[s][u] ELSE k
<1>0. /\ h \in History /\ LogsConsistent(h) /\ PeersConsistent(h) /\ AcksHeld(h)
      /\ T \in Nat /\ n \in Nat /\ h.len[u] \in Nat /\ h.acked[s][u] \in Nat /\ a \in Nat
      /\ g.winner = h.winner /\ g.entry = h.entry /\ g.len = h.len
      /\ h.term[s] \in Nat
  BY HistoryTypes DEF HistoryInv, Adopt
<1>1. /\ g.term[s] = u /\ g.acked[s][u] = a
      /\ \A p \in Server \ {s} : /\ g.term[p] = h.term[p] /\ g.lastIndex[p] = h.lastIndex[p]
                                 /\ g.lastTerm[p] = h.lastTerm[p]
      /\ \A p \in Server, t \in Nat : ~(p = s /\ t = u) => g.acked[p][t] = h.acked[p][t]
      /\ g.lastIndex[s] = IF Agrees(h, s, u, k) THEN n ELSE k
      /\ g.lastTerm[s] = IF Agrees(h, s, u, k) THEN T ELSE h.entry[u][k].term
  <2>1. /\ h.acked \in [Server -> [Nat -> Nat]] /\ h.term \in [Server -> Nat]
        /\ h.lastIndex \in [Server -> Nat] /\ h.lastTerm \in [Server -> Nat]
    BY <1>0 DEF History
  <2> DEFINE b == IF Agrees(h, s, u, k) THEN n ELSE k
             c == IF Agrees(h, s, u, k) THEN T ELSE h.entry[u][k].term
  <2>2. /\ g.term = [h.term EXCEPT ![s] = u]
        /\ g.acked = [h.acked EXCEPT ![s] = [h.acked[s] EXCEPT ![u] = a]]
        /\ g.lastIndex = [h.lastIndex EXCEPT ![s] = b]
        /\ g.lastTerm = [h.lastTerm EXCEPT ![s] = c]
    BY DEF Adopt
  <2> HIDE DEF a, b, c
  <2>3. /\ g.acked[s] = [h.acked[s] EXCEPT ![u] = a]
        /\ \A p \in Server \ {s} : g.acked[p] = h.acked[p]
    BY <2>1, <2>2
  <2>4. g.acked[s][u] = a /\ \A t \in Nat \ {u} : g.acked[s][t] = h.acked[s][t]
    BY <2>1, <2>3
  <2>5. \A p \in Server, t \in Nat : ~(p = s /\ t = u) => g.acked[p][t] = h.acked[p][t]
    BY <2>3, <2>4
  <2>6. g.lastIndex[s] = b /\ g.lastTerm[s] = c
    BY <2>1, <2>2
  <2>7. /\ g.term[s] = u
        /\ \A p \in Server \ {s} : /\ g.term[p] = h.term[p] /\ g.lastIndex[p] = h.lastIndex[p]
                                   /\ g.lastTerm[p] = h.lastTerm[p]
    BY <2>1, <2>2
  <2> QED BY <2>4, <2>5, <2>6, <2>7 DEF b, c
<1>2. h.acked[s][u] =< a /\ k =< a /\ (a = h.acked[s][u] \/ a = k)
  BY <1>0
<1> HIDE DEF T, n, a
<1>3. Grows(h, g)
  <2>1. \A t \in Nat : h.len[t] \in Nat
    BY <1>0, HistoryTypes
  <2>2. ASSUME NEW p \in Server PROVE h.term[p] =< g.term[p]
    BY <1>0, <1>1, HistoryTypes, SMTT(40)
  <2>3. ASSUME NEW p \in Server, NEW t \in Nat
        PROVE  h.acked[p][t] =< g.acked[p][t] /\ (t < h.term[p] => g.acked[p][t] = h.acked[p][t])
    <3>1. CASE p = s /\ t = u
      BY <1>0, <1>1, <1>2, <3>1
    <3>2. CASE ~(p = s /\ t = u)
      <4>1. g.acked[p][t] = h.acked[p][t] /\ h.acked[p][t] \in Nat
        BY <1>0, <1>1, <3>2, HistoryTypes
      <4> QED BY <4>1
    <3> QED BY <3>1, <3>2
  <2> QED BY <1>0, <2>1, <2>2, <2>3 DEF Grows
<1>4. \A t, v, j : Same(g, t, v, j) <=> Same(h, t, v, j)
  BY <1>0 DEF Same
<1>5. LogsConsistent(g)
  BY <1>0, <1>4 DEF LogsConsistent
<1>6. PeersConsistent(g)
  <2>1. ASSUME NEW p \in Server, p # s
        PROVE  /\ g.lastTerm[p] =< g.term[p]
               /\ g.lastIndex[p] =< g.len[g.lastTerm[p]]
               /\ g.entry[g.lastTerm[p]][g.lastIndex[p]].term = g.lastTerm[p]
    BY <1>0, <1>1, <2>1 DEF PeersConsistent
  <2>2. CASE Agrees(h, s, u, k)
    <3>1. T =< h.term[s] /\ n =< h.len[T] /\ h.entry[T][n].term = T
      BY <1>0 DEF PeersConsistent, T, n
    <3>2. T =< u
      BY <1>0, <3>1
    <3> QED BY <1>0, <1>1, <2>1, <2>2, <3>1, <3>2 DEF PeersConsistent
  <2>3. CASE ~Agrees(h, s, u, k)
    <3> DEFINE v == h.entry[u][k].term
    <3>1. v \in Nat /\ v =< u /\ k =< h.len[v] /\ Same(h, v, u, k)
      BY <1>0, HistoryTypes DEF LogsConsistent
    <3>2. h.entry[v][k] = h.entry[u][k]
      BY <3>1, SameBelow
    <3>3. g.lastIndex[s] = k /\ g.lastTerm[s] = v
      BY <1>1, <2>3
    <3>4. h.entry[v][k].term = v
      BY <3>2
    <3> HIDE DEF v
    <3> QED BY <1>0, <1>1, <2>1, <3>1, <3>3, <3>4 DEF PeersConsistent
  <2> QED BY <2>2, <2>3
<1>7. \A p \in Server \ {s}, t \in Nat, j \in Nat : Holds(h, p, t, j) => Holds(g, p, t, j)
  BY <1>0, <1>1, <1>3, HoldsStays
<1>8. Holds(g, s, u, a)
  <2>1. Holds(h, s, u, h.acked[s][u])
    <3>1. CASE h.term[s] = u
      BY <1>0, <3>1 DEF AcksHeld
    <3>2. CASE h.term[s] # u
      <4>1. h.acked[s][u] = 0
        BY <1>0, <3>2 DEF AcksHeld
      <4>2. h.lastIndex[s] \in Nat /\ h.lastTerm[s] \in Nat
        BY <1>0, HistoryTypes
      <4> QED BY <1>0, <4>1, <4>2, SameAtZero DEF Holds
    <3> QED BY <3>1, <3>2
  <2> QED BY <1>0, <1>2, <2>1, AdoptKeeps
<1>9. AcksHeld(g)
  <2>1. ASSUME NEW p \in Server, NEW t \in Nat
        PROVE  g.acked[p][t] =< g.len[t] /\ (g.acked[p][t] > 0 => t =< g.term[p])
    <3>1. CASE p = s /\ t = u
      BY <1>0, <1>1, <1>8, <3>1 DEF Holds
    <3>2. CASE ~(p = s /\ t = u)
      <4>1. /\ g.acked[p][t] = h.acked[p][t] /\ h.acked[p][t] =< h.len[t]
            /\ h.acked[p][t] > 0 => t =< h.term[p]
        BY <1>0, <1>1, <3>2 DEF AcksHeld
      <4>2. h.term[p] =< g.term[p] /\ h.term[p] \in Nat /\ g.term[p] \in Nat
        BY <1>0, <1>3, HistoryTypes DEF Grows
      <4> QED BY <1>0, <4>1, <4>2
    <3> QED BY <3>1, <3>2
  <2>2. ASSUME NEW p \in Server PROVE Holds(g, p, g.term[p], g.acked[p][g.term[p]])
    <3>1. CASE p = s
      BY <1>1, <1>8, <3>1
    <3>2. CASE p # s
      <4>1. h.term[p] \in Nat /\ h.acked[p][h.term[p]] \in Nat
        BY <1>0, HistoryTypes
      <4>2. Holds(h, p, h.term[p], h.acked[p][h.term[p]])
        BY <1>0 DEF AcksHeld
      <4>3. g.term[p] = h.term[p] /\ g.acked[p][h.term[p]] = h.acked[p][h.term[p]]
        BY <1>1, <3>2, <4>1
      <4> QED BY <1>7, <3>2, <4>1, <4>2, <4>3
    <3> QED BY <3>1, <3>2
  <2> QED BY <2>1, <2>2 DEF AcksHeld
<1>10. \A i, t : Own(g, i, t) <=> Own(h, i, t)
  BY <1>0 DEF Own
<1>11. AcksKept(g)
  <2>1. ASSUME NEW p \in Server, NEW t \in Nat, NEW i \in Nat, Own(g, i, t), i =< g.acked[p][t]
        PROVE  Holds(g, p, t, i) \/ Abandoned(g, i, t)
    <3>0. Own(h, i, t) /\ i >= 1
      BY <1>10, <2>1 DEF Own
    <3>1. CASE p # s
      <4>1. Holds(h, p, t, i) \/ Abandoned(h, i, t)
        BY <1>1, <2>1, <3>0, <3>1 DEF HistoryInv, AcksKept
      <4> QED BY <1>0, <1>3, <1>7, <3>1, <4>1, AbandonedStays
    <3>2. CASE p = s /\ t = u
      BY <1>0, <1>1, <1>8, <2>1, <3>2, HoldsBelow
    <3>3. CASE p = s /\ t # u
      <4>1. i =< h.acked[s][t] /\ h.acked[s][t] \in Nat
        BY <1>0, <1>1, <2>1, <3>3, HistoryTypes
      <4>2. t =< h.term[s]
        BY <1>0, <3>0, <4>1 DEF AcksHeld
      <4>3. t < u
        BY <1>0, <3>3, <4>2
      <4>4. Holds(h, s, t, i) \/ Abandoned(h, i, t)
        BY <3>0, <4>1 DEF HistoryInv, AcksKept
      <4>5. Contains(h, u, i, t) \/ Abandoned(h, i, t)
        BY <3>0, <4>3 DEF HistoryInv, LeadersComplete
      <4>6. CASE Holds(h, s, t, i) /\ Contains(h, u, i, t)
        BY <3>3, <4>6, AdoptKeepsEarlier
      <4> QED BY <1>0, <1>3, <4>4, <4>5, <4>6, AbandonedStays
    <3> QED BY <3>1, <3>2, <3>3
  <2> QED BY <2>1 DEF AcksKept
<1>12. LeadersComplete(g)
  <2>1. ASSUME NEW t \in Nat, NEW w \in Nat, NEW i \in Nat, t < w, g.winner[w] # Nil,
               i >= 1, i > g.len[t] \/ Own(g, i, t)
        PROVE  Contains(g, w, i, t) \/ Abandoned(g, i, t)
    <3>1. Contains(h, w, i, t) \/ Abandoned(h, i, t)
      BY <1>0, <1>10, <2>1 DEF HistoryInv, LeadersComplete
    <3> QED BY <1>0, <1>3, <3>1, AbandonedStays, ContainsStays
  <2> QED BY <2>1 DEF LeadersComplete
<1> QED BY <1>3, <1>5, <1>6, <1>9, <1>11, <1>12 DEF HistoryInv

\* The history of a system that has just been set up.
LEMMA FreshHistory ==
  ASSUME NEW h \in History,
         \A t \in Nat : h.winner[t] = Nil /\ h.len[t] = 0,
         \A t \in Nat, i \in Nat : h.entry[t][i] = Dummy,
         \A p \in Server : h.term[p] = 0 /\ h.lastIndex[p] = 0 /\ h.lastTerm[p] = 0,
         \A p \in Server, t \in Nat : h.acked[p][t] = 0
  PROVE  HistoryInv(h)
<1>5. Dummy.term = 0
  BY DEF Dummy
<1> HIDE DEF Dummy
<1>6. \A t \in Nat, u \in Nat : Same(h, t, u, 0)
  BY DEF Same
<1>7. LogsConsistent(h)
  <2>1. ASSUME NEW t \in Nat, NEW i \in Nat, i =< h.len[t]
        PROVE  LET u == h.entry[t][i].term
               IN  u =< t /\ i =< h.len[u] /\ Same(h, u, t, i)
    <3>1. i = 0 /\ h.entry[t][i].term = 0 /\ h.len[0] = 0
      BY <1>5, <2>1
    <3> QED BY <1>6, <3>1
  <2> QED BY <2>1 DEF LogsConsistent
<1>8. PeersConsistent(h)
  BY <1>5 DEF PeersConsistent
<1>9. AcksHeld(h)
  <2>1. ASSUME NEW p \in Server PROVE Holds(h, p, h.term[p], h.acked[p][h.term[p]])
    <3>1. /\ h.term[p] = 0 /\ h.acked[p][0] = 0 /\ h.lastTerm[p] = 0 /\ h.lastIndex[p] = 0
          /\ h.len[0] = 0 /\ Same(h, 0, 0, 0)
      BY <1>6
    <3> QED BY <3>1 DEF Holds
  <2> QED BY <2>1 DEF AcksHeld
<1>10. AcksKept(h)
  BY DEF AcksKept, Own
<1>11. LeadersComplete(h)
  BY DEF LeadersComplete
<1> QED BY <1>7, <1>8, <1>9, <1>10, <1>11 DEF HistoryInv

-----------------------------------------------------------------------------
(* THE STEPS CAN BE TAKEN *)

LEMMA HistoryFields ==
  ASSUME NEW h \in History
  PROVE  /\ h.len \in [Nat -> Nat] /\ h.winner \in [Nat -> Server \cup {Nil}]
         /\ h.entry \in [Nat -> [Nat -> LogEntry]] /\ h.acked \in [Server -> [Nat -> Nat]]
         /\ h.term \in [Server -> Nat] /\ h.lastIndex \in [Server -> Nat]
         /\ h.lastTerm \in [Server -> Nat]
BY DEF History

LEMMA TermsCanGrow ==
  ASSUME NEW h, HistoryInv(h), NEW tm \in [Server -> Nat], \A p \in Server : tm[p] >= h.term[p]
  PROVE  \E g \in History : /\ TermsGrow(h, g) /\ g.term = tm /\ HistoryInv(g) /\ Grows(h, g)
<1>1. h \in History
  BY DEF HistoryInv
<1>f. /\ h.len \in [Nat -> Nat] /\ h.winner \in [Nat -> Server \cup {Nil}]
      /\ h.entry \in [Nat -> [Nat -> LogEntry]] /\ h.acked \in [Server -> [Nat -> Nat]]
      /\ h.term \in [Server -> Nat] /\ h.lastIndex \in [Server -> Nat]
      /\ h.lastTerm \in [Server -> Nat]
  BY <1>1, HistoryFields
<1> DEFINE g == [winner |-> h.winner, entry |-> h.entry, len |-> h.len, acked |-> h.acked,
                 term |-> tm, lastIndex |-> h.lastIndex, lastTerm |-> h.lastTerm]
<1>2. /\ g \in History
      /\ g.winner = h.winner /\ g.entry = h.entry /\ g.len = h.len
      /\ g.acked = h.acked /\ g.term = tm
      /\ g.lastIndex = h.lastIndex /\ g.lastTerm = h.lastTerm
  <2>1. g \in History
    BY <1>f DEF History
  <2> QED BY <2>1
<1> HIDE DEF g
<1>3. TermsGrow(h, g)
  BY <1>2 DEF TermsGrow
<1> QED BY <1>2, <1>3, TermsGrowStep

LEMMA CanElect ==
  ASSUME NEW h, HistoryInv(h), NEW s \in Server, NEW u \in Nat, u >= 1,
         h.term[s] = u, h.winner[u] = Nil,
         NEW Q \in Majorities, \A p \in Q : h.term[p] >= u,
         \A p \in Q, t \in Nat, i \in Nat :
            t < u /\ Own(h, i, t) /\ i =< h.acked[p][t] => Holds(h, s, t, i) \/ Abandoned(h, i, t)
  PROVE  \E g \in History : Elect(h, g, s, u) /\ HistoryInv(g) /\ Grows(h, g)
<1> DEFINE w == [h.winner EXCEPT ![u] = s]
           e == [h.entry EXCEPT ![u] = h.entry[h.lastTerm[s]]]
           l == [h.len EXCEPT ![u] = h.lastIndex[s]]
           a == [h.acked EXCEPT ![s] = [h.acked[s] EXCEPT ![u] = h.lastIndex[s]]]
<1>1. h \in History
  BY DEF HistoryInv
<1>f. /\ h.len \in [Nat -> Nat] /\ h.winner \in [Nat -> Server \cup {Nil}]
      /\ h.entry \in [Nat -> [Nat -> LogEntry]] /\ h.acked \in [Server -> [Nat -> Nat]]
      /\ h.term \in [Server -> Nat] /\ h.lastIndex \in [Server -> Nat]
      /\ h.lastTerm \in [Server -> Nat]
  BY <1>1, HistoryFields
<1>2. /\ w \in [Nat -> Server \cup {Nil}] /\ e \in [Nat -> [Nat -> LogEntry]]
      /\ l \in [Nat -> Nat] /\ a \in [Server -> [Nat -> Nat]]
  <2>1. h.lastIndex[s] \in Nat /\ h.entry[h.lastTerm[s]] \in [Nat -> LogEntry]
    BY <1>f
  <2>2. [h.acked[s] EXCEPT ![u] = h.lastIndex[s]] \in [Nat -> Nat]
    BY <1>f, <2>1
  <2>3. w \in [Nat -> Server \cup {Nil}]
    BY <1>f
  <2>4. e \in [Nat -> [Nat -> LogEntry]]
    BY <1>f, <2>1
  <2>5. l \in [Nat -> Nat]
    BY <1>f, <2>1
  <2>6. a \in [Server -> [Nat -> Nat]]
    BY <1>f, <2>2
  <2> QED BY <2>3, <2>4, <2>5, <2>6
<1> HIDE DEF w, e, l, a
<1> DEFINE g == [winner |-> w, entry |-> e, len |-> l, acked |-> a,
                 term |-> h.term, lastIndex |-> h.lastIndex, lastTerm |-> h.lastTerm]
<1>3. /\ g \in History
      /\ g.winner = w /\ g.entry = e /\ g.len = l /\ g.acked = a
      /\ g.term = h.term /\ g.lastIndex = h.lastIndex
      /\ g.lastTerm = h.lastTerm
  <2>1. g \in History
    BY <1>f, <1>2 DEF History
  <2> QED BY <2>1
<1> HIDE DEF g
<1>4. Elect(h, g, s, u)
  BY <1>3 DEF Elect, w, e, l, a
<1> QED BY <1>3, <1>4, ElectStep

LEMMA CanExtend ==
  ASSUME NEW h, HistoryInv(h), NEW u \in Nat, u >= 1, h.winner[u] # Nil,
         NEW e \in LogEntry, e.term = u
  PROVE  \E g \in History : Extend(h, g, u, e) /\ HistoryInv(g) /\ Grows(h, g)
<1> DEFINE x == [h.entry EXCEPT ![u] = [h.entry[u] EXCEPT ![h.len[u] + 1] = e]]
           l == [h.len EXCEPT ![u] = h.len[u] + 1]
<1>1. h \in History
  BY DEF HistoryInv
<1>f. /\ h.len \in [Nat -> Nat] /\ h.winner \in [Nat -> Server \cup {Nil}]
      /\ h.entry \in [Nat -> [Nat -> LogEntry]] /\ h.acked \in [Server -> [Nat -> Nat]]
      /\ h.term \in [Server -> Nat] /\ h.lastIndex \in [Server -> Nat]
      /\ h.lastTerm \in [Server -> Nat]
  BY <1>1, HistoryFields
<1>2. x \in [Nat -> [Nat -> LogEntry]] /\ l \in [Nat -> Nat]
  BY <1>f
<1> HIDE DEF x, l
<1> DEFINE g == [winner |-> h.winner, entry |-> x, len |-> l, acked |-> h.acked,
                 term |-> h.term, lastIndex |-> h.lastIndex, lastTerm |-> h.lastTerm]
<1>3. /\ g \in History
      /\ g.winner = h.winner /\ g.entry = x /\ g.len = l
      /\ g.acked = h.acked /\ g.term = h.term
      /\ g.lastIndex = h.lastIndex /\ g.lastTerm = h.lastTerm
  <2>1. g \in History
    BY <1>f, <1>2 DEF History
  <2> QED BY <2>1
<1> HIDE DEF g
<1>4. Extend(h, g, u, e)
  BY <1>3 DEF Extend, x, l
<1> QED BY <1>3, <1>4, ExtendStep

LEMMA CanAdopt ==
  ASSUME NEW h, HistoryInv(h), NEW s \in Server, NEW u \in Nat,
         h.term[s] =< u, h.winner[u] # Nil, NEW k \in Nat, k =< h.len[u]
  PROVE  \E g \in History : Adopt(h, g, s, u, k) /\ HistoryInv(g) /\ Grows(h, g)
<1> DEFINE ack == IF h.acked[s][u] >= k THEN h.acked[s][u] ELSE k
           last == IF Agrees(h, s, u, k) THEN h.lastIndex[s] ELSE k
           lastT == IF Agrees(h, s, u, k) THEN h.lastTerm[s] ELSE h.entry[u][k].term
           tm == [h.term EXCEPT ![s] = u]
           a == [h.acked EXCEPT ![s] = [h.acked[s] EXCEPT ![u] = ack]]
           i == [h.lastIndex EXCEPT ![s] = last]
           lt == [h.lastTerm EXCEPT ![s] = lastT]
<1>1. h \in History
  BY DEF HistoryInv
<1>f. /\ h.len \in [Nat -> Nat] /\ h.winner \in [Nat -> Server \cup {Nil}]
      /\ h.entry \in [Nat -> [Nat -> LogEntry]] /\ h.acked \in [Server -> [Nat -> Nat]]
      /\ h.term \in [Server -> Nat] /\ h.lastIndex \in [Server -> Nat]
      /\ h.lastTerm \in [Server -> Nat]
  BY <1>1, HistoryFields
<1>2. ack \in Nat /\ last \in Nat /\ lastT \in Nat
  BY <1>1, HistoryTypes
<1>3. tm = [h.term EXCEPT ![s] = u] /\ i = [h.lastIndex EXCEPT ![s] = last]
      /\ lt = [h.lastTerm EXCEPT ![s] = lastT]
      /\ a = [h.acked EXCEPT ![s] = [h.acked[s] EXCEPT ![u] = ack]]
  OBVIOUS
<1> HIDE DEF ack, last, lastT
<1>4. /\ tm \in [Server -> Nat] /\ a \in [Server -> [Nat -> Nat]]
      /\ i \in [Server -> Nat] /\ lt \in [Server -> Nat]
  BY <1>f, <1>2
<1> HIDE DEF tm, a, i, lt
<1> DEFINE g == [winner |-> h.winner, entry |-> h.entry, len |-> h.len, acked |-> a,
                 term |-> tm, lastIndex |-> i, lastTerm |-> lt]
<1>5. /\ g \in History
      /\ g.winner = h.winner /\ g.entry = h.entry /\ g.len = h.len
      /\ g.acked = a /\ g.term = tm /\ g.lastIndex = i /\ g.lastTerm = lt
  <2>1. g \in History
    BY <1>f, <1>4 DEF History
  <2> QED BY <2>1
<1> HIDE DEF g
<1>6. Adopt(h, g, s, u, k)
  BY <1>3, <1>5 DEF Adopt, ack, last, lastT
<1> QED BY <1>5, <1>6, AdoptStep

=============================================================================

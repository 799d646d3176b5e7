----------------------------- MODULE RaftProofs -----------------------------
(***************************************************************************)
(* Theorems about Raft, for any number of peers, terms, log indexes and    *)
(* calls in flight: types, and what a peer promises before any log is      *)
(* compared with another.  What it has saved is what it works with, it     *)
(* keeps its votes, and so there is at most one leader in a term; its      *)
(* applier never sleeps on something it could apply, and what it hands to  *)
(* the service arrives in index order.                                     *)
(***************************************************************************)
EXTENDS Raft, FiniteSetTheorems, SequenceTheorems, WellFoundedInduction, TLAPS

-----------------------------------------------------------------------------
(* EXTREMA: what Max and Min return. *)

\* A nonempty set of naturals has a least element.
LEMMA LeastExists ==
  ASSUME NEW T, T \subseteq Nat, T # {}
  PROVE  \E x \in T : \A y \in T : x =< y
<1> DEFINE R == OpToRel(<, Nat)
<1>1. IsWellFoundedOn(R, Nat)
  BY Zenon, NatLessThanWellFounded
<1>2. \A x, y \in Nat : y < x => <<y, x>> \in R
  BY DEF OpToRel
<1> HIDE DEF R
<1>3. PICK x \in T : \A y \in T : ~ (<<y, x>> \in R)
  BY <1>1, WFMin
<1>4. ASSUME NEW y \in T PROVE x =< y
  <2>1. ~ (y < x)
    BY <1>2, <1>3
  <2> QED BY <2>1
<1> QED BY <1>4

\* A nonempty set of integers between two bounds has a greatest element.
LEMMA GreatestExists ==
  ASSUME NEW T, NEW a \in Int, NEW b \in Int, T \subseteq a .. b, T # {}
  PROVE  \E x \in T : \A y \in T : x >= y
<1> DEFINE U == {b - x : x \in T}
<1>1. U \subseteq Nat /\ U # {}
  <2>1. \A x \in T : x \in Int /\ b - x \in Nat
    OBVIOUS
  <2> QED BY <2>1
<1>2. PICK m \in U : \A y \in U : m =< y
  <2> HIDE DEF U
  <2> QED BY <1>1, LeastExists
<1>3. PICK x \in T : m = b - x
  BY <1>2
<1>4. ASSUME NEW y \in T PROVE x >= y
  <2>1. b - y \in U
    OBVIOUS
  <2>2. m =< b - y
    BY <1>2, <2>1
  <2> QED BY <2>2, <1>3
<1> QED BY <1>4

\* Max of a bounded set of integers is its greatest element.
LEMMA MaxIsGreatest ==
  ASSUME NEW T, NEW a \in Int, NEW b \in Int, T \subseteq a .. b, T # {}
  PROVE  Max(T) \in T /\ \A y \in T : Max(T) >= y
BY GreatestExists DEF Max

\* Min of a set of naturals is its least element.
LEMMA MinIsLeast ==
  ASSUME NEW T, T \subseteq Nat, T # {}
  PROVE  Min(T) \in T /\ \A y \in T : Min(T) =< y
BY LeastExists DEF Min

\* The larger and the smaller of two integers.
LEMMA MaxOfTwo ==
  ASSUME NEW a \in Int, NEW b \in Int
  PROVE  Max({a, b}) = IF a >= b THEN a ELSE b
BY DEF Max

LEMMA MinOfTwo ==
  ASSUME NEW a \in Int, NEW b \in Int
  PROVE  Min({a, b}) = IF a =< b THEN a ELSE b
BY DEF Min

-----------------------------------------------------------------------------
(* WELL-TYPED PIECES *)

\* A log has a last index, and every index in it has a term.
LEMMA LogFacts ==
  ASSUME TypeOK, NEW s \in Server
  PROVE  /\ log[s] \in Seq(LogEntry)
         /\ Len(log[s]) \in Nat \ {0}
         /\ lastIncludedIndex[s] \in Nat
         /\ LastLogIndex(s) \in Nat
         /\ LastLogIndex(s) = lastIncludedIndex[s] + Len(log[s]) - 1
         /\ LastLogIndex(s) >= lastIncludedIndex[s]
         /\ \A i \in Int : SliceIndex(s, i) = i - lastIncludedIndex[s] + 1
         /\ \A k \in 1 .. Len(log[s]) : log[s][k] \in LogEntry
         /\ \A i : InLog(s, i) => /\ i \in Nat
                                  /\ SliceIndex(s, i) \in 1 .. Len(log[s])
                                  /\ log[s][SliceIndex(s, i)] \in LogEntry
                                  /\ TermAt(s, i) \in Nat
<1>1. log[s] \in Seq(LogEntry) /\ log[s] # <<>> /\ lastIncludedIndex[s] \in Nat
  BY DEF TypeOK, LogType
<1>2. Len(log[s]) \in Nat \ {0}
  BY <1>1, EmptySeq, LenProperties
<1>3. LastLogIndex(s) \in Nat /\ LastLogIndex(s) = lastIncludedIndex[s] + Len(log[s]) - 1
      /\ LastLogIndex(s) >= lastIncludedIndex[s]
  BY <1>1, <1>2 DEF LastLogIndex
<1>4. \A k \in 1 .. Len(log[s]) : log[s][k] \in LogEntry
  BY <1>1, ElementOfSeq
<1>5. \A i \in Int : SliceIndex(s, i) = i - lastIncludedIndex[s] + 1
  BY DEF SliceIndex
<1>6. ASSUME NEW i, InLog(s, i)
      PROVE  /\ i \in Nat
             /\ SliceIndex(s, i) \in 1 .. Len(log[s])
             /\ log[s][SliceIndex(s, i)] \in LogEntry
             /\ TermAt(s, i) \in Nat
  <2>1. i \in Nat /\ i >= lastIncludedIndex[s] /\ i =< LastLogIndex(s)
    BY <1>1, <1>3, <1>6 DEF InLog
  <2>2. SliceIndex(s, i) \in 1 .. Len(log[s])
    BY <2>1, <1>1, <1>2, <1>3 DEF SliceIndex
  <2>3. log[s][SliceIndex(s, i)] \in LogEntry
    BY <2>2, <1>4
  <2> QED BY <2>1, <2>2, <2>3 DEF TermAt, LogEntry
<1> QED BY <1>1, <1>2, <1>3, <1>4, <1>5, <1>6

\* A reply, and a caller's crash, leave well-formed calls.
LEMMA VoteCallTypes ==
  ASSUME NEW calls \in SUBSET RequestVoteCall
  PROVE  /\ \A c \in calls, r \in RequestVoteReply : Answered(calls, c, r) \subseteq RequestVoteCall
         /\ \A s \in Server : Orphaned(calls, s) \subseteq RequestVoteCall
BY DEF Answered, Orphaned, RequestVoteCall, Phase

LEMMA AppendCallTypes ==
  ASSUME NEW calls \in SUBSET AppendEntriesCall
  PROVE  /\ \A c \in calls, r \in AppendEntriesReply : Answered(calls, c, r) \subseteq AppendEntriesCall
         /\ \A s \in Server : Orphaned(calls, s) \subseteq AppendEntriesCall
BY ZenonT(40) DEF Answered, Orphaned, AppendEntriesCall, Phase

LEMMA SnapCallTypes ==
  ASSUME NEW calls \in SUBSET InstallSnapshotCall
  PROVE  /\ \A c \in calls, r \in [Term: Nat] : Answered(calls, c, r) \subseteq InstallSnapshotCall
         /\ \A s \in Server : Orphaned(calls, s) \subseteq InstallSnapshotCall
<1>1. ASSUME NEW c \in calls, NEW r \in [Term: Nat]
      PROVE  Answered(calls, c, r) \subseteq InstallSnapshotCall
  <2>1. [c EXCEPT !.phase = "answered", !.reply = r] \in InstallSnapshotCall
    BY DEF InstallSnapshotCall, Phase
  <2> QED BY <2>1 DEF Answered
<1>2. ASSUME NEW s \in Server
      PROVE  Orphaned(calls, s) \subseteq InstallSnapshotCall
  <2>1. \A c \in calls : [c EXCEPT !.phase = "orphan"] \in InstallSnapshotCall
    BY DEF InstallSnapshotCall, Phase
  <2> QED BY <2>1 DEF Orphaned
<1> QED BY <1>1, <1>2

\* persist() saves a well-formed state.
LEMMA PersistType ==
  ASSUME TypeOK, NEW s \in Server,
         term' \in [Server -> Nat], voteFor' \in [Server -> Server \cup {Nil}],
         log' \in [Server -> LogType], lastIncludedIndex' \in [Server -> Nat],
         lastIncludedTerm' \in [Server -> Nat], snapshot' \in [Server -> Data],
         Persist(s) \/ UNCHANGED disk
  PROVE  disk' \in [Server -> PersistentState]
<1> DEFINE saved == [Term |-> term'[s], VoteFor |-> voteFor'[s], Log |-> log'[s],
                     LastIncludedIndex |-> lastIncludedIndex'[s],
                     LastIncludedTerm |-> lastIncludedTerm'[s], Snapshot |-> snapshot'[s]]
<1>1. saved \in PersistentState
  BY DEF PersistentState
<1>2. disk' = disk \/ disk' = [disk EXCEPT ![s] = saved]
  BY DEF Persist
<1>3. disk \in [Server -> PersistentState]
  BY DEF TypeOK
<1> HIDE DEF saved
<1> QED BY <1>1, <1>2, <1>3

\* becomeLeaderLocked() sets well-formed cursors.
LEMMA BecomeLeaderType ==
  ASSUME TypeOK, NEW s \in Server, BecomeLeader(s)
  PROVE  /\ state' \in [Server -> StateType]
         /\ nextIndex' \in [Server -> [Server -> Nat]]
         /\ matchIndex' \in [Server -> [Server -> Nat]]
<1>1. LastLogIndex(s) \in Nat /\ LastLogIndex(s) + 1 \in Nat
  BY LogFacts
<1>2. [p \in Server |-> LastLogIndex(s) + 1] \in [Server -> Nat]
      /\ [p \in Server |-> IF p = s THEN LastLogIndex(s) ELSE 0] \in [Server -> Nat]
  BY <1>1
<1> QED BY <1>2 DEF BecomeLeader, TypeOK, StateType

\* A peer that steps down stays well-formed.
LEMMA StepDownType ==
  ASSUME TypeOK, NEW s \in Server, NEW t \in Nat, StepDown(s, t),
         voteCalls' \subseteq voteCalls, appendCalls' \subseteq appendCalls,
         snapCalls' \subseteq snapCalls
  PROVE  TypeOK'
<1>1. /\ term' \in [Server -> Nat]
      /\ voteFor' \in [Server -> Server \cup {Nil}]
      /\ state' \in [Server -> StateType]
  BY DEF StepDown, TypeOK, StateType
<1>2. UNCHANGED <<log, lastIncludedIndex, lastIncludedTerm, snapshot>>
  BY DEF StepDown
<1>3. /\ log' \in [Server -> LogType] /\ lastIncludedIndex' \in [Server -> Nat]
      /\ lastIncludedTerm' \in [Server -> Nat] /\ snapshot' \in [Server -> Data]
  BY <1>2 DEF TypeOK
<1>4. disk' \in [Server -> PersistentState]
  BY <1>1, <1>3, PersistType DEF StepDown
<1> QED BY <1>1, <1>2, <1>4 DEF StepDown, TypeOK, leaderVars, applierVars

-----------------------------------------------------------------------------
(* TYPE CORRECTNESS, one lemma per group of actions. *)

LEMMA StartElectionType ==
  ASSUME TypeOK, NEW s \in Server, StartElection(s)
  PROVE  TypeOK'
<1>1. /\ term' \in [Server -> Nat]
      /\ voteFor' \in [Server -> Server \cup {Nil}]
      /\ votes' \in [Server -> SUBSET Server]
  BY DEF StartElection, TypeOK
<1>2. UNCHANGED <<log, lastIncludedIndex, lastIncludedTerm, snapshot>>
  BY DEF StartElection
<1>3. /\ log' \in [Server -> LogType] /\ lastIncludedIndex' \in [Server -> Nat]
      /\ lastIncludedTerm' \in [Server -> Nat] /\ snapshot' \in [Server -> Data]
  BY <1>2 DEF TypeOK
<1>4. disk' \in [Server -> PersistentState]
  BY <1>1, <1>3, PersistType DEF StartElection
<1>5. /\ state' \in [Server -> StateType]
      /\ nextIndex' \in [Server -> [Server -> Nat]]
      /\ matchIndex' \in [Server -> [Server -> Nat]]
  <2>1. CASE BecomeLeader(s)
    BY <2>1, BecomeLeaderType
  <2>2. CASE state' = [state EXCEPT ![s] = "Candidate"] /\ UNCHANGED leaderVars
    BY <2>2 DEF TypeOK, StateType, leaderVars
  <2> QED BY <2>1, <2>2 DEF StartElection
<1>6. voteCalls' \subseteq RequestVoteCall
  <2> DEFINE call(p) == [phase |-> "sent", from |-> s, to |-> p, Term |-> term[s] + 1,
                         LastlogTerm |-> TermAt(s, LastLogIndex(s)),
                         LastlogIndex |-> LastLogIndex(s), reply |-> NoVote]
  <2>1. LastLogIndex(s) \in Nat /\ TermAt(s, LastLogIndex(s)) \in Nat
    <3>1. InLog(s, LastLogIndex(s))
      BY LogFacts DEF InLog
    <3> QED BY <3>1, LogFacts
  <2>2. term[s] + 1 \in Nat
    BY DEF TypeOK
  <2>3. NoVote \in RequestVoteReply
    BY DEF NoVote, RequestVoteReply
  <2>4. \A p \in Server : call(p) \in RequestVoteCall
    BY <2>1, <2>2, <2>3 DEF RequestVoteCall, Phase
  <2>5. voteCalls' = voteCalls \cup {call(p) : p \in Server \ {s}}
    BY DEF StartElection
  <2> HIDE DEF call
  <2> QED BY <2>4, <2>5 DEF TypeOK
<1> QED BY <1>1, <1>3, <1>4, <1>5, <1>6 DEF StartElection, TypeOK, applierVars

LEMMA RequestVoteType ==
  ASSUME TypeOK, NEW c \in voteCalls, RequestVote(c)
  PROVE  TypeOK'
<1> DEFINE s == c.to
           newTerm == c.Term > term[s]
           grant   == Grants(s, c)
<1>0. c \in RequestVoteCall /\ s \in Server /\ c.from \in Server /\ c.Term \in Nat
  BY DEF TypeOK, RequestVoteCall
<1>b. grant \in BOOLEAN
  BY Zenon DEF Grants
<1>1. /\ term' = [term EXCEPT ![s] = IF newTerm THEN c.Term ELSE @]
      /\ voteFor' = [voteFor EXCEPT ![s] = IF grant THEN c.from ELSE IF newTerm THEN Nil ELSE @]
      /\ state' = [state EXCEPT ![s] = IF newTerm \/ grant THEN "Follower" ELSE @]
      /\ UNCHANGED <<log, lastIncludedIndex, lastIncludedTerm, snapshot>>
      /\ Persist(s) \/ UNCHANGED disk
      /\ voteCalls' = Answered(voteCalls, c, [Term |-> term'[s], VoteGranted |-> grant])
      /\ UNCHANGED <<commitIndex, leaderVars, votes, applierVars, appendCalls, snapCalls>>
  BY DEF RequestVote, PersistIf
<1> HIDE DEF s, newTerm, grant
<1>2. /\ term' \in [Server -> Nat]
      /\ voteFor' \in [Server -> Server \cup {Nil}]
      /\ state' \in [Server -> StateType]
  BY <1>0, <1>1 DEF TypeOK, StateType
<1>3. /\ log' \in [Server -> LogType] /\ lastIncludedIndex' \in [Server -> Nat]
      /\ lastIncludedTerm' \in [Server -> Nat] /\ snapshot' \in [Server -> Data]
  BY <1>1 DEF TypeOK
<1>4. disk' \in [Server -> PersistentState]
  BY <1>0, <1>1, <1>2, <1>3, PersistType
<1>5. voteCalls' \subseteq RequestVoteCall
  <2>1. [Term |-> term'[s], VoteGranted |-> grant] \in RequestVoteReply
    BY <1>0, <1>2, <1>b DEF RequestVoteReply
  <2>2. voteCalls \in SUBSET RequestVoteCall
    BY DEF TypeOK
  <2> QED BY <1>1, <2>1, <2>2, VoteCallTypes
<1> QED BY <1>1, <1>2, <1>3, <1>4, <1>5 DEF TypeOK, leaderVars, applierVars

LEMMA HandleVoteReplyType ==
  ASSUME TypeOK, NEW c \in voteCalls, HandleVoteReply(c)
  PROVE  TypeOK'
<1>0. c \in RequestVoteCall /\ c.from \in Server /\ c.to \in Server /\ c.reply.Term \in Nat
  BY DEF TypeOK, RequestVoteCall, RequestVoteReply
<1>1. voteCalls' \subseteq voteCalls /\ UNCHANGED <<appendCalls, snapCalls>>
  BY DEF HandleVoteReply
<1>2. CASE StepDown(c.from, c.reply.Term)
  BY <1>0, <1>1, <1>2, StepDownType
<1>3. CASE /\ votes' = [votes EXCEPT ![c.from] = @ \cup {c.to}]
           /\ BecomeLeader(c.from) \/ UNCHANGED <<state, leaderVars>>
           /\ UNCHANGED <<persistentVars, commitIndex, applierVars, disk>>
  <2>1. votes' \in [Server -> SUBSET Server]
    BY <1>0, <1>3 DEF TypeOK
  <2>2. /\ state' \in [Server -> StateType]
        /\ nextIndex' \in [Server -> [Server -> Nat]]
        /\ matchIndex' \in [Server -> [Server -> Nat]]
    <3>1. CASE BecomeLeader(c.from)
      BY <3>1, <1>0, BecomeLeaderType
    <3>2. CASE UNCHANGED <<state, leaderVars>>
      BY <3>2 DEF TypeOK, leaderVars
    <3> QED BY <1>3, <3>1, <3>2
  <2> QED BY <1>1, <1>3, <2>1, <2>2 DEF TypeOK, persistentVars, applierVars
<1>4. CASE UNCHANGED <<persistentVars, state, leaderVars, votes, commitIndex, applierVars, disk>>
  BY <1>1, <1>4 DEF TypeOK, persistentVars, leaderVars, applierVars
<1> QED BY <1>2, <1>3, <1>4 DEF HandleVoteReply

\* Start() and the replies of followers leave a well-formed commit index.
LEMMA AdvanceCommitIndexType ==
  ASSUME TypeOK, NEW s \in Server, NEW lg \in LogType, NEW match,
         AdvanceCommitIndex(s, lg, match)
  PROVE  commitIndex' \in [Server -> Nat] /\ waiting' \in [Server -> BOOLEAN]
<1>1. CASE Committable(s, lg, match) = {}
  BY <1>1 DEF AdvanceCommitIndex, TypeOK
<1>2. CASE Committable(s, lg, match) # {}
  <2> DEFINE a == commitIndex[s] + 1
             b == lastIncludedIndex[s] + Len(lg) - 1
  <2>1. a \in Nat /\ b \in Int
    BY LenProperties DEF TypeOK, LogType
  <2>2. Committable(s, lg, match) \subseteq a .. b
    BY DEF Committable
  <2> HIDE DEF a, b
  <2>3. Max(Committable(s, lg, match)) \in Nat
    BY <1>2, <2>1, <2>2, MaxIsGreatest
  <2> QED BY <1>2, <2>3 DEF AdvanceCommitIndex, Signal, TypeOK
<1> QED BY <1>1, <1>2

LEMMA StartType ==
  ASSUME TypeOK, NEW s \in Server, NEW command \in Command, Start(s, command)
  PROVE  TypeOK'
<1> DEFINE entry == [term |-> term[s], command |-> command]
<1>0. log[s] \in Seq(LogEntry) /\ LastLogIndex(s) \in Nat
  BY LogFacts
<1>1. entry \in LogEntry
  BY DEF TypeOK, LogEntry
<1>2. log' = [log EXCEPT ![s] = Append(log[s], entry)]
  BY DEF Start
<1>3. Append(log[s], entry) \in LogType
  BY <1>0, <1>1, AppendProperties DEF LogType
<1>4. log' \in [Server -> LogType] /\ log'[s] \in LogType
  BY <1>2, <1>3 DEF TypeOK
<1>5. /\ term' \in [Server -> Nat] /\ voteFor' \in [Server -> Server \cup {Nil}]
      /\ lastIncludedIndex' \in [Server -> Nat]
      /\ lastIncludedTerm' \in [Server -> Nat] /\ snapshot' \in [Server -> Data]
  BY DEF Start, TypeOK
<1>6. disk' \in [Server -> PersistentState]
  BY <1>4, <1>5, PersistType DEF Start
<1>7. commitIndex' \in [Server -> Nat] /\ waiting' \in [Server -> BOOLEAN]
  BY <1>4, AdvanceCommitIndexType DEF Start
<1>8. nextIndex' \in [Server -> [Server -> Nat]] /\ matchIndex' \in [Server -> [Server -> Nat]]
  <2>1. LastLogIndex(s) + 1 \in Nat /\ LastLogIndex(s) + 2 \in Nat
    BY <1>0
  <2> QED BY <2>1 DEF Start, TypeOK
<1> HIDE DEF entry
<1> QED BY <1>4, <1>5, <1>6, <1>7, <1>8 DEF Start, TypeOK, networkVars

LEMMA ReplicateSnapshotType ==
  ASSUME TypeOK, NEW s \in Server, NEW p \in Server, NEW g \in Goroutine,
         ReplicateSnapshot(s, p, g)
  PROVE  TypeOK'
<1> DEFINE call == [phase |-> "sent", id |-> g, from |-> s, to |-> p, Term |-> term[s],
                    LastIncludedIndex |-> lastIncludedIndex[s],
                    LastIncludedTerm |-> lastIncludedTerm[s], Data |-> snapshot[s],
                    reply |-> NoSnap]
<1>1. call \in InstallSnapshotCall
  BY DEF TypeOK, InstallSnapshotCall, Phase, NoSnap
<1>2. snapCalls' = snapCalls \cup {call}
  BY DEF ReplicateSnapshot
<1> HIDE DEF call
<1> QED BY <1>1, <1>2 DEF ReplicateSnapshot, TypeOK, persistentVars, leaderVars, applierVars

LEMMA ReplicateEntriesType ==
  ASSUME TypeOK, NEW s \in Server, NEW p \in Server, NEW g \in Goroutine,
         ReplicateEntries(s, p, g)
  PROVE  TypeOK'
<1> DEFINE next == nextIndex[s][p]
           call == [phase |-> "sent", id |-> g, from |-> s, to |-> p, Term |-> term[s],
                    PrevLogIndex |-> next - 1, PrevlogTerm |-> TermAt(s, next - 1),
                    Entries |-> EntriesFrom(s, next), LeaderCommit |-> commitIndex[s],
                    reply |-> NoAppend]
<1>1. next - 1 \in Nat /\ TermAt(s, next - 1) \in Nat
  BY LogFacts DEF ReplicateEntries
<1>2. EntriesFrom(s, next) \in Seq(LogEntry)
  <2>1. next \in Nat /\ lastIncludedIndex[s] \in Nat /\ next > lastIncludedIndex[s]
    BY DEF ReplicateEntries, TypeOK
  <2>2. SliceIndex(s, next) \in Nat \ {0}
    BY <2>1 DEF SliceIndex
  <2>3. Len(log[s]) \in Nat /\ \A k \in 1 .. Len(log[s]) : log[s][k] \in LogEntry
    BY LogFacts
  <2>4. \A k \in SliceIndex(s, next) .. Len(log[s]) : log[s][k] \in LogEntry
    BY <2>2, <2>3
  <2> QED BY <2>2, <2>3, <2>4, SubSeqProperties DEF EntriesFrom
<1>3. call \in AppendEntriesCall
  BY <1>1, <1>2 DEF TypeOK, AppendEntriesCall, Phase, NoAppend, AppendEntriesReply
<1>4. appendCalls' = appendCalls \cup {call}
  BY DEF ReplicateEntries
<1>5. UNCHANGED <<persistentVars, state, commitIndex, leaderVars, votes, applierVars,
                  disk, voteCalls, snapCalls>>
  BY DEF ReplicateEntries
<1> HIDE DEF call
<1> QED BY <1>3, <1>4, <1>5 DEF TypeOK, persistentVars, leaderVars, applierVars

\* Setting one cursor of one leader.
LEMMA CursorType ==
  ASSUME NEW f \in [Server -> [Server -> Nat]], NEW s \in Server, NEW p \in Server, NEW v \in Nat
  PROVE  [f EXCEPT ![s][p] = v] \in [Server -> [Server -> Nat]]
<1>1. [f[s] EXCEPT ![p] = v] \in [Server -> Nat]
  OBVIOUS
<1> QED BY <1>1

\* The back-up after a rejection yields an index.
LEMMA BackUpType ==
  ASSUME TypeOK, NEW s \in Server, NEW reply \in AppendEntriesReply
  PROVE  BackUp(s, reply) \in Int
<1> DEFINE hits == {i \in lastIncludedIndex[s] .. LastLogIndex(s) : TermAt(s, i) = reply.XTerm}
<1>0. LastLogIndex(s) \in Nat /\ lastIncludedIndex[s] \in Nat
      /\ reply.XLen \in Int /\ reply.XIndex \in Int
  BY LogFacts DEF TypeOK, AppendEntriesReply
<1>1. ASSUME hits # {} PROVE Max(hits) \in Int
  <2>1. hits \subseteq lastIncludedIndex[s] .. LastLogIndex(s)
    OBVIOUS
  <2>2. lastIncludedIndex[s] \in Int /\ LastLogIndex(s) \in Int
    BY <1>0
  <2> HIDE DEF hits
  <2>3. Max(hits) \in hits
    BY <1>1, <2>1, <2>2, MaxIsGreatest
  <2>4. Max(hits) \in lastIncludedIndex[s] .. LastLogIndex(s)
    BY Zenon, <2>1, <2>3
  <2> QED BY <2>2, <2>4
<1>2. BackUp(s, reply) = IF reply.XTerm = -1 THEN reply.XLen
                         ELSE IF hits # {} THEN Max(hits) + 1 ELSE reply.XIndex
  BY DEF BackUp
<1> HIDE DEF hits
<1>3. BackUp(s, reply) \in Int
  BY <1>0, <1>1, <1>2
<1> QED BY <1>3

LEMMA NextAfterRejectType ==
  ASSUME TypeOK, NEW s \in Server, NEW p \in Server, NEW reply \in AppendEntriesReply
  PROVE  NextAfterReject(s, p, reply) \in Nat
<1>0. LastLogIndex(s) \in Nat /\ matchIndex[s][p] \in Nat
  BY LogFacts DEF TypeOK
<1>3. BackUp(s, reply) \in Int
  BY BackUpType
<1>4. Max({1, BackUp(s, reply)}) \in Int
  BY <1>3, MaxOfTwo
<1>5. Min({LastLogIndex(s) + 1, Max({1, BackUp(s, reply)})}) \in Int
  <2>1. LastLogIndex(s) + 1 \in Int
    BY <1>0
  <2> HIDE <1>0
  <2> QED BY <2>1, <1>4, MinOfTwo
<1>6. ASSUME NEW m \in Int PROVE Max({matchIndex[s][p] + 1, m}) \in Nat
  <2>1. matchIndex[s][p] + 1 \in Nat
    BY <1>0
  <2> QED BY <2>1, MaxOfTwo
<1> QED BY <1>5, <1>6 DEF NextAfterReject

LEMMA HandleAppendReplyType ==
  ASSUME TypeOK, NEW c \in appendCalls, HandleAppendReply(c)
  PROVE  TypeOK'
<1> DEFINE s == c.from
           p == c.to
<1>0. c \in AppendEntriesCall /\ s \in Server /\ p \in Server /\ c.reply \in AppendEntriesReply
      /\ c.reply.Term \in Nat /\ c.PrevLogIndex \in Nat /\ Len(c.Entries) \in Nat
  BY LenProperties DEF TypeOK, AppendEntriesCall, AppendEntriesReply
<1>1. appendCalls' \subseteq appendCalls /\ UNCHANGED <<voteCalls, snapCalls>>
  BY DEF HandleAppendReply
<1>2. CASE StepDown(s, c.reply.Term)
  BY <1>0, <1>1, <1>2, StepDownType
<1>3. CASE /\ IF Matched(c) > matchIndex[s][p]
                THEN /\ matchIndex' = [matchIndex EXCEPT ![s][p] = Matched(c)]
                     /\ nextIndex' = [nextIndex EXCEPT ![s][p] = Matched(c) + 1]
                ELSE UNCHANGED leaderVars
           /\ AdvanceCommitIndex(s, log[s], matchIndex'[s])
           /\ UNCHANGED <<persistentVars, state, votes, lastApplied, pendingSnapshot,
                          delivering, applied, disk>>
  <2>1. Matched(c) \in Nat
    BY <1>0 DEF Matched
  <2>2. nextIndex' \in [Server -> [Server -> Nat]] /\ matchIndex' \in [Server -> [Server -> Nat]]
    <3>1. Matched(c) + 1 \in Nat
      BY <2>1
    <3>2. nextIndex \in [Server -> [Server -> Nat]] /\ matchIndex \in [Server -> [Server -> Nat]]
      BY DEF TypeOK
    <3>3. [matchIndex EXCEPT ![s][p] = Matched(c)] \in [Server -> [Server -> Nat]]
      BY <1>0, <2>1, <3>2, CursorType
    <3>4. [nextIndex EXCEPT ![s][p] = Matched(c) + 1] \in [Server -> [Server -> Nat]]
      BY <1>0, <3>1, <3>2, CursorType
    <3>5. CASE Matched(c) > matchIndex[s][p]
      BY <1>3, <3>3, <3>4, <3>5
    <3>6. CASE ~(Matched(c) > matchIndex[s][p])
      BY <1>3, <3>2, <3>6 DEF leaderVars
    <3> QED BY <3>5, <3>6
  <2>3. commitIndex' \in [Server -> Nat] /\ waiting' \in [Server -> BOOLEAN]
    <3>1. log[s] \in LogType
      BY <1>0 DEF TypeOK
    <3> QED BY <1>0, <1>3, <3>1, AdvanceCommitIndexType
  <2> QED BY <1>1, <1>3, <2>2, <2>3 DEF TypeOK, persistentVars
<1>4. CASE /\ nextIndex' = [nextIndex EXCEPT ![s][p] =
                 IF @ = c.PrevLogIndex + 1 THEN NextAfterReject(s, p, c.reply) ELSE @]
           /\ UNCHANGED <<persistentVars, state, commitIndex, matchIndex, votes, applierVars, disk>>
  <2>1. NextAfterReject(s, p, c.reply) \in Nat
    BY <1>0, NextAfterRejectType
  <2>2. nextIndex' \in [Server -> [Server -> Nat]]
    <3> DEFINE v == IF nextIndex[s][p] = c.PrevLogIndex + 1
                      THEN NextAfterReject(s, p, c.reply) ELSE nextIndex[s][p]
    <3>1. nextIndex \in [Server -> [Server -> Nat]] /\ nextIndex[s][p] \in Nat
      BY <1>0 DEF TypeOK
    <3>2. v \in Nat
      BY <2>1, <3>1
    <3>3. nextIndex' = [nextIndex EXCEPT ![s][p] = v]
      BY <1>4
    <3> HIDE DEF v
    <3> QED BY <1>0, <3>1, <3>2, <3>3, CursorType
  <2> QED BY <1>1, <1>4, <2>2 DEF TypeOK, persistentVars, applierVars
<1>5. CASE UNCHANGED <<persistentVars, state, commitIndex, leaderVars, votes, applierVars, disk>>
  BY <1>1, <1>5 DEF TypeOK, persistentVars, leaderVars, applierVars
<1> QED BY <1>2, <1>3, <1>4, <1>5 DEF HandleAppendReply

LEMMA HandleSnapReplyType ==
  ASSUME TypeOK, NEW c \in snapCalls, HandleSnapReply(c)
  PROVE  TypeOK'
<1> DEFINE s == c.from
           p == c.to
           i == c.LastIncludedIndex
<1>0. s \in Server /\ p \in Server /\ c.reply.Term \in Nat /\ i \in Nat
  BY DEF TypeOK, InstallSnapshotCall
<1>1. snapCalls' \subseteq snapCalls /\ UNCHANGED <<voteCalls, appendCalls>>
  BY DEF HandleSnapReply
<1>2. CASE StepDown(s, c.reply.Term)
  BY <1>0, <1>1, <1>2, StepDownType
<1>3. CASE /\ matchIndex' = [matchIndex EXCEPT ![s][p] = Max({@, i})]
           /\ nextIndex' = [nextIndex EXCEPT ![s][p] = Max({@, i + 1})]
           /\ UNCHANGED <<persistentVars, state, commitIndex, votes, applierVars, disk>>
  <2>1. matchIndex[s][p] \in Nat /\ nextIndex[s][p] \in Nat
    BY <1>0 DEF TypeOK
  <2>2. Max({matchIndex[s][p], i}) \in Nat /\ Max({nextIndex[s][p], i + 1}) \in Nat
    BY <1>0, <2>1, MaxOfTwo
  <2>3. nextIndex' \in [Server -> [Server -> Nat]] /\ matchIndex' \in [Server -> [Server -> Nat]]
    BY <1>0, <1>3, <2>2 DEF TypeOK
  <2> QED BY <1>1, <1>3, <2>3 DEF TypeOK, persistentVars, applierVars
<1>4. CASE UNCHANGED <<persistentVars, state, commitIndex, leaderVars, votes, applierVars, disk>>
  BY <1>1, <1>4 DEF TypeOK, persistentVars, leaderVars, applierVars
<1> QED BY <1>2, <1>3, <1>4 DEF HandleSnapReply

\* Past the first three checks of AppendEntries(), PrevLogIndex is in the log.
LEMMA VerdictInLog ==
  ASSUME TypeOK, NEW s \in Server, NEW c \in AppendEntriesCall,
         AppendVerdict(s, c) \in {"accept", "conflict"}
  PROVE  InLog(s, c.PrevLogIndex)
BY LogFacts DEF AppendVerdict, InLog, AppendEntriesCall

\* AppendEntries() fills in a well-formed reply.
LEMMA AppendReplyType ==
  ASSUME TypeOK, NEW s \in Server, NEW c \in AppendEntriesCall
  PROVE  AppendReply(s, c) \in AppendEntriesReply
<1> DEFINE prev == c.PrevLogIndex
           run == {prev} \cup {k \in lastIncludedIndex[s] + 1 .. prev :
                                 \A j \in k .. prev : TermAt(s, j) = TermAt(s, prev)}
           reply == AppendReply(s, c)
<1>0. prev \in Nat /\ c.Term \in Nat /\ term[s] \in Nat /\ lastIncludedIndex[s] \in Nat
      /\ LastLogIndex(s) \in Nat
  BY LogFacts DEF TypeOK, AppendEntriesCall
<1>1. Max({term[s], c.Term}) \in Nat
  BY <1>0, MaxOfTwo
<1>2. ConflictStart(s, prev) \in Nat
  <2>1. run \subseteq Nat /\ run # {}
    BY <1>0
  <2>2. ConflictStart(s, prev) = Min(run)
    BY DEF ConflictStart
  <2> HIDE DEF run
  <2>3. Min(run) \in run
    BY <2>1, MinIsLeast
  <2> QED BY <2>1, <2>2, <2>3
<1>3. AppendVerdict(s, c) = "conflict" => TermAt(s, prev) \in Nat
  BY VerdictInLog, LogFacts
<1>4. /\ -1 \in Int /\ LastLogIndex(s) + 1 \in Int /\ lastIncludedIndex[s] + 1 \in Int
      /\ Nat \subseteq Int
  BY <1>0
<1> HIDE DEF prev, run
<1> QED BY <1>1, <1>2, <1>3, <1>4 DEF AppendReply, AppendEntriesReply, prev

\* The log after AppendEntries() has taken entries in is a log, with the dummy entry it had.
LEMMA MergeType ==
  ASSUME TypeOK, NEW s \in Server, NEW c \in AppendEntriesCall, InLog(s, c.PrevLogIndex)
  PROVE  Merge(s, c) \in LogType /\ Merge(s, c)[1] = log[s][1]
<1> DEFINE base == SliceIndex(s, c.PrevLogIndex)
           n    == Len(c.Entries)
           clash == {i \in 1 .. n : base + i =< Len(log[s]) /\ log[s][base + i].term # c.Entries[i].term}
           keep == IF clash # {} THEN Min(clash) - 1 ELSE Min({n, Len(log[s]) - base})
           left  == SubSeq(log[s], 1, base + keep)
           right == SubSeq(c.Entries, keep + 1, n)
<1>0. /\ log[s] \in Seq(LogEntry) /\ log[s] # <<>> /\ Len(log[s]) \in Nat
      /\ \A k \in 1 .. Len(log[s]) : log[s][k] \in LogEntry
      /\ base \in 1 .. Len(log[s])
  BY LogFacts DEF TypeOK, LogType
<1>1. c.Entries \in Seq(LogEntry) /\ n \in Nat /\ \A k \in 1 .. n : c.Entries[k] \in LogEntry
  BY LenProperties, ElementOfSeq DEF AppendEntriesCall
<1>2. keep \in Nat /\ base + keep =< Len(log[s])
  <2>1. CASE clash # {}
    <3>1. clash \subseteq 1 .. n /\ \A i \in clash : base + i =< Len(log[s])
      OBVIOUS
    <3>2. clash \subseteq Nat
      BY <3>1, <1>1
    <3> HIDE DEF clash
    <3>3. Min(clash) \in clash
      BY <2>1, <3>2, MinIsLeast
    <3>4. Min(clash) \in 1 .. n /\ base + Min(clash) =< Len(log[s])
      BY Zenon, <3>1, <3>3
    <3> HIDE DEF base, n
    <3> QED BY <2>1, <1>0, <1>1, <3>4
  <2>2. CASE clash = {}
    <3>1. n \in Int /\ Len(log[s]) - base \in Int
      BY <1>0, <1>1
    <3>2. Min({n, Len(log[s]) - base}) = IF n =< Len(log[s]) - base THEN n ELSE Len(log[s]) - base
      BY <3>1, MinOfTwo
    <3> HIDE DEF clash, base
    <3> QED BY <2>2, <1>0, <1>1, <3>2
  <2> QED BY <2>1, <2>2
<1>3. Merge(s, c) = IF keep = n THEN log[s] ELSE left \o right
  BY DEF Merge
<1> HIDE DEF keep, base, n, clash
<1>4. left \in Seq(LogEntry) /\ Len(left) = base + keep /\ left[1] = log[s][1]
  <2>1. base + keep \in Nat /\ base + keep >= 1
    BY <1>0, <1>2
  <2>2. \A k \in 1 .. base + keep : log[s][k] \in LogEntry
    BY <1>0, <1>2
  <2> QED BY <2>1, <2>2, SubSeqProperties
<1>5. right \in Seq(LogEntry)
  <2>1. \A k \in keep + 1 .. n : c.Entries[k] \in LogEntry
    BY <1>1, <1>2
  <2> QED BY <1>1, <1>2, <2>1, SubSeqProperties
<1> HIDE DEF left, right
<1>6. left \o right \in Seq(LogEntry) /\ left \o right # <<>>
  <2>1. left # <<>>
    BY <1>0, <1>2, <1>4, EmptySeq
  <2> QED BY <1>4, <1>5, <2>1, ConcatProperties, ConcatEqualIffEmpty
<1>7. (left \o right)[1] = log[s][1]
  BY <1>0, <1>2, <1>4, <1>5, ConcatProperties
<1> QED BY <1>0, <1>3, <1>6, <1>7 DEF LogType

\* What a compaction leaves is a log, behind a dummy entry of the given term.
LEMMA CompactType ==
  ASSUME TypeOK, NEW s \in Server, NEW i \in Nat, NEW t \in Nat, i >= lastIncludedIndex[s]
  PROVE  Compact(s, i, t) \in LogType /\ Compact(s, i, t)[1].term = t
<1> DEFINE dummy == [term |-> t, command |-> Nil]
           agrees == SliceIndex(s, i) =< Len(log[s]) /\ TermAt(s, i) = t
           rest == IF agrees THEN SubSeq(log[s], SliceIndex(s, i) + 1, Len(log[s])) ELSE <<>>
<1>1. <<dummy>> \in Seq(LogEntry) /\ <<dummy>> # <<>>
  BY DEF LogEntry
<1>2. rest \in Seq(LogEntry)
  <2>1. /\ lastIncludedIndex[s] \in Nat /\ Len(log[s]) \in Nat
        /\ \A k \in 1 .. Len(log[s]) : log[s][k] \in LogEntry
    BY LogFacts
  <2>2. SliceIndex(s, i) \in Nat
    BY <2>1 DEF SliceIndex
  <2>3. SubSeq(log[s], SliceIndex(s, i) + 1, Len(log[s])) \in Seq(LogEntry)
    <3>1. \A k \in SliceIndex(s, i) + 1 .. Len(log[s]) : log[s][k] \in LogEntry
      BY <2>1, <2>2
    <3> QED BY <2>1, <2>2, <3>1, SubSeqProperties
  <2> QED BY <2>3, EmptySeq
<1>3. Compact(s, i, t) = <<dummy>> \o rest /\ dummy.term = t
  BY DEF Compact
<1> HIDE DEF dummy, rest
<1>4. <<dummy>> \o rest \in Seq(LogEntry)
  BY <1>1, <1>2, ConcatProperties
<1>5. <<dummy>> \o rest # <<>>
  BY <1>1, <1>2, ConcatEqualIffEmpty
<1>6. (<<dummy>> \o rest)[1] = dummy
  BY <1>1, <1>2, ConcatProperties
<1> QED BY <1>3, <1>4, <1>5, <1>6 DEF LogType

LEMMA AppendEntriesType ==
  ASSUME TypeOK, NEW c \in appendCalls, AppendEntries(c)
  PROVE  TypeOK'
<1> DEFINE s == c.to
           verdict == AppendVerdict(s, c)
           newTerm == c.Term > term[s]
           newLog  == IF verdict = "accept" THEN Merge(s, c) ELSE log[s]
           newCommit == Min({c.LeaderCommit, lastIncludedIndex[s] + Len(newLog) - 1})
<1>0. c \in AppendEntriesCall /\ s \in Server /\ c.Term \in Nat /\ c.LeaderCommit \in Nat
  BY DEF TypeOK, AppendEntriesCall
<1>1. /\ term' = [term EXCEPT ![s] = IF newTerm THEN c.Term ELSE @]
      /\ voteFor' = [voteFor EXCEPT ![s] = IF newTerm THEN Nil ELSE @]
      /\ state' = [state EXCEPT ![s] = IF verdict # "stale" THEN "Follower" ELSE @]
      /\ log' = [log EXCEPT ![s] = newLog]
      /\ UNCHANGED <<lastIncludedIndex, lastIncludedTerm, snapshot>>
      /\ Persist(s) \/ UNCHANGED disk
      /\ IF verdict = "accept" /\ newCommit > commitIndex[s]
           THEN commitIndex' = [commitIndex EXCEPT ![s] = newCommit] /\ Signal(s)
           ELSE UNCHANGED <<commitIndex, waiting>>
      /\ appendCalls' = Answered(appendCalls, c, AppendReply(s, c))
      /\ UNCHANGED <<leaderVars, votes, lastApplied, pendingSnapshot, delivering, applied,
                     voteCalls, snapCalls>>
  BY DEF AppendEntries, PersistIf
<1>2. newLog \in LogType
  <2>1. log[s] \in LogType
    BY <1>0 DEF TypeOK
  <2>2. verdict = "accept" => Merge(s, c) \in LogType
    BY <1>0, VerdictInLog, MergeType
  <2> QED BY <2>1, <2>2
<1> HIDE DEF newLog
<1>3. newCommit > commitIndex[s] => newCommit \in Nat
  <2>1. Len(newLog) \in Nat /\ lastIncludedIndex[s] \in Nat /\ commitIndex[s] \in Nat
    BY <1>0, <1>2, LenProperties DEF TypeOK, LogType
  <2>2. lastIncludedIndex[s] + Len(newLog) - 1 \in Int
    BY <2>1
  <2>3. newCommit \in Int
    BY <1>0, <2>2, MinOfTwo
  <2> HIDE DEF newCommit
  <2> QED BY <2>1, <2>3
<1> HIDE DEF s, verdict, newTerm, newCommit
<1>4. commitIndex' \in [Server -> Nat] /\ waiting' \in [Server -> BOOLEAN]
  BY <1>0, <1>1, <1>3 DEF TypeOK, Signal
<1>5. /\ term' \in [Server -> Nat] /\ voteFor' \in [Server -> Server \cup {Nil}]
      /\ state' \in [Server -> StateType]
  BY <1>0, <1>1 DEF TypeOK, StateType
<1>6. /\ log' \in [Server -> LogType] /\ lastIncludedIndex' \in [Server -> Nat]
      /\ lastIncludedTerm' \in [Server -> Nat] /\ snapshot' \in [Server -> Data]
  BY <1>0, <1>1, <1>2 DEF TypeOK
<1>7. disk' \in [Server -> PersistentState]
  BY <1>0, <1>1, <1>5, <1>6, PersistType
<1>8. appendCalls' \subseteq AppendEntriesCall
  <2>1. appendCalls \in SUBSET AppendEntriesCall
    BY DEF TypeOK
  <2> QED BY <1>0, <1>1, <2>1, AppendReplyType, AppendCallTypes
<1> QED BY <1>1, <1>4, <1>5, <1>6, <1>7, <1>8 DEF TypeOK, leaderVars

LEMMA SnapshotType ==
  ASSUME TypeOK, NEW s \in Server, Snapshot(s)
  PROVE  TypeOK'
<1> DEFINE index == Len(applied[s])
           t == TermAt(s, index)
<1>0. index \in Nat /\ index >= lastIncludedIndex[s] /\ t \in Nat /\ applied[s] \in Data
  <2>1. InLog(s, index) /\ index > lastIncludedIndex[s]
    BY DEF Snapshot
  <2> QED BY <2>1, LogFacts, SMTT(40) DEF TypeOK
<1>1. Compact(s, index, t) \in LogType
  BY <1>0, CompactType
<1>2. /\ log' = [log EXCEPT ![s] = Compact(s, index, t)]
      /\ lastIncludedIndex' = [lastIncludedIndex EXCEPT ![s] = index]
      /\ lastIncludedTerm' = [lastIncludedTerm EXCEPT ![s] = t]
      /\ snapshot' = [snapshot EXCEPT ![s] = applied[s]]
      /\ UNCHANGED <<term, voteFor>>
      /\ Persist(s)
      /\ UNCHANGED <<state, commitIndex, leaderVars, votes, applierVars, networkVars>>
  BY DEF Snapshot
<1> HIDE DEF index, t
<1>3. /\ log' \in [Server -> LogType] /\ lastIncludedIndex' \in [Server -> Nat]
      /\ lastIncludedTerm' \in [Server -> Nat] /\ snapshot' \in [Server -> Data]
      /\ term' \in [Server -> Nat] /\ voteFor' \in [Server -> Server \cup {Nil}]
  BY <1>0, <1>1, <1>2 DEF TypeOK
<1>4. disk' \in [Server -> PersistentState]
  BY <1>2, <1>3, PersistType
<1> QED BY <1>2, <1>3, <1>4 DEF TypeOK, leaderVars, applierVars, networkVars

LEMMA InstallSnapshotType ==
  ASSUME TypeOK, IndexOrder, NEW c \in snapCalls, InstallSnapshot(c)
  PROVE  TypeOK'
<1> DEFINE s == c.to
           i == c.LastIncludedIndex
           t == c.LastIncludedTerm
           newTerm == c.Term > term[s]
           install == Installs(s, c)
           pending == [Index |-> i, Term |-> t, Date |-> c.Data]
<1>0. /\ s \in Server /\ c.Term \in Nat /\ i \in Nat /\ t \in Nat /\ c.Data \in Data
      /\ pending \in SnapshotState
  BY DEF TypeOK, InstallSnapshotCall, SnapshotState
<1>1. /\ term' = [term EXCEPT ![s] = IF newTerm THEN c.Term ELSE @]
      /\ voteFor' = [voteFor EXCEPT ![s] = IF newTerm THEN Nil ELSE @]
      /\ state' = [state EXCEPT ![s] = IF c.Term >= term[s] THEN "Follower" ELSE @]
      /\ Persist(s) \/ UNCHANGED disk
      /\ snapCalls' = Answered(snapCalls, c, [Term |-> term'[s]])
      /\ UNCHANGED <<leaderVars, votes, delivering, applied, voteCalls, appendCalls>>
  BY DEF InstallSnapshot, PersistIf
<1>2. \/ /\ install
         /\ log' = [log EXCEPT ![s] = Compact(s, i, t)]
         /\ lastIncludedIndex' = [lastIncludedIndex EXCEPT ![s] = i]
         /\ lastIncludedTerm' = [lastIncludedTerm EXCEPT ![s] = t]
         /\ snapshot' = [snapshot EXCEPT ![s] = c.Data]
         /\ commitIndex' = [commitIndex EXCEPT ![s] = i]
         /\ lastApplied' = [lastApplied EXCEPT ![s] = Max({@, i})]
         /\ pendingSnapshot' = [pendingSnapshot EXCEPT ![s] = pending]
         /\ Signal(s)
      \/ UNCHANGED <<log, lastIncludedIndex, lastIncludedTerm, snapshot,
                     commitIndex, lastApplied, pendingSnapshot, waiting>>
  BY DEF InstallSnapshot
<1>i. install => i >= lastIncludedIndex[s]
  <2>1. install => i > commitIndex[s]
    BY DEF Installs
  <2>2. /\ lastIncludedIndex[s] \in Nat /\ lastApplied[s] \in Nat /\ commitIndex[s] \in Nat
        /\ lastIncludedIndex[s] =< lastApplied[s] /\ lastApplied[s] =< commitIndex[s]
    BY <1>0 DEF TypeOK, IndexOrder
  <2> QED BY <1>0, <2>1, <2>2
<1> HIDE DEF s, i, t, newTerm, install, pending
<1>3. /\ term' \in [Server -> Nat] /\ voteFor' \in [Server -> Server \cup {Nil}]
      /\ state' \in [Server -> StateType]
  BY <1>0, <1>1 DEF TypeOK, StateType
<1>4. /\ log' \in [Server -> LogType] /\ lastIncludedIndex' \in [Server -> Nat]
      /\ lastIncludedTerm' \in [Server -> Nat] /\ snapshot' \in [Server -> Data]
      /\ commitIndex' \in [Server -> Nat] /\ lastApplied' \in [Server -> Nat]
      /\ pendingSnapshot' \in [Server -> SnapshotState \cup {Nil}]
      /\ waiting' \in [Server -> BOOLEAN]
  <2>1. install => Compact(s, i, t) \in LogType
    BY <1>0, <1>i, CompactType
  <2>2. lastApplied[s] \in Nat
    BY <1>0 DEF TypeOK
  <2>3. Max({lastApplied[s], i}) \in Nat
    BY <1>0, <2>2, MaxOfTwo
  <2>4. CASE UNCHANGED <<log, lastIncludedIndex, lastIncludedTerm, snapshot,
                         commitIndex, lastApplied, pendingSnapshot, waiting>>
    BY <2>4 DEF TypeOK
  <2>5. CASE install /\ log' = [log EXCEPT ![s] = Compact(s, i, t)]
    <3>1. log' \in [Server -> LogType]
      BY <1>0, <2>1, <2>5 DEF TypeOK
    <3>2. CASE UNCHANGED <<lastIncludedIndex, lastIncludedTerm, snapshot,
                           commitIndex, lastApplied, pendingSnapshot, waiting>>
      BY <3>1, <3>2 DEF TypeOK
    <3>3. CASE /\ lastIncludedIndex' = [lastIncludedIndex EXCEPT ![s] = i]
               /\ lastIncludedTerm' = [lastIncludedTerm EXCEPT ![s] = t]
               /\ snapshot' = [snapshot EXCEPT ![s] = c.Data]
               /\ commitIndex' = [commitIndex EXCEPT ![s] = i]
               /\ lastApplied' = [lastApplied EXCEPT ![s] = Max({@, i})]
               /\ pendingSnapshot' = [pendingSnapshot EXCEPT ![s] = pending]
               /\ Signal(s)
      <4>1. lastApplied' \in [Server -> Nat]
        BY <1>0, <2>3, <3>3 DEF TypeOK
      <4>2. pendingSnapshot' \in [Server -> SnapshotState \cup {Nil}]
        BY <1>0, <3>3 DEF TypeOK
      <4>3. waiting' \in [Server -> BOOLEAN]
        BY <1>0, <3>3 DEF TypeOK, Signal
      <4> QED BY <1>0, <3>1, <3>3, <4>1, <4>2, <4>3 DEF TypeOK
    <3> QED BY <1>2, <3>2, <3>3
  <2> QED BY <1>2, <2>4, <2>5
<1>5. disk' \in [Server -> PersistentState]
  BY <1>0, <1>1, <1>3, <1>4, PersistType
<1>6. snapCalls' \subseteq InstallSnapshotCall
  <2>1. snapCalls \in SUBSET InstallSnapshotCall /\ [Term |-> term'[s]] \in [Term: Nat]
    BY <1>0, <1>3 DEF TypeOK
  <2> QED BY <1>1, <2>1, SnapCallTypes
<1> QED BY <1>1, <1>3, <1>4, <1>5, <1>6 DEF TypeOK, leaderVars

LEMMA ApplierType ==
  ASSUME TypeOK, NEW s \in Server,
         ApplierWait(s) \/ ApplierTakeSnapshot(s) \/ ApplierTakeEntries(s) \/ Deliver(s)
  PROVE  TypeOK'
<1>1. CASE ApplierWait(s)
  BY <1>1 DEF ApplierWait, TypeOK, persistentVars, leaderVars, networkVars
<1>2. CASE ApplierTakeSnapshot(s)
  <2> DEFINE m == [SnapshotValid |-> TRUE, Index |-> pendingSnapshot[s].Index, Command |-> Nil,
                   Snapshot |-> pendingSnapshot[s].Date]
  <2>1. pendingSnapshot[s] \in SnapshotState
    BY <1>2 DEF ApplierTakeSnapshot, TypeOK
  <2>2. <<m>> \in Seq(ApplyMsg)
    BY <2>1 DEF SnapshotState, ApplyMsg
  <2>3. delivering' = [delivering EXCEPT ![s] = <<m>>]
    BY <1>2 DEF ApplierTakeSnapshot
  <2> HIDE DEF m
  <2>4. delivering' \in [Server -> Seq(ApplyMsg)]
    BY <2>2, <2>3 DEF TypeOK
  <2> QED BY <1>2, <2>4 DEF ApplierTakeSnapshot, TypeOK, persistentVars, leaderVars, networkVars
<1>3. CASE ApplierTakeEntries(s)
  <2> DEFINE start == lastApplied[s] + 1
             n == commitIndex[s] - lastApplied[s]
             m(k) == [SnapshotValid |-> FALSE, Index |-> start + k - 1,
                      Command |-> log[s][SliceIndex(s, start + k - 1)].command,
                      Snapshot |-> <<>>]
  <2>1. lastApplied[s] \in Nat /\ commitIndex[s] \in Nat /\ n \in Nat
        /\ InLog(s, start) /\ InLog(s, commitIndex[s])
    BY <1>3 DEF ApplierTakeEntries, TypeOK
  <2>2. ASSUME NEW k \in 1 .. n PROVE m(k) \in ApplyMsg
    <3>0. lastIncludedIndex[s] \in Nat /\ LastLogIndex(s) \in Nat
      BY LogFacts
    <3>1. start + k - 1 \in Nat /\ InLog(s, start + k - 1)
      BY <2>1, <3>0 DEF InLog
    <3>2. log[s][SliceIndex(s, start + k - 1)] \in LogEntry
      BY <3>1, LogFacts
    <3>3. <<>> \in Data
      BY EmptySeq DEF Data
    <3> QED BY <3>1, <3>2, <3>3 DEF ApplyMsg, LogEntry
  <2>3. delivering' = [delivering EXCEPT ![s] = [k \in 1 .. n |-> m(k)]]
    BY <1>3 DEF ApplierTakeEntries
  <2> HIDE DEF m, n
  <2>4. [k \in 1 .. n |-> m(k)] \in Seq(ApplyMsg)
    BY <2>1, <2>2, IsASeq
  <2>5. delivering' \in [Server -> Seq(ApplyMsg)]
    BY <2>3, <2>4 DEF TypeOK
  <2>6. lastApplied' \in [Server -> Nat]
    BY <1>3 DEF ApplierTakeEntries, TypeOK
  <2> QED BY <1>3, <2>5, <2>6
        DEF ApplierTakeEntries, TypeOK, persistentVars, leaderVars, networkVars
<1>4. CASE Deliver(s)
  <2> DEFINE m == Head(delivering[s])
  <2>1. m \in ApplyMsg /\ Tail(delivering[s]) \in Seq(ApplyMsg)
    BY <1>4, HeadTailProperties DEF Deliver, TypeOK
  <2>2. m.Snapshot \in Data /\ Append(applied[s], m.Command) \in Data
    <3>1. m.Snapshot \in Data /\ m.Command \in Command \cup {Nil}
      BY <2>1 DEF ApplyMsg
    <3>2. applied[s] \in Seq(Command \cup {Nil})
      BY DEF TypeOK, Data
    <3> HIDE DEF m
    <3> QED BY <3>1, <3>2, AppendProperties DEF Data
  <2>3. /\ delivering' = [delivering EXCEPT ![s] = Tail(delivering[s])]
        /\ applied' = [applied EXCEPT ![s] =
              IF m.SnapshotValid THEN m.Snapshot ELSE Append(applied[s], m.Command)]
    BY <1>4 DEF Deliver
  <2> HIDE DEF m
  <2>4. delivering' \in [Server -> Seq(ApplyMsg)] /\ applied' \in [Server -> Data]
    BY <2>1, <2>2, <2>3 DEF TypeOK
  <2> QED BY <1>4, <2>4 DEF Deliver, TypeOK, persistentVars, leaderVars, networkVars
<1> QED BY <1>1, <1>2, <1>3, <1>4

LEMMA FailureType ==
  ASSUME TypeOK,
         \/ \E c \in voteCalls : VoteCallFails(c)
         \/ \E c \in appendCalls : AppendCallFails(c)
         \/ \E c \in snapCalls : SnapCallFails(c)
  PROVE  TypeOK'
<1>1. /\ voteCalls' \subseteq voteCalls /\ appendCalls' \subseteq appendCalls
      /\ snapCalls' \subseteq snapCalls
      /\ UNCHANGED <<persistentVars, state, commitIndex, leaderVars, votes, applierVars, disk>>
  BY DEF VoteCallFails, AppendCallFails, SnapCallFails
<1> QED BY <1>1 DEF TypeOK, persistentVars, leaderVars, applierVars

LEMMA RestartType ==
  ASSUME TypeOK, NEW s \in Server, Restart(s)
  PROVE  TypeOK'
<1>1. /\ disk[s].Term \in Nat /\ disk[s].VoteFor \in Server \cup {Nil} /\ disk[s].Log \in LogType
      /\ disk[s].LastIncludedIndex \in Nat /\ disk[s].LastIncludedTerm \in Nat
      /\ disk[s].Snapshot \in Data
  BY DEF TypeOK, PersistentState
<1>2. /\ voteCalls' \subseteq RequestVoteCall /\ appendCalls' \subseteq AppendEntriesCall
      /\ snapCalls' \subseteq InstallSnapshotCall
  <2>1. /\ voteCalls \in SUBSET RequestVoteCall /\ appendCalls \in SUBSET AppendEntriesCall
        /\ snapCalls \in SUBSET InstallSnapshotCall
    BY DEF TypeOK
  <2> QED BY <2>1, VoteCallTypes, AppendCallTypes, SnapCallTypes DEF Restart, ReadPersist
<1>3. [p \in Server |-> 0] \in [Server -> Nat] /\ <<>> \in Seq(ApplyMsg)
  BY EmptySeq
<1>4. /\ term' \in [Server -> Nat] /\ voteFor' \in [Server -> Server \cup {Nil}]
      /\ log' \in [Server -> LogType] /\ lastIncludedIndex' \in [Server -> Nat]
      /\ lastIncludedTerm' \in [Server -> Nat] /\ snapshot' \in [Server -> Data]
      /\ applied' \in [Server -> Data]
  BY <1>1 DEF Restart, ReadPersist, TypeOK
<1>5. /\ state' \in [Server -> StateType] /\ commitIndex' \in [Server -> Nat]
      /\ lastApplied' \in [Server -> Nat] /\ waiting' \in [Server -> BOOLEAN]
      /\ nextIndex' \in [Server -> [Server -> Nat]] /\ matchIndex' \in [Server -> [Server -> Nat]]
      /\ votes' \in [Server -> SUBSET Server]
      /\ pendingSnapshot' \in [Server -> SnapshotState \cup {Nil}]
      /\ delivering' \in [Server -> Seq(ApplyMsg)]
  BY <1>1, <1>3 DEF Restart, ReadPersist, TypeOK, StateType
<1> QED BY <1>2, <1>4, <1>5 DEF Restart, ReadPersist, TypeOK

LEMMA InitType == Init => TypeOK
<1> SUFFICES ASSUME Init PROVE TypeOK
  OBVIOUS
<1>1. <<Dummy>> \in LogType /\ <<>> \in Data /\ <<>> \in Seq(ApplyMsg)
  <2>1. Dummy \in LogEntry
    BY DEF Dummy, LogEntry
  <2> HIDE DEF Dummy
  <2> QED BY <2>1, EmptySeq DEF LogType, Data
<1>2. [Term |-> 0, VoteFor |-> Nil, Log |-> <<Dummy>>, LastIncludedIndex |-> 0,
       LastIncludedTerm |-> 0, Snapshot |-> <<>>] \in PersistentState
  BY <1>1 DEF PersistentState
<1> QED BY <1>1, <1>2 DEF Init, TypeOK, StateType

\* Every step preserves the types, given the order of the indexes.
LEMMA NextType ==
  ASSUME TypeOK, IndexOrder, [Next]_vars
  PROVE  TypeOK'
<1>1. ASSUME NEW s \in Server, StartElection(s) PROVE TypeOK'
  BY <1>1, StartElectionType
<1>2. ASSUME NEW c \in voteCalls, RequestVote(c) PROVE TypeOK'
  BY <1>2, RequestVoteType
<1>3. ASSUME NEW c \in voteCalls, HandleVoteReply(c) PROVE TypeOK'
  BY <1>3, HandleVoteReplyType
<1>4. ASSUME NEW s \in Server, NEW command \in Command, Start(s, command) PROVE TypeOK'
  BY <1>4, StartType
<1>5. ASSUME NEW s \in Server, NEW p \in Server, NEW g \in Goroutine, ReplicateEntries(s, p, g)
      PROVE  TypeOK'
  BY <1>5, ReplicateEntriesType
<1>6. ASSUME NEW s \in Server, NEW p \in Server, NEW g \in Goroutine, ReplicateSnapshot(s, p, g)
      PROVE  TypeOK'
  BY <1>6, ReplicateSnapshotType
<1>7. ASSUME NEW c \in appendCalls, AppendEntries(c) PROVE TypeOK'
  BY <1>7, AppendEntriesType
<1>8. ASSUME NEW c \in appendCalls, HandleAppendReply(c) PROVE TypeOK'
  BY <1>8, HandleAppendReplyType
<1>9. ASSUME NEW c \in snapCalls, InstallSnapshot(c) PROVE TypeOK'
  BY <1>9, InstallSnapshotType
<1>10. ASSUME NEW c \in snapCalls, HandleSnapReply(c) PROVE TypeOK'
  BY <1>10, HandleSnapReplyType
<1>11. ASSUME NEW s \in Server, Snapshot(s) PROVE TypeOK'
  BY <1>11, SnapshotType
<1>12. ASSUME NEW s \in Applying,
              ApplierWait(s) \/ ApplierTakeSnapshot(s) \/ ApplierTakeEntries(s) \/ Deliver(s)
       PROVE  TypeOK'
  <2>1. s \in Server
    BY RaftAssumption
  <2> QED BY <2>1, <1>12, ApplierType
<1>13. ASSUME NEW s \in Crashing, Restart(s) PROVE TypeOK'
  <2>1. s \in Server
    BY RaftAssumption
  <2> QED BY <2>1, <1>13, RestartType
<1>14. ASSUME \/ \E c \in voteCalls : VoteCallFails(c)
              \/ \E c \in appendCalls : AppendCallFails(c)
              \/ \E c \in snapCalls : SnapCallFails(c)
       PROVE  TypeOK'
  BY <1>14, FailureType
<1>15. ASSUME UNCHANGED vars PROVE TypeOK'
  BY <1>15 DEF vars, TypeOK, persistentVars, leaderVars, applierVars, networkVars
<1> QED BY <1>1, <1>2, <1>3, <1>4, <1>5, <1>6, <1>7, <1>8, <1>9, <1>10, <1>11, <1>12, <1>13,
           <1>14, <1>15 DEF Next

-----------------------------------------------------------------------------
(* THE ORDER OF THE INDEXES *)

LEMMA AdvanceCommitIndexGrows ==
  ASSUME TypeOK, NEW s \in Server, NEW lg \in LogType, NEW match,
         AdvanceCommitIndex(s, lg, match)
  PROVE  \A p \in Server : commitIndex'[p] >= commitIndex[p]
<1>0. \A p \in Server : commitIndex[p] \in Nat
  BY DEF TypeOK
<1>1. CASE Committable(s, lg, match) = {}
  BY <1>0, <1>1 DEF AdvanceCommitIndex
<1>2. CASE Committable(s, lg, match) # {}
  <2> DEFINE a == commitIndex[s] + 1
             b == lastIncludedIndex[s] + Len(lg) - 1
  <2>1. a \in Nat /\ b \in Int
    BY LenProperties DEF TypeOK, LogType
  <2>2. Committable(s, lg, match) \subseteq a .. b
    BY DEF Committable
  <2>3. Max(Committable(s, lg, match)) \in a .. b
    <3> HIDE DEF a, b
    <3> QED BY <1>2, <2>1, <2>2, MaxIsGreatest
  <2>4. Max(Committable(s, lg, match)) >= commitIndex[s]
    <3> DEFINE m == Max(Committable(s, lg, match))
    <3> HIDE DEF m
    <3>1. m \in a .. b
      BY <2>3 DEF m
    <3>2. m >= commitIndex[s]
      BY <1>0, <2>1, <3>1
    <3> QED BY <3>2 DEF m
  <2>5. commitIndex' = [commitIndex EXCEPT ![s] = Max(Committable(s, lg, match))]
    BY <1>2 DEF AdvanceCommitIndex
  <2>6. commitIndex \in [Server -> Nat]
    BY DEF TypeOK
  <2> DEFINE m == Max(Committable(s, lg, match))
  <2> HIDE DEF m
  <2>7. m >= commitIndex[s] /\ commitIndex' = [commitIndex EXCEPT ![s] = m]
    BY <2>4, <2>5 DEF m
  <2>8. SUFFICES ASSUME NEW p \in Server
                 PROVE  commitIndex'[p] >= commitIndex[p]
    OBVIOUS
  <2>9. CASE p = s
    BY <2>6, <2>7, <2>9
  <2>10. CASE p # s
    <3>1. commitIndex'[p] = commitIndex[p]
      BY <2>6, <2>7, <2>10
    <3> QED BY <1>0, <3>1
  <2> QED BY <2>9, <2>10
<1> QED BY <1>1, <1>2

\* The indexes keep their order when only commitIndex grows.
LEMMA OrderKept ==
  ASSUME TypeOK, TypeOK', IndexOrder, UNCHANGED <<lastIncludedIndex, lastApplied>>,
         \A p \in Server : commitIndex'[p] >= commitIndex[p]
  PROVE  IndexOrder'
BY DEF IndexOrder, TypeOK

\* Every step preserves the order of the indexes.
LEMMA NextOrder ==
  ASSUME TypeOK, TypeOK', IndexOrder, [Next]_vars
  PROVE  IndexOrder'
<1>0. \A p \in Server : /\ commitIndex[p] \in Nat /\ lastApplied[p] \in Nat
                        /\ lastIncludedIndex[p] \in Nat
  BY DEF TypeOK
<1>1. CASE UNCHANGED <<lastIncludedIndex, lastApplied, commitIndex>>
  BY <1>1 DEF IndexOrder
<1>2. ASSUME NEW s \in Server, NEW command \in Command, Start(s, command)
      PROVE  IndexOrder'
  <2>1. log'[s] \in LogType
    BY DEF TypeOK
  <2>2. \A p \in Server : commitIndex'[p] >= commitIndex[p]
    BY <1>2, <2>1, AdvanceCommitIndexGrows DEF Start
  <2> QED BY <1>2, <2>2, OrderKept DEF Start
<1>3. ASSUME NEW c \in appendCalls, HandleAppendReply(c),
             ~UNCHANGED <<lastIncludedIndex, lastApplied, commitIndex>>
      PROVE  IndexOrder'
  <2>1. c.from \in Server
    BY DEF TypeOK, AppendEntriesCall
  <2>2. AdvanceCommitIndex(c.from, log[c.from], matchIndex'[c.from])
        /\ UNCHANGED <<lastIncludedIndex, lastApplied>>
    BY <1>3 DEF HandleAppendReply, StepDown, persistentVars, applierVars
  <2>3. log[c.from] \in LogType
    BY <2>1 DEF TypeOK
  <2>4. \A p \in Server : commitIndex'[p] >= commitIndex[p]
    BY <2>1, <2>2, <2>3, AdvanceCommitIndexGrows
  <2> QED BY <2>2, <2>4, OrderKept
<1>4. ASSUME NEW c \in appendCalls, AppendEntries(c)
      PROVE  IndexOrder'
  <2> DEFINE s == c.to
  <2>1. s \in Server
    BY DEF TypeOK, AppendEntriesCall
  <2>2. PICK n : \/ n > commitIndex[s] /\ commitIndex' = [commitIndex EXCEPT ![s] = n]
                 \/ UNCHANGED commitIndex
    BY <1>4 DEF AppendEntries
  <2>3. UNCHANGED <<lastIncludedIndex, lastApplied>>
    BY <1>4 DEF AppendEntries
  <2> HIDE DEF s
  <2>4. \A p \in Server : commitIndex'[p] >= commitIndex[p]
    <3>1. CASE UNCHANGED commitIndex
      BY <1>0, <3>1
    <3>2. CASE n > commitIndex[s] /\ commitIndex' = [commitIndex EXCEPT ![s] = n]
      <4>1. commitIndex'[s] = n /\ \A p \in Server \ {s} : commitIndex'[p] = commitIndex[p]
        BY <2>1, <3>2 DEF TypeOK
      <4>2. n \in Nat
        BY <2>1, <4>1 DEF TypeOK
      <4>3. commitIndex'[s] >= commitIndex[s]
        BY <1>0, <2>1, <3>2, <4>1, <4>2
      <4> QED BY <1>0, <4>1, <4>3
    <3> QED BY <2>2, <3>1, <3>2
  <2> QED BY <2>3, <2>4, OrderKept
<1>5. ASSUME NEW c \in snapCalls, InstallSnapshot(c),
             ~UNCHANGED <<lastIncludedIndex, lastApplied, commitIndex>>
      PROVE  IndexOrder'
  <2> DEFINE s == c.to
             i == c.LastIncludedIndex
  <2>1. s \in Server /\ i \in Nat
    BY DEF TypeOK, InstallSnapshotCall
  <2>2. /\ i > commitIndex[s]
        /\ lastIncludedIndex' = [lastIncludedIndex EXCEPT ![s] = i]
        /\ commitIndex' = [commitIndex EXCEPT ![s] = i]
        /\ lastApplied' = [lastApplied EXCEPT ![s] = Max({lastApplied[s], i})]
    BY <1>5 DEF InstallSnapshot, Installs
  <2> HIDE DEF s, i
  <2>3. Max({lastApplied[s], i}) = i
    <3>1. lastApplied[s] < i
      BY <1>0, <2>1, <2>2 DEF IndexOrder
    <3> QED BY <1>0, <2>1, <3>1, MaxOfTwo
  <2> QED BY <2>1, <2>2, <2>3 DEF IndexOrder, TypeOK
<1>6. ASSUME NEW s \in Server, Snapshot(s) PROVE IndexOrder'
  <2>1. /\ Len(applied[s]) =< lastApplied[s]
        /\ lastIncludedIndex' = [lastIncludedIndex EXCEPT ![s] = Len(applied[s])]
        /\ UNCHANGED <<lastApplied, commitIndex>>
    BY <1>6 DEF Snapshot, applierVars
  <2> QED BY <2>1 DEF IndexOrder, TypeOK
<1>7. ASSUME NEW s \in Applying,
             ApplierWait(s) \/ ApplierTakeSnapshot(s) \/ ApplierTakeEntries(s) \/ Deliver(s),
             ~UNCHANGED <<lastIncludedIndex, lastApplied, commitIndex>>
      PROVE  IndexOrder'
  <2>1. /\ lastApplied[s] < commitIndex[s]
        /\ lastApplied' = [lastApplied EXCEPT ![s] = commitIndex[s]]
        /\ UNCHANGED <<lastIncludedIndex, commitIndex>>
    BY <1>7 DEF ApplierWait, ApplierTakeSnapshot, ApplierTakeEntries, Deliver, persistentVars
  <2>2. s \in Server
    BY RaftAssumption
  <2> QED BY <1>0, <2>1, <2>2 DEF IndexOrder, TypeOK
<1>8. ASSUME NEW s \in Crashing, Restart(s) PROVE IndexOrder'
  <2>1. s \in Server
    BY RaftAssumption
  <2> QED BY <1>0, <1>8, <2>1 DEF Restart, ReadPersist, IndexOrder, TypeOK
<1>9. ASSUME \/ \E s \in Server : StartElection(s)
             \/ \E c \in voteCalls : RequestVote(c) \/ HandleVoteReply(c) \/ VoteCallFails(c)
             \/ \E s, p \in Server, g \in Goroutine : ReplicateEntries(s, p, g)
             \/ \E s, p \in Server, g \in Goroutine : ReplicateSnapshot(s, p, g)
             \/ \E c \in appendCalls : AppendCallFails(c)
             \/ \E c \in snapCalls : HandleSnapReply(c) \/ SnapCallFails(c)
             \/ UNCHANGED vars
      PROVE  UNCHANGED <<lastIncludedIndex, lastApplied, commitIndex>>
  <2>1. ASSUME NEW s \in Server, StartElection(s)
        PROVE  UNCHANGED <<lastIncludedIndex, lastApplied, commitIndex>>
    BY <2>1 DEF StartElection, applierVars
  <2>2. ASSUME NEW c \in voteCalls, RequestVote(c) \/ VoteCallFails(c)
        PROVE  UNCHANGED <<lastIncludedIndex, lastApplied, commitIndex>>
    BY <2>2 DEF RequestVote, VoteCallFails, persistentVars, applierVars
  <2>3. ASSUME NEW c \in voteCalls, HandleVoteReply(c)
        PROVE  UNCHANGED <<lastIncludedIndex, lastApplied, commitIndex>>
    BY <2>3 DEF HandleVoteReply, StepDown, persistentVars, applierVars
  <2>4. ASSUME NEW s \in Server, NEW p \in Server, NEW g \in Goroutine,
               ReplicateEntries(s, p, g) \/ ReplicateSnapshot(s, p, g)
        PROVE  UNCHANGED <<lastIncludedIndex, lastApplied, commitIndex>>
    BY <2>4 DEF ReplicateEntries, ReplicateSnapshot, persistentVars, applierVars
  <2>5. ASSUME NEW c \in snapCalls, HandleSnapReply(c)
        PROVE  UNCHANGED <<lastIncludedIndex, lastApplied, commitIndex>>
    BY <2>5 DEF HandleSnapReply, StepDown, persistentVars, applierVars
  <2>6. ASSUME NEW c, AppendCallFails(c) \/ SnapCallFails(c)
        PROVE  UNCHANGED <<lastIncludedIndex, lastApplied, commitIndex>>
    BY <2>6 DEF AppendCallFails, SnapCallFails, persistentVars, applierVars
  <2>7. ASSUME UNCHANGED vars
        PROVE  UNCHANGED <<lastIncludedIndex, lastApplied, commitIndex>>
    BY <2>7 DEF vars, persistentVars, applierVars
  <2> QED BY <1>9, <2>1, <2>2, <2>3, <2>4, <2>5, <2>6, <2>7
<1> QED BY <1>1, <1>2, <1>3, <1>4, <1>5, <1>6, <1>7, <1>8, <1>9 DEF Next

\* Every variable of the peers and every RPC in flight always has its type; in
\* particular a log never loses its dummy entry and no cursor goes below zero.
THEOREM TypeCorrectness == Spec => []TypeOK
<1>1. Init => TypeOK /\ IndexOrder
  <2>1. Init => IndexOrder
    BY DEF Init, IndexOrder
  <2> QED BY <2>1, InitType
<1>2. TypeOK /\ IndexOrder /\ [Next]_vars => TypeOK' /\ IndexOrder'
  BY NextType, NextOrder
<1> QED BY <1>1, <1>2, PTL DEF Spec

\* A snapshot covers only what has been handed to the service, which is only what is
\* committed, on every peer and across crashes.
THEOREM IndexesOrdered == Spec => []IndexOrder
<1>1. Init => TypeOK /\ IndexOrder
  <2>1. Init => IndexOrder
    BY DEF Init, IndexOrder
  <2> QED BY <2>1, InitType
<1>2. TypeOK /\ IndexOrder /\ [Next]_vars => TypeOK' /\ IndexOrder'
  BY NextType, NextOrder
<1> QED BY <1>1, <1>2, PTL DEF Spec

-----------------------------------------------------------------------------
(* DURABILITY *)

\* A snapshot in flight has the length its index says.
SnapshotsInFlight == \A c \in snapCalls : Len(c.Data) = c.LastIncludedIndex

\* What Persister.Save is given for server s.
Image(s) == [Term |-> term[s], VoteFor |-> voteFor[s], Log |-> log[s],
             LastIncludedIndex |-> lastIncludedIndex[s],
             LastIncludedTerm |-> lastIncludedTerm[s], Snapshot |-> snapshot[s]]

\* The parts of DurableState for one server.
Durable(s) == /\ disk[s] = Image(s)
              /\ Len(snapshot[s]) = lastIncludedIndex[s]
              /\ log[s][1].term = lastIncludedTerm[s]

LEMMA DurableParts == DurableState <=> \A s \in Server : Durable(s)
BY DEF DurableState, Durable, Image

\* A step in which only server s can change what is durable, and saves what it changed.
LEMMA OneSaves ==
  ASSUME TypeOK, TypeOK', DurableState, NEW s \in Server,
         \A p \in Server \ {s} : /\ term'[p] = term[p] /\ voteFor'[p] = voteFor[p]
                                 /\ log'[p] = log[p] /\ snapshot'[p] = snapshot[p]
                                 /\ lastIncludedIndex'[p] = lastIncludedIndex[p]
                                 /\ lastIncludedTerm'[p] = lastIncludedTerm[p],
         \/ Persist(s)
         \/ /\ term'[s] = term[s] /\ voteFor'[s] = voteFor[s]
            /\ log'[s] = log[s] /\ snapshot'[s] = snapshot[s]
            /\ lastIncludedIndex'[s] = lastIncludedIndex[s]
            /\ lastIncludedTerm'[s] = lastIncludedTerm[s]
            /\ UNCHANGED disk,
         Len(snapshot'[s]) = lastIncludedIndex'[s],
         log'[s][1].term = lastIncludedTerm'[s]
  PROVE  DurableState'
<1>1. \A p \in Server : Durable(p)
  BY DurableParts
<1>2. Durable(s)'
  <2>1. disk'[s] = Image(s)'
    <3>1. CASE Persist(s)
      BY <3>1 DEF Persist, Image, TypeOK
    <3>2. CASE ~Persist(s)
      BY <1>1, <3>2 DEF Durable, Image
    <3> QED BY <3>1, <3>2
  <2> QED BY <2>1 DEF Durable
<1>3. ASSUME NEW p \in Server \ {s} PROVE Durable(p)'
  <2>1. disk'[p] = disk[p]
    BY ZenonT(40) DEF Persist, TypeOK
  <2>2. Image(p)' = Image(p)
    BY DEF Image
  <2> QED BY <1>1, <2>1, <2>2 DEF Durable
<1>4. \A p \in Server : Durable(p)'
  BY <1>2, <1>3
<1> QED BY <1>4 DEF DurableState, Durable, Image

\* A step that changes nothing durable.
LEMMA NoneSaves ==
  ASSUME DurableState, UNCHANGED persistentVars, UNCHANGED disk
  PROVE  DurableState'
BY DEF DurableState, persistentVars

\* A step of server s that changes at most its term and vote, and saves what it changed.
LEMMA VoteSaved ==
  ASSUME TypeOK, TypeOK', DurableState, NEW s \in Server, NEW t, NEW v,
         term' = [term EXCEPT ![s] = t], voteFor' = [voteFor EXCEPT ![s] = v],
         UNCHANGED <<log, lastIncludedIndex, lastIncludedTerm, snapshot>>,
         Persist(s) \/ (t = term[s] /\ v = voteFor[s] /\ UNCHANGED disk)
  PROVE  DurableState'
<1>1. Len(snapshot'[s]) = lastIncludedIndex'[s] /\ log'[s][1].term = lastIncludedTerm'[s]
  BY DEF DurableState
<1>2. /\ term'[s] = t /\ voteFor'[s] = v
      /\ \A p \in Server \ {s} : term'[p] = term[p] /\ voteFor'[p] = voteFor[p]
  BY DEF TypeOK
<1> QED BY <1>1, <1>2, OneSaves

LEMMA StepDownSaves ==
  ASSUME TypeOK, TypeOK', DurableState, NEW s \in Server, NEW t, StepDown(s, t)
  PROVE  DurableState'
BY VoteSaved DEF StepDown

LEMMA StartSaves ==
  ASSUME TypeOK, TypeOK', DurableState, NEW s \in Server, NEW command \in Command,
         Start(s, command)
  PROVE  DurableState'
<1>1. /\ log' = [log EXCEPT ![s] = Append(log[s], [term |-> term[s], command |-> command])]
      /\ UNCHANGED <<term, voteFor, lastIncludedIndex, lastIncludedTerm, snapshot>>
      /\ Persist(s)
  BY DEF Start
<1>2. log[s] \in Seq(LogEntry) /\ Len(log[s]) \in Nat \ {0}
  BY LogFacts
<1>3. [term |-> term[s], command |-> command] \in LogEntry
  BY DEF TypeOK, LogEntry
<1>4. Append(log[s], [term |-> term[s], command |-> command])[1] = log[s][1]
  BY <1>2, <1>3, AppendProperties
<1>5. log'[s][1] = log[s][1] /\ \A p \in Server \ {s} : log'[p] = log[p]
  BY <1>1, <1>4 DEF TypeOK
<1>6. Len(snapshot'[s]) = lastIncludedIndex'[s] /\ log'[s][1].term = lastIncludedTerm'[s]
  BY <1>1, <1>5 DEF DurableState
<1> QED BY <1>1, <1>5, <1>6, OneSaves

LEMMA AppendEntriesSaves ==
  ASSUME TypeOK, TypeOK', DurableState, NEW c \in appendCalls, AppendEntries(c)
  PROVE  DurableState'
<1> DEFINE s == c.to
           newTerm == c.Term > term[s]
           newLog  == IF AppendVerdict(s, c) = "accept" THEN Merge(s, c) ELSE log[s]
<1>0. c \in AppendEntriesCall /\ s \in Server
  BY DEF TypeOK, AppendEntriesCall
<1>1. /\ term' = [term EXCEPT ![s] = IF newTerm THEN c.Term ELSE term[s]]
      /\ voteFor' = [voteFor EXCEPT ![s] = IF newTerm THEN Nil ELSE voteFor[s]]
      /\ log' = [log EXCEPT ![s] = newLog]
      /\ UNCHANGED <<lastIncludedIndex, lastIncludedTerm, snapshot>>
      /\ Persist(s) \/ (~newTerm /\ newLog = log[s] /\ UNCHANGED disk)
  BY DEF AppendEntries, PersistIf
<1>2. newLog[1] = log[s][1]
  BY <1>0, VerdictInLog, MergeType
<1> HIDE DEF s, newTerm, newLog
<1>3. log'[s] = newLog /\ \A p \in Server \ {s} :
         log'[p] = log[p] /\ term'[p] = term[p] /\ voteFor'[p] = voteFor[p]
  BY <1>0, <1>1 DEF TypeOK
<1>4. Len(snapshot'[s]) = lastIncludedIndex'[s] /\ log'[s][1].term = lastIncludedTerm'[s]
  <2>1. Len(snapshot[s]) = lastIncludedIndex[s] /\ log[s][1].term = lastIncludedTerm[s]
    BY <1>0 DEF DurableState
  <2> QED BY <1>1, <1>2, <1>3, <2>1
<1>5. Persist(s) \/ (term'[s] = term[s] /\ voteFor'[s] = voteFor[s] /\ log'[s] = log[s]
                     /\ UNCHANGED disk)
  BY <1>0, <1>1, <1>3 DEF TypeOK
<1> QED BY <1>0, <1>1, <1>3, <1>4, <1>5, OneSaves

LEMMA SnapshotSaves ==
  ASSUME TypeOK, TypeOK', DurableState, NEW s \in Server, Snapshot(s)
  PROVE  DurableState'
<1> DEFINE index == Len(applied[s])
           t     == TermAt(s, index)
<1>1. /\ index > lastIncludedIndex[s]
      /\ InLog(s, index)
      /\ log' = [log EXCEPT ![s] = Compact(s, index, t)]
      /\ lastIncludedIndex' = [lastIncludedIndex EXCEPT ![s] = index]
      /\ lastIncludedTerm' = [lastIncludedTerm EXCEPT ![s] = t]
      /\ snapshot' = [snapshot EXCEPT ![s] = applied[s]]
      /\ UNCHANGED <<term, voteFor>>
      /\ Persist(s)
  BY DEF Snapshot
<1>2. index \in Nat /\ t \in Nat /\ lastIncludedIndex[s] \in Nat
  BY <1>1, LogFacts
<1> HIDE DEF index, t
<1>3. Compact(s, index, t)[1].term = t
  BY <1>1, <1>2, CompactType
<1>4. /\ log'[s] = Compact(s, index, t) /\ lastIncludedIndex'[s] = index
      /\ lastIncludedTerm'[s] = t /\ snapshot'[s] = applied[s]
      /\ \A p \in Server \ {s} : /\ log'[p] = log[p] /\ snapshot'[p] = snapshot[p]
                                 /\ lastIncludedIndex'[p] = lastIncludedIndex[p]
                                 /\ lastIncludedTerm'[p] = lastIncludedTerm[p]
  BY <1>1 DEF TypeOK
<1>5. Len(snapshot'[s]) = lastIncludedIndex'[s] /\ log'[s][1].term = lastIncludedTerm'[s]
  BY <1>3, <1>4 DEF index
<1> QED BY <1>1, <1>4, <1>5, OneSaves

LEMMA InstallSnapshotSaves ==
  ASSUME TypeOK, TypeOK', DurableState, SnapshotsInFlight, IndexOrder,
         NEW c \in snapCalls, InstallSnapshot(c)
  PROVE  DurableState'
<1> DEFINE s == c.to
           i == c.LastIncludedIndex
           t == c.LastIncludedTerm
           newTerm == c.Term > term[s]
           install == Installs(s, c)
<1>0. /\ c \in InstallSnapshotCall /\ s \in Server /\ i \in Nat /\ t \in Nat
      /\ Len(c.Data) = i
  BY DEF TypeOK, InstallSnapshotCall, SnapshotsInFlight
<1>1. /\ term' = [term EXCEPT ![s] = IF newTerm THEN c.Term ELSE term[s]]
      /\ voteFor' = [voteFor EXCEPT ![s] = IF newTerm THEN Nil ELSE voteFor[s]]
      /\ Persist(s) \/ (~newTerm /\ ~install /\ UNCHANGED disk)
      /\ install => Persist(s)
  BY DEF InstallSnapshot, PersistIf
<1>2. CASE install
  <2>1. /\ log' = [log EXCEPT ![s] = Compact(s, i, t)]
        /\ lastIncludedIndex' = [lastIncludedIndex EXCEPT ![s] = i]
        /\ lastIncludedTerm' = [lastIncludedTerm EXCEPT ![s] = t]
        /\ snapshot' = [snapshot EXCEPT ![s] = c.Data]
        /\ i > commitIndex[s]
    BY <1>2 DEF InstallSnapshot, Installs
  <2>2. i >= lastIncludedIndex[s]
    BY <1>0, <2>1 DEF IndexOrder, TypeOK
  <2>3. Compact(s, i, t)[1].term = t
    BY <1>0, <2>2, CompactType
  <2> HIDE DEF s, i, t, newTerm, install
  <2>4. /\ log'[s] = Compact(s, i, t) /\ lastIncludedIndex'[s] = i
        /\ lastIncludedTerm'[s] = t /\ snapshot'[s] = c.Data
        /\ \A p \in Server \ {s} : /\ log'[p] = log[p] /\ snapshot'[p] = snapshot[p]
                                   /\ lastIncludedIndex'[p] = lastIncludedIndex[p]
                                   /\ lastIncludedTerm'[p] = lastIncludedTerm[p]
                                   /\ term'[p] = term[p] /\ voteFor'[p] = voteFor[p]
    BY <1>0, <1>1, <2>1 DEF TypeOK
  <2>5. Len(snapshot'[s]) = lastIncludedIndex'[s] /\ log'[s][1].term = lastIncludedTerm'[s]
    BY <1>0, <2>3, <2>4
  <2> QED BY <1>0, <1>1, <1>2, <2>4, <2>5, OneSaves
<1>3. CASE ~install
  <2>1. UNCHANGED <<log, lastIncludedIndex, lastIncludedTerm, snapshot>>
    BY <1>3 DEF InstallSnapshot
  <2> QED BY <1>0, <1>1, <2>1, VoteSaved
<1> QED BY <1>2, <1>3

\* A peer that restarts works with exactly what it had saved, which is what it worked with.
LEMMA RestartKeeps ==
  ASSUME TypeOK, DurableState, NEW s \in Server, Restart(s)
  PROVE  UNCHANGED persistentVars
<1>1. /\ disk[s].Term = term[s] /\ disk[s].VoteFor = voteFor[s] /\ disk[s].Log = log[s]
      /\ disk[s].LastIncludedIndex = lastIncludedIndex[s]
      /\ disk[s].LastIncludedTerm = lastIncludedTerm[s] /\ disk[s].Snapshot = snapshot[s]
  <2>1. disk[s] = Image(s)
    BY DEF DurableState, Image
  <2> QED BY <2>1 DEF Image
<1> QED BY <1>1 DEF Restart, ReadPersist, TypeOK, persistentVars

\* Every step preserves durability, given the facts it rests on.
LEMMA NextDurable ==
  ASSUME TypeOK, TypeOK', IndexOrder, DurableState, SnapshotsInFlight, [Next]_vars
  PROVE  DurableState'
<1>1. ASSUME NEW s \in Server, StartElection(s) PROVE DurableState'
  BY <1>1, VoteSaved DEF StartElection
<1>2. ASSUME NEW c \in voteCalls, RequestVote(c) PROVE DurableState'
  <2> DEFINE s == c.to
             newTerm == c.Term > term[s]
             grant == Grants(s, c)
  <2>1. s \in Server
    BY DEF TypeOK, RequestVoteCall
  <2>2. /\ term' = [term EXCEPT ![s] = IF newTerm THEN c.Term ELSE term[s]]
        /\ voteFor' = [voteFor EXCEPT ![s] =
                         IF grant THEN c.from ELSE IF newTerm THEN Nil ELSE voteFor[s]]
        /\ UNCHANGED <<log, lastIncludedIndex, lastIncludedTerm, snapshot>>
        /\ Persist(s) \/ (~newTerm /\ ~grant /\ UNCHANGED disk)
    BY <1>2 DEF RequestVote, PersistIf
  <2> QED BY <2>1, <2>2, VoteSaved
<1>3. ASSUME NEW c \in voteCalls, HandleVoteReply(c) PROVE DurableState'
  <2>1. c.from \in Server
    BY DEF TypeOK, RequestVoteCall
  <2>2. StepDown(c.from, c.reply.Term) \/ UNCHANGED <<persistentVars, disk>>
    BY <1>3 DEF HandleVoteReply
  <2> QED BY <2>1, <2>2, StepDownSaves, NoneSaves
<1>4. ASSUME NEW s \in Server, NEW command \in Command, Start(s, command) PROVE DurableState'
  BY <1>4, StartSaves
<1>5. ASSUME NEW c \in appendCalls, AppendEntries(c) PROVE DurableState'
  BY <1>5, AppendEntriesSaves
<1>6. ASSUME NEW c \in appendCalls, HandleAppendReply(c) PROVE DurableState'
  <2>1. c.from \in Server
    BY DEF TypeOK, AppendEntriesCall
  <2>2. StepDown(c.from, c.reply.Term) \/ UNCHANGED <<persistentVars, disk>>
    BY <1>6 DEF HandleAppendReply
  <2> QED BY <2>1, <2>2, StepDownSaves, NoneSaves
<1>7. ASSUME NEW c \in snapCalls, InstallSnapshot(c) PROVE DurableState'
  BY <1>7, InstallSnapshotSaves
<1>8. ASSUME NEW c \in snapCalls, HandleSnapReply(c) PROVE DurableState'
  <2>1. c.from \in Server
    BY DEF TypeOK, InstallSnapshotCall
  <2>2. StepDown(c.from, c.reply.Term) \/ UNCHANGED <<persistentVars, disk>>
    BY <1>8 DEF HandleSnapReply
  <2> QED BY <2>1, <2>2, StepDownSaves, NoneSaves
<1>9. ASSUME NEW s \in Server, Snapshot(s) PROVE DurableState'
  BY <1>9, SnapshotSaves
<1>10. ASSUME NEW s \in Crashing, Restart(s) PROVE DurableState'
  BY <1>10, RestartKeeps, NoneSaves, RaftAssumption DEF Restart, ReadPersist
<1>11. ASSUME \/ \E c \in voteCalls : VoteCallFails(c)
              \/ \E s, p \in Server, g \in Goroutine : ReplicateEntries(s, p, g)
              \/ \E s, p \in Server, g \in Goroutine : ReplicateSnapshot(s, p, g)
              \/ \E c \in appendCalls : AppendCallFails(c)
              \/ \E c \in snapCalls : SnapCallFails(c)
              \/ \E s \in Applying : \/ ApplierWait(s) \/ ApplierTakeSnapshot(s)
                                     \/ ApplierTakeEntries(s) \/ Deliver(s)
              \/ UNCHANGED vars
       PROVE  DurableState'
  <2>1. UNCHANGED <<persistentVars, disk>>
    BY <1>11 DEF VoteCallFails, ReplicateEntries, ReplicateSnapshot, AppendCallFails,
       SnapCallFails, ApplierWait, ApplierTakeSnapshot, ApplierTakeEntries, Deliver, vars
  <2> QED BY <2>1, NoneSaves
<1> QED BY <1>1, <1>2, <1>3, <1>4, <1>5, <1>6, <1>7, <1>8, <1>9, <1>10, <1>11 DEF Next

\* A snapshot stays what it was while it is in flight.
LEMMA NextSnapshotsInFlight ==
  ASSUME TypeOK, DurableState, SnapshotsInFlight, [Next]_vars
  PROVE  SnapshotsInFlight'
<1>1. ASSUME NEW s \in Server, NEW p \in Server, NEW g \in Goroutine, ReplicateSnapshot(s, p, g)
      PROVE  SnapshotsInFlight'
  <2>1. Len(snapshot[s]) = lastIncludedIndex[s]
    BY DEF DurableState
  <2> DEFINE c == [phase |-> "sent", id |-> g, from |-> s, to |-> p, Term |-> term[s],
                   LastIncludedIndex |-> lastIncludedIndex[s],
                   LastIncludedTerm |-> lastIncludedTerm[s], Data |-> snapshot[s],
                   reply |-> NoSnap]
  <2>2. snapCalls' = snapCalls \cup {c}
    BY <1>1 DEF ReplicateSnapshot
  <2>3. c.Data = snapshot[s] /\ c.LastIncludedIndex = lastIncludedIndex[s]
    OBVIOUS
  <2> HIDE DEF c
  <2> QED BY <2>1, <2>2, <2>3 DEF SnapshotsInFlight
<1>2. ASSUME NEW c \in snapCalls, InstallSnapshot(c) PROVE SnapshotsInFlight'
  <2>1. PICK r : snapCalls' = Answered(snapCalls, c, r)
    BY <1>2 DEF InstallSnapshot
  <2>2. c \in InstallSnapshotCall
    BY DEF TypeOK
  <2> QED BY <2>1, <2>2 DEF Answered, SnapshotsInFlight, InstallSnapshotCall
<1>3. ASSUME NEW s \in Crashing, Restart(s) PROVE SnapshotsInFlight'
  <2>1. snapCalls' = Orphaned(snapCalls, s) /\ snapCalls \subseteq InstallSnapshotCall
    BY <1>3 DEF Restart, ReadPersist, TypeOK
  <2> QED BY <2>1 DEF Orphaned, SnapshotsInFlight, InstallSnapshotCall
<1>4. ASSUME NEW c \in snapCalls, HandleSnapReply(c) \/ SnapCallFails(c) PROVE SnapshotsInFlight'
  BY <1>4 DEF HandleSnapReply, SnapCallFails, SnapshotsInFlight
<1>5. ASSUME UNCHANGED snapCalls PROVE SnapshotsInFlight'
  BY <1>5 DEF SnapshotsInFlight
<1>6. ASSUME \/ \E s \in Server : StartElection(s)
             \/ \E c \in voteCalls : RequestVote(c) \/ HandleVoteReply(c) \/ VoteCallFails(c)
             \/ \E s \in Server, command \in Command : Start(s, command)
             \/ \E s, p \in Server, g \in Goroutine : ReplicateEntries(s, p, g)
             \/ \E c \in appendCalls : AppendEntries(c) \/ HandleAppendReply(c) \/ AppendCallFails(c)
             \/ \E s \in Server : Snapshot(s)
             \/ \E s \in Applying : \/ ApplierWait(s) \/ ApplierTakeSnapshot(s)
                                    \/ ApplierTakeEntries(s) \/ Deliver(s)
             \/ UNCHANGED vars
      PROVE  UNCHANGED snapCalls
  <2>1. ASSUME NEW s \in Server, StartElection(s) PROVE UNCHANGED snapCalls
    BY <2>1 DEF StartElection
  <2>2. ASSUME NEW c \in voteCalls, RequestVote(c) \/ HandleVoteReply(c) \/ VoteCallFails(c)
        PROVE  UNCHANGED snapCalls
    BY <2>2 DEF RequestVote, HandleVoteReply, VoteCallFails
  <2>3. ASSUME NEW s, NEW command, Start(s, command) \/ Snapshot(s)
        PROVE  UNCHANGED snapCalls
    BY <2>3 DEF Start, Snapshot, networkVars
  <2>4. ASSUME NEW s, NEW p, NEW g, ReplicateEntries(s, p, g) PROVE UNCHANGED snapCalls
    BY <2>4 DEF ReplicateEntries
  <2>5. ASSUME NEW c, AppendEntries(c) \/ HandleAppendReply(c) \/ AppendCallFails(c)
        PROVE  UNCHANGED snapCalls
    BY <2>5 DEF AppendEntries, HandleAppendReply, AppendCallFails
  <2>6. ASSUME NEW s, \/ ApplierWait(s) \/ ApplierTakeSnapshot(s)
                      \/ ApplierTakeEntries(s) \/ Deliver(s)
        PROVE  UNCHANGED snapCalls
    BY <2>6 DEF ApplierWait, ApplierTakeSnapshot, ApplierTakeEntries, Deliver, networkVars
  <2>7. ASSUME UNCHANGED vars PROVE UNCHANGED snapCalls
    BY <2>7 DEF vars, networkVars
  <2> QED BY <1>6, <2>1, <2>2, <2>3, <2>4, <2>5, <2>6, <2>7
<1> QED BY <1>1, <1>2, <1>3, <1>4, <1>5, <1>6 DEF Next

\* The inductive invariant of this section.
DurableInv == TypeOK /\ IndexOrder /\ DurableState /\ SnapshotsInFlight

LEMMA DurableInvariant == Spec => []DurableInv
<1>1. Init => DurableInv
  <2>1. Init => DurableState
    BY DEF Init, DurableState, Dummy
  <2>2. Init => IndexOrder /\ SnapshotsInFlight
    BY DEF Init, IndexOrder, SnapshotsInFlight
  <2> QED BY <2>1, <2>2, InitType DEF DurableInv
<1>2. DurableInv /\ [Next]_vars => DurableInv'
  BY NextType, NextOrder, NextDurable, NextSnapshotsInFlight DEF DurableInv
<1> QED BY <1>1, <1>2, PTL DEF Spec

\* A crash at any moment loses nothing a peer has acted on: what persist() last saved is
\* what the peer works with, and the saved log starts where the saved snapshot ends.
THEOREM CrashLosesNothing == Spec => []DurableState
BY DurableInvariant, PTL DEF DurableInv

-----------------------------------------------------------------------------
(* VOTES *)

\* A step in which no vote is given, asked for or counted: terms only grow, who is still
\* a candidate or leader was one already, and no reply to RequestVote appears.
Quiet ==
    /\ \A p \in Server :
          /\ term'[p] >= term[p]
          /\ term'[p] = term[p] => voteFor'[p] = voteFor[p]
          /\ state'[p] # "Follower" => /\ term'[p] = term[p] /\ state'[p] = state[p]
                                       /\ votes'[p] = votes[p]
    /\ \A c \in voteCalls' : c.phase = "answered" => c \in voteCalls

LEMMA UnchangedIsQuiet ==
  ASSUME TypeOK, UNCHANGED <<term, voteFor, state, votes>>, voteCalls' \subseteq voteCalls
  PROVE  Quiet
BY DEF Quiet, TypeOK

\* A step that moves one server to a later term as a follower, or leaves its term and vote.
LEMMA LaterTermIsQuiet ==
  ASSUME TypeOK, NEW s \in Server, NEW t \in Nat, NEW v, NEW st,
         term' = [term EXCEPT ![s] = t], voteFor' = [voteFor EXCEPT ![s] = v],
         state' = [state EXCEPT ![s] = st], UNCHANGED votes, voteCalls' \subseteq voteCalls,
         \/ t > term[s] /\ st = "Follower"
         \/ t = term[s] /\ v = voteFor[s] /\ st \in {"Follower", state[s]}
  PROVE  Quiet
<1>1. \A p \in Server \ {s} : term'[p] = term[p] /\ voteFor'[p] = voteFor[p] /\ state'[p] = state[p]
  BY DEF TypeOK
<1>2. term'[s] = t /\ voteFor'[s] = v /\ state'[s] = st
  BY DEF TypeOK
<1>3. \A p \in Server : term[p] \in Nat
  BY DEF TypeOK
<1> QED BY <1>1, <1>2, <1>3 DEF Quiet

LEMMA StepDownIsQuiet ==
  ASSUME TypeOK, NEW s \in Server, NEW t \in Nat, StepDown(s, t), t > term[s],
         voteCalls' \subseteq voteCalls
  PROVE  Quiet
BY LaterTermIsQuiet DEF StepDown

\* Only three kinds of steps are not quiet.
LEMMA MostStepsAreQuiet ==
  ASSUME TypeOK, DurableState, [Next]_vars,
         ~ \E s \in Server : StartElection(s),
         ~ \E c \in voteCalls : RequestVote(c),
         ~ \E c \in voteCalls : HandleVoteReply(c) /\ CountsVote(c.from, c)
  PROVE  Quiet
<1>1. ASSUME NEW c \in voteCalls, HandleVoteReply(c), ~CountsVote(c.from, c) PROVE Quiet
  <2>1. c.from \in Server /\ c.reply.Term \in Nat /\ voteCalls' \subseteq voteCalls
    BY <1>1 DEF TypeOK, RequestVoteCall, RequestVoteReply, HandleVoteReply
  <2>2. CASE c.reply.Term > term[c.from] /\ StepDown(c.from, c.reply.Term)
    BY <2>1, <2>2, StepDownIsQuiet
  <2>3. CASE UNCHANGED <<persistentVars, state, votes>>
    BY <2>1, <2>3, UnchangedIsQuiet DEF persistentVars
  <2> QED BY <1>1, <2>2, <2>3 DEF HandleVoteReply
<1>2. ASSUME NEW c \in appendCalls, HandleAppendReply(c) PROVE Quiet
  <2>1. c.from \in Server /\ c.reply.Term \in Nat /\ voteCalls' \subseteq voteCalls
    BY <1>2 DEF TypeOK, AppendEntriesCall, AppendEntriesReply, HandleAppendReply
  <2>2. CASE c.reply.Term > term[c.from] /\ StepDown(c.from, c.reply.Term)
    BY <2>1, <2>2, StepDownIsQuiet
  <2>3. CASE UNCHANGED <<persistentVars, state, votes>>
    BY <2>1, <2>3, UnchangedIsQuiet DEF persistentVars
  <2> QED BY <1>2, <2>2, <2>3 DEF HandleAppendReply
<1>3. ASSUME NEW c \in snapCalls, HandleSnapReply(c) PROVE Quiet
  <2>1. c.from \in Server /\ c.reply.Term \in Nat /\ voteCalls' \subseteq voteCalls
    BY <1>3 DEF TypeOK, InstallSnapshotCall, HandleSnapReply
  <2>2. CASE c.reply.Term > term[c.from] /\ StepDown(c.from, c.reply.Term)
    BY <2>1, <2>2, StepDownIsQuiet
  <2>3. CASE UNCHANGED <<persistentVars, state, votes>>
    BY <2>1, <2>3, UnchangedIsQuiet DEF persistentVars
  <2> QED BY <1>3, <2>2, <2>3 DEF HandleSnapReply
<1>4. ASSUME NEW c \in appendCalls, AppendEntries(c) PROVE Quiet
  <2> DEFINE s == c.to
             newTerm == c.Term > term[s]
             stale == AppendVerdict(s, c) = "stale"
  <2>1. s \in Server /\ c.Term \in Nat /\ term[s] \in Nat
    BY DEF TypeOK, AppendEntriesCall
  <2>2. /\ term' = [term EXCEPT ![s] = IF newTerm THEN c.Term ELSE term[s]]
        /\ voteFor' = [voteFor EXCEPT ![s] = IF newTerm THEN Nil ELSE voteFor[s]]
        /\ state' = [state EXCEPT ![s] = IF ~stale THEN "Follower" ELSE state[s]]
        /\ UNCHANGED <<votes, voteCalls>>
    BY <1>4 DEF AppendEntries
  <2>3. newTerm => ~stale
    BY <2>1 DEF AppendVerdict
  <2> HIDE DEF s, stale
  <2> QED BY <2>1, <2>2, <2>3, LaterTermIsQuiet
<1>5. ASSUME NEW c \in snapCalls, InstallSnapshot(c) PROVE Quiet
  <2> DEFINE s == c.to
             newTerm == c.Term > term[s]
  <2>1. s \in Server /\ c.Term \in Nat /\ term[s] \in Nat
    BY DEF TypeOK, InstallSnapshotCall
  <2>2. /\ term' = [term EXCEPT ![s] = IF newTerm THEN c.Term ELSE term[s]]
        /\ voteFor' = [voteFor EXCEPT ![s] = IF newTerm THEN Nil ELSE voteFor[s]]
        /\ state' = [state EXCEPT ![s] = IF c.Term >= term[s] THEN "Follower" ELSE state[s]]
        /\ UNCHANGED <<votes, voteCalls>>
    BY <1>5 DEF InstallSnapshot
  <2>3. newTerm => c.Term >= term[s]
    BY <2>1
  <2> DEFINE current == c.Term >= term[s]
  <2>4. state' = [state EXCEPT ![s] = IF current THEN "Follower" ELSE state[s]]
        /\ (newTerm => current)
    BY <2>2, <2>3
  <2> HIDE DEF s, current
  <2> QED BY <2>1, <2>2, <2>4, LaterTermIsQuiet
<1>6. ASSUME NEW s \in Crashing, Restart(s) PROVE Quiet
  <2>1. s \in Server
    BY RaftAssumption
  <2>2. UNCHANGED <<term, voteFor>>
    BY <1>6, <2>1, RestartKeeps DEF persistentVars
  <2>3. /\ state' = [state EXCEPT ![s] = "Follower"] /\ votes' = [votes EXCEPT ![s] = {}]
        /\ voteCalls' = Orphaned(voteCalls, s)
    BY <1>6 DEF Restart, ReadPersist
  <2>4. ASSUME NEW c \in Orphaned(voteCalls, s), c.phase = "answered" PROVE c \in voteCalls
    <3>1. \A d \in voteCalls : [d EXCEPT !.phase = "orphan"].phase = "orphan"
      BY DEF TypeOK, RequestVoteCall
    <3> QED BY <2>4, <3>1 DEF Orphaned
  <2> QED BY <2>1, <2>2, <2>3, <2>4 DEF Quiet, TypeOK
<1>7. ASSUME UNCHANGED <<term, voteFor, state, votes>>, voteCalls' \subseteq voteCalls PROVE Quiet
  BY <1>7, UnchangedIsQuiet
<1>8. ASSUME \/ \E c \in voteCalls : VoteCallFails(c)
             \/ \E s \in Server, command \in Command : Start(s, command)
             \/ \E s, p \in Server, g \in Goroutine : ReplicateEntries(s, p, g)
             \/ \E s, p \in Server, g \in Goroutine : ReplicateSnapshot(s, p, g)
             \/ \E c \in appendCalls : AppendCallFails(c)
             \/ \E c \in snapCalls : SnapCallFails(c)
             \/ \E s \in Server : Snapshot(s)
             \/ \E s \in Applying : \/ ApplierWait(s) \/ ApplierTakeSnapshot(s)
                                    \/ ApplierTakeEntries(s) \/ Deliver(s)
             \/ UNCHANGED vars
      PROVE  UNCHANGED <<term, voteFor, state, votes>> /\ voteCalls' \subseteq voteCalls
  <2>1. ASSUME NEW c \in voteCalls, VoteCallFails(c)
        PROVE  UNCHANGED <<term, voteFor, state, votes>> /\ voteCalls' \subseteq voteCalls
    BY <2>1 DEF VoteCallFails, persistentVars
  <2>2. ASSUME NEW s, NEW command, Start(s, command) \/ Snapshot(s)
        PROVE  UNCHANGED <<term, voteFor, state, votes, voteCalls>>
    BY <2>2 DEF Start, Snapshot, networkVars
  <2>3. ASSUME NEW s, NEW p, NEW g, ReplicateEntries(s, p, g) \/ ReplicateSnapshot(s, p, g)
        PROVE  UNCHANGED <<term, voteFor, state, votes, voteCalls>>
    BY <2>3 DEF ReplicateEntries, ReplicateSnapshot, persistentVars
  <2>4. ASSUME NEW c, AppendCallFails(c) \/ SnapCallFails(c)
        PROVE  UNCHANGED <<term, voteFor, state, votes, voteCalls>>
    BY <2>4 DEF AppendCallFails, SnapCallFails, persistentVars
  <2>5. ASSUME NEW s, \/ ApplierWait(s) \/ ApplierTakeSnapshot(s)
                      \/ ApplierTakeEntries(s) \/ Deliver(s)
        PROVE  UNCHANGED <<term, voteFor, state, votes, voteCalls>>
    BY <2>5 DEF ApplierWait, ApplierTakeSnapshot, ApplierTakeEntries, Deliver, persistentVars,
       networkVars
  <2>6. ASSUME UNCHANGED vars
        PROVE  UNCHANGED <<term, voteFor, state, votes, voteCalls>>
    BY <2>6 DEF vars, persistentVars, networkVars
  <2> QED BY <1>8, <2>1, <2>2, <2>3, <2>4, <2>5, <2>6
<1> QED BY <1>1, <1>2, <1>3, <1>4, <1>5, <1>6, <1>7, <1>8 DEF Next

\* What RequestVote() does to the voter's term and vote.
LEMMA RequestVoteFacts ==
  ASSUME TypeOK, NEW c \in voteCalls, RequestVote(c), NEW p, p = c.to
  PROVE  /\ p \in Server /\ c.from \in Server /\ c.Term \in Nat
         /\ term'[p] = IF c.Term > term[p] THEN c.Term ELSE term[p]
         /\ voteFor'[p] = IF Grants(p, c) THEN c.from
                          ELSE IF c.Term > term[p] THEN Nil ELSE voteFor[p]
         /\ state'[p] = IF c.Term > term[p] \/ Grants(p, c) THEN "Follower" ELSE state[p]
         /\ \A q \in Server \ {p} : /\ term'[q] = term[q] /\ voteFor'[q] = voteFor[q]
                                    /\ state'[q] = state[q]
         /\ UNCHANGED votes
         /\ voteCalls' = Answered(voteCalls, c, [Term |-> term'[p], VoteGranted |-> Grants(p, c)])
BY DEF RequestVote, TypeOK, RequestVoteCall

\* Every step keeps terms from falling and votes from changing within a term.
LEMMA NextVotes ==
  ASSUME TypeOK, DurableState, [Next]_vars
  PROVE  \A s \in Server :
            /\ term'[s] >= term[s]
            /\ term'[s] = term[s] /\ voteFor[s] # Nil => voteFor'[s] = voteFor[s]
<1>0. \A p \in Server : term[p] \in Nat /\ voteFor[p] \in Server \cup {Nil}
  BY DEF TypeOK
<1>1. CASE Quiet
  BY <1>1 DEF Quiet
<1>2. ASSUME NEW s \in Server, StartElection(s)
      PROVE  \A q \in Server : /\ term'[q] >= term[q]
                               /\ term'[q] = term[q] => voteFor'[q] = voteFor[q]
  <2>1. term'[s] = term[s] + 1 /\ \A q \in Server \ {s} : term'[q] = term[q] /\ voteFor'[q] = voteFor[q]
    BY <1>2 DEF StartElection, TypeOK
  <2> QED BY <1>0, <2>1
<1>3. ASSUME NEW c \in voteCalls, RequestVote(c), NEW q \in Server
      PROVE  /\ term'[q] >= term[q]
             /\ term'[q] = term[q] /\ voteFor[q] # Nil => voteFor'[q] = voteFor[q]
  <2>1. CASE q # c.to
    <3> DEFINE p == c.to
    <3>0. \A r \in Server \ {p} : term'[r] = term[r] /\ voteFor'[r] = voteFor[r]
      <4>1. p = c.to
        OBVIOUS
      <4> HIDE DEF p
      <4> QED BY <1>3, <4>1, RequestVoteFacts
    <3>1. term'[q] = term[q] /\ voteFor'[q] = voteFor[q]
      BY <2>1, <3>0
    <3> QED BY <1>0, <3>1
  <2>2. CASE q = c.to
    <3>1. /\ term'[q] = IF c.Term > term[q] THEN c.Term ELSE term[q]
          /\ voteFor'[q] = IF Grants(q, c) THEN c.from
                           ELSE IF c.Term > term[q] THEN Nil ELSE voteFor[q]
          /\ c.Term \in Nat
      BY <1>3, <2>2, RequestVoteFacts
    <3> QED BY <1>0, <3>1 DEF Grants, CanVote
  <2> QED BY <2>1, <2>2
<1>4. ASSUME NEW c \in voteCalls, HandleVoteReply(c), CountsVote(c.from, c)
      PROVE  \A q \in Server : term'[q] >= term[q] /\ voteFor'[q] = voteFor[q]
  <2>1. c.from \in Server /\ c.reply.Term \in Nat /\ c.Term \in Nat
    BY DEF TypeOK, RequestVoteCall, RequestVoteReply
  <2>2. ~(c.reply.Term > term[c.from])
    BY <1>0, <1>4, <2>1 DEF CountsVote
  <2>3. UNCHANGED <<term, voteFor>>
    BY <1>4, <2>2 DEF HandleVoteReply, persistentVars
  <2> QED BY <1>0, <2>3
<1> QED BY <1>1, <1>2, <1>3, <1>4, MostStepsAreQuiet

\* No peer goes back to an earlier term, or changes the vote it has given in a term,
\* although it crashes and forgets everything but what persist() saved.
THEOREM VotesKept == Spec => VotesAreKept
<1> DEFINE Kept == \A s \in Server :
                      /\ term'[s] >= term[s]
                      /\ term'[s] = term[s] /\ voteFor[s] # Nil => voteFor'[s] = voteFor[s]
<1>1. DurableInv /\ [Next]_vars => [Kept]_vars
  BY NextVotes DEF DurableInv
<1> QED BY <1>1, DurableInvariant, PTL DEF Spec, VotesAreKept

-----------------------------------------------------------------------------
(***************************************************************************)
(* ELECTION SAFETY.  A vote that counts for s in term T, or is on its way  *)
(* to s, was given by a peer that is still bound by it, and nobody else    *)
(* can be given that peer's vote of term T.                                *)
(***************************************************************************)

\* p voted for s in term T, or has left term T behind.
VotedFor(p, T, s) == term[p] > T \/ (term[p] = T /\ voteFor[p] = s)

\* s has counted the vote of p in the election of term T, or the vote is on its way to it.
Counted(p, s, T) == state[s] # "Follower" /\ term[s] = T /\ p \in votes[s]
Answering(p, s, T) ==
    \E c \in voteCalls : /\ c.phase = "answered" /\ c.reply.VoteGranted
                         /\ c.from = s /\ c.to = p /\ c.Term = T
Granted(p, s, T) == Counted(p, s, T) \/ Answering(p, s, T)

VotesBacked == \A p, s \in Server, T \in Nat : Granted(p, s, T) => VotedFor(p, T, s)
OneVote == \A p, s, t \in Server, T \in Nat : Granted(p, s, T) /\ Granted(p, t, T) => s = t
LeaderHasMajority == \A s \in Server : state[s] = "Leader" => Cardinality(votes[s]) >= Majority

ElectionInv == VotesBacked /\ OneVote /\ LeaderHasMajority

\* Two majorities have a peer in common.
LEMMA MajoritiesMeet ==
  ASSUME NEW Q \in SUBSET Server, NEW R \in SUBSET Server,
         Cardinality(Q) >= Majority, Cardinality(R) >= Majority
  PROVE  \E p \in Server : p \in Q /\ p \in R
<1>1. IsFiniteSet(Server) /\ IsFiniteSet(Q) /\ IsFiniteSet(R) /\ IsFiniteSet(Q \cup R)
  BY RaftAssumption, FS_Subset
<1>2. /\ Cardinality(Server) \in Nat /\ Cardinality(Q) \in Nat /\ Cardinality(R) \in Nat
      /\ Cardinality(Q \cap R) \in Nat
  BY <1>1, FS_CardinalityType, FS_Intersection
<1>3. Cardinality(Q \cup R) = Cardinality(Q) + Cardinality(R) - Cardinality(Q \cap R)
  BY <1>1, FS_Union
<1>4. Cardinality(Q \cup R) =< Cardinality(Server)
  BY <1>1, FS_Subset
<1>5. Cardinality(Q \cap R) # 0
  BY <1>2, <1>3, <1>4 DEF Majority
<1>6. Q \cap R # {}
  BY <1>5, FS_EmptySet
<1> QED BY <1>6

\* Nobody wins an election without a peer that another winner would need as well.
LEMMA ElectionInvImplies ==
  ASSUME TypeOK, ElectionInv PROVE ElectionSafety
<1>1. ASSUME NEW s \in Server, NEW t \in Server,
             state[s] = "Leader", state[t] = "Leader", term[s] = term[t]
      PROVE  s = t
  <2>1. votes[s] \in SUBSET Server /\ votes[t] \in SUBSET Server /\ term[s] \in Nat
    BY DEF TypeOK
  <2>2. PICK p \in Server : p \in votes[s] /\ p \in votes[t]
    BY <1>1, <2>1, MajoritiesMeet DEF ElectionInv, LeaderHasMajority
  <2>3. Granted(p, s, term[s]) /\ Granted(p, t, term[s])
    BY <1>1, <2>2 DEF Granted, Counted
  <2> QED BY <2>1, <2>3 DEF ElectionInv, OneVote
<1> QED BY <1>1 DEF ElectionSafety

\* When no vote is added and every peer stays bound by the ones it gave.
LEMMA NoNewVotes ==
  ASSUME TypeOK, TypeOK', ElectionInv,
         \A p, s \in Server, T \in Nat : Granted(p, s, T)' => Granted(p, s, T),
         \A p, s \in Server, T \in Nat : VotedFor(p, T, s) => VotedFor(p, T, s)',
         LeaderHasMajority'
  PROVE  ElectionInv'
<1>1. VotesBacked' /\ OneVote'
  BY DEF ElectionInv, VotesBacked, OneVote
<1> QED BY <1>1 DEF ElectionInv

\* Peers stay bound by their votes, because terms do not fall and votes are kept.
LEMMA StillBound ==
  ASSUME TypeOK, TypeOK', DurableState, [Next]_vars,
         NEW p \in Server, NEW s \in Server, NEW T \in Nat, VotedFor(p, T, s)
  PROVE  VotedFor(p, T, s)'
<1>1. term[p] \in Nat /\ term'[p] \in Nat /\ s # Nil
  BY RaftAssumption DEF TypeOK
<1>2. /\ term'[p] >= term[p]
      /\ term'[p] = term[p] /\ voteFor[p] # Nil => voteFor'[p] = voteFor[p]
  BY NextVotes
<1> QED BY <1>1, <1>2 DEF VotedFor

\* A quiet step adds no vote.
LEMMA QuietGrants ==
  ASSUME Quiet
  PROVE  \A p, q \in Server, T \in Nat : Granted(p, q, T)' => Granted(p, q, T)
<1>1. ASSUME NEW p \in Server, NEW s \in Server, NEW T \in Nat, Counted(p, s, T)'
      PROVE  Counted(p, s, T)
  BY <1>1 DEF Counted, Quiet
<1>2. ASSUME NEW p \in Server, NEW s \in Server, NEW T \in Nat, Answering(p, s, T)'
      PROVE  Answering(p, s, T)
  BY <1>2 DEF Answering, Quiet
<1> QED BY <1>1, <1>2 DEF Granted

LEMMA QuietElection ==
  ASSUME TypeOK, TypeOK', ElectionInv, Quiet,
         \A p, s \in Server, T \in Nat : VotedFor(p, T, s) => VotedFor(p, T, s)'
  PROVE  ElectionInv'
<1>1. LeaderHasMajority'
  BY DEF ElectionInv, LeaderHasMajority, Quiet
<1> QED BY <1>1, QuietGrants, NoNewVotes

\* The only vote an election adds at once is the candidate's own.
LEMMA StartElectionGrants ==
  ASSUME TypeOK, TypeOK', NEW s \in Server, StartElection(s)
  PROVE  \A p, q \in Server, T \in Nat :
            Granted(p, q, T)' => Granted(p, q, T) \/ (p = s /\ q = s /\ T = term[s] + 1)
<1>1. /\ term'[s] = term[s] + 1 /\ voteFor'[s] = s /\ votes'[s] = {s}
      /\ \A q \in Server \ {s} : term'[q] = term[q] /\ votes'[q] = votes[q]
  BY DEF StartElection, TypeOK
<1>2. /\ \A q \in Server \ {s} : state'[q] = state[q]
      /\ state'[s] = "Leader" => Majority = 1
  BY DEF StartElection, BecomeLeader, TypeOK
<1>3. \A c \in voteCalls' : c.phase = "answered" => c \in voteCalls
  <2>1. ASSUME NEW c \in voteCalls', c \notin voteCalls PROVE c.phase = "sent"
    BY <2>1 DEF StartElection
  <2> QED BY <2>1
<1>4. ASSUME NEW p \in Server, NEW q \in Server, NEW T \in Nat, Granted(p, q, T)'
      PROVE  Granted(p, q, T) \/ (p = s /\ q = s /\ T = term[s] + 1)
  <2>1. CASE Answering(p, q, T)'
    BY <2>1, <1>3 DEF Answering, Granted
  <2>2. CASE Counted(p, q, T)'
    BY <2>2, <1>1, <1>2 DEF Counted, Granted
  <2> QED BY <1>4, <2>1, <2>2 DEF Granted
<1> QED BY <1>4

LEMMA StartElectionElection ==
  ASSUME TypeOK, TypeOK', ElectionInv, NEW s \in Server, StartElection(s),
         \A p, q \in Server, T \in Nat : VotedFor(p, T, q) => VotedFor(p, T, q)'
  PROVE  ElectionInv'
<1>0. \A p \in Server : term[p] \in Nat /\ term'[p] \in Nat
  BY DEF TypeOK
<1>1. /\ term'[s] = term[s] + 1 /\ voteFor'[s] = s /\ votes'[s] = {s}
      /\ \A q \in Server \ {s} : term'[q] = term[q] /\ votes'[q] = votes[q]
  BY DEF StartElection, TypeOK
<1>2. /\ \A q \in Server \ {s} : state'[q] = state[q]
      /\ state'[s] = "Leader" => Majority = 1
  BY DEF StartElection, BecomeLeader, TypeOK
<1>4. \A p, q \in Server, T \in Nat :
         Granted(p, q, T)' => Granted(p, q, T) \/ (p = s /\ q = s /\ T = term[s] + 1)
  BY StartElectionGrants
<1>5. VotesBacked'
  <2>1. ASSUME NEW p \in Server, NEW q \in Server, NEW T \in Nat, Granted(p, q, T)'
        PROVE  VotedFor(p, T, q)'
    <3>1. CASE Granted(p, q, T)
      BY <3>1 DEF ElectionInv, VotesBacked
    <3>2. CASE p = s /\ q = s /\ T = term[s] + 1
      BY <3>2, <1>1 DEF VotedFor
    <3> QED BY <2>1, <1>4, <3>1, <3>2
  <2> QED BY <2>1 DEF VotesBacked
<1>6. ASSUME NEW q \in Server PROVE ~Granted(s, q, term[s] + 1)
  <2>1. ~VotedFor(s, term[s] + 1, q)
    BY <1>0 DEF VotedFor
  <2>2. term[s] + 1 \in Nat
    BY <1>0
  <2> QED BY <2>1, <2>2 DEF ElectionInv, VotesBacked
<1>7. OneVote'
  <2>1. ASSUME NEW p \in Server, NEW q \in Server, NEW r \in Server, NEW T \in Nat,
               Granted(p, q, T)', Granted(p, r, T)'
        PROVE  q = r
    <3>1. CASE Granted(p, q, T) /\ Granted(p, r, T)
      BY <3>1 DEF ElectionInv, OneVote
    <3>2. CASE ~(Granted(p, q, T) /\ Granted(p, r, T))
      BY <2>1, <3>2, <1>4, <1>6
    <3> QED BY <3>1, <3>2
  <2> QED BY <2>1 DEF OneVote
<1>8. LeaderHasMajority'
  <2>1. Cardinality({s}) = 1
    BY FS_Singleton
  <2>2. ASSUME NEW q \in Server, state'[q] = "Leader" PROVE Cardinality(votes'[q]) >= Majority
    <3>1. CASE q = s
      BY <3>1, <2>1, <2>2, <1>1, <1>2
    <3>2. CASE q # s
      BY <3>2, <2>2, <1>1, <1>2 DEF ElectionInv, LeaderHasMajority
    <3> QED BY <3>1, <3>2
  <2>3. Majority' = Majority
    OBVIOUS
  <2> QED BY <2>2, <2>3 DEF LeaderHasMajority
<1> QED BY <1>5, <1>7, <1>8 DEF ElectionInv

\* Counting a vote moves it, and adds none.
LEMMA CountVoteGrants ==
  ASSUME TypeOK, TypeOK', NEW c \in voteCalls, HandleVoteReply(c),
         CountsVote(c.from, c)
  PROVE  \A p, q \in Server, T \in Nat : Granted(p, q, T)' => Granted(p, q, T)
<1> DEFINE s == c.from
<1>0. s \in Server /\ c.reply.Term \in Nat /\ c.Term \in Nat /\ term[s] \in Nat
  BY DEF TypeOK, RequestVoteCall, RequestVoteReply
<1>1. ~(c.reply.Term > term[s])
  BY <1>0 DEF CountsVote
<1>2. /\ votes' = [votes EXCEPT ![s] = votes[s] \cup {c.to}]
      /\ IF Cardinality(votes'[s]) >= Majority
           THEN BecomeLeader(s) ELSE UNCHANGED <<state, leaderVars>>
      /\ UNCHANGED term
      /\ voteCalls' = voteCalls \ {c}
  BY <1>1 DEF HandleVoteReply, persistentVars
<1>3. /\ state[s] = "Candidate" /\ term[s] = c.Term /\ c.phase = "answered"
      /\ c.reply.VoteGranted
  BY DEF CountsVote, HandleVoteReply
<1>4. Answering(c.to, s, term[s])
  BY <1>3 DEF Answering
<1> HIDE DEF s
<1>5. /\ votes'[s] = votes[s] \cup {c.to}
      /\ \A q \in Server \ {s} : votes'[q] = votes[q] /\ state'[q] = state[q]
      /\ state'[s] = "Leader" => Cardinality(votes'[s]) >= Majority
  BY <1>0, <1>2, <1>3 DEF BecomeLeader, TypeOK
<1>6. ASSUME NEW p \in Server, NEW q \in Server, NEW T \in Nat, Granted(p, q, T)'
      PROVE  Granted(p, q, T)
  <2>1. CASE Answering(p, q, T)'
    BY <2>1, <1>2 DEF Answering, Granted
  <2>2. CASE Counted(p, q, T)'
    <3>1. CASE q # s
      BY <2>2, <3>1, <1>2, <1>5 DEF Counted, Granted
    <3>2. CASE q = s
      BY <2>2, <3>2, <1>2, <1>3, <1>4, <1>5 DEF Counted, Granted
    <3> QED BY <3>1, <3>2
  <2> QED BY <1>6, <2>1, <2>2 DEF Granted
<1> QED BY <1>6

LEMMA CountVoteElection ==
  ASSUME TypeOK, TypeOK', ElectionInv, NEW c \in voteCalls, HandleVoteReply(c),
         CountsVote(c.from, c),
         \A p, q \in Server, T \in Nat : VotedFor(p, T, q) => VotedFor(p, T, q)'
  PROVE  ElectionInv'
<1> DEFINE s == c.from
<1>0. s \in Server /\ c.reply.Term \in Nat /\ c.Term \in Nat /\ term[s] \in Nat
  BY DEF TypeOK, RequestVoteCall, RequestVoteReply
<1>1. ~(c.reply.Term > term[s])
  BY <1>0 DEF CountsVote
<1>2. /\ votes' = [votes EXCEPT ![s] = votes[s] \cup {c.to}]
      /\ IF Cardinality(votes'[s]) >= Majority
           THEN BecomeLeader(s) ELSE UNCHANGED <<state, leaderVars>>
      /\ UNCHANGED term
      /\ voteCalls' = voteCalls \ {c}
  BY <1>1 DEF HandleVoteReply, persistentVars
<1>3. /\ state[s] = "Candidate" /\ term[s] = c.Term /\ c.phase = "answered"
      /\ c.reply.VoteGranted
  BY DEF CountsVote, HandleVoteReply
<1> HIDE DEF s
<1>5. /\ votes'[s] = votes[s] \cup {c.to}
      /\ \A q \in Server \ {s} : votes'[q] = votes[q] /\ state'[q] = state[q]
      /\ state'[s] = "Leader" => Cardinality(votes'[s]) >= Majority
  BY <1>0, <1>2, <1>3 DEF BecomeLeader, TypeOK
<1>6. \A p, q \in Server, T \in Nat : Granted(p, q, T)' => Granted(p, q, T)
  BY CountVoteGrants
<1>7. LeaderHasMajority'
  <2>1. ASSUME NEW q \in Server, state'[q] = "Leader" PROVE Cardinality(votes'[q]) >= Majority
    <3>1. CASE q = s
      BY <3>1, <2>1, <1>5
    <3>2. CASE q # s
      BY <3>2, <2>1, <1>5 DEF ElectionInv, LeaderHasMajority
    <3> QED BY <3>1, <3>2
  <2>2. Majority' = Majority
    OBVIOUS
  <2> QED BY <2>1, <2>2 DEF LeaderHasMajority
<1> QED BY <1>6, <1>7, NoNewVotes

\* A voter adds the vote it grants.
LEMMA RequestVoteGrants ==
  ASSUME TypeOK, TypeOK', NEW c \in voteCalls, RequestVote(c)
  PROVE  \A p, q \in Server, T \in Nat :
            Granted(p, q, T)' => \/ Granted(p, q, T)
                                 \/ p = c.to /\ q = c.from /\ T = c.Term /\ Grants(c.to, c)
<1> DEFINE v == c.to
           r == [Term |-> term'[v], VoteGranted |-> Grants(v, c)]
<1>0. v = c.to
  OBVIOUS
<1> HIDE DEF v
<1>1. /\ v \in Server /\ c.from \in Server /\ c.Term \in Nat
      /\ term'[v] = IF c.Term > term[v] THEN c.Term ELSE term[v]
      /\ voteFor'[v] = IF Grants(v, c) THEN c.from
                       ELSE IF c.Term > term[v] THEN Nil ELSE voteFor[v]
      /\ state'[v] = IF c.Term > term[v] \/ Grants(v, c) THEN "Follower" ELSE state[v]
      /\ \A q \in Server \ {v} : term'[q] = term[q] /\ state'[q] = state[q]
      /\ UNCHANGED votes
      /\ voteCalls' = Answered(voteCalls, c, r)
  BY <1>0, RequestVoteFacts
<1>2. term[v] \in Nat /\ voteFor[v] \in Server \cup {Nil}
  BY <1>1 DEF TypeOK
<1>3. ASSUME NEW d \in voteCalls', d \notin voteCalls
      PROVE  d.reply = r /\ d.from = c.from /\ d.to = v /\ d.Term = c.Term
  <2>1. d = [c EXCEPT !.phase = "answered", !.reply = r] /\ c \in RequestVoteCall
    BY <1>1, <1>3 DEF Answered, TypeOK
  <2> HIDE DEF r
  <2> QED BY <1>0, <2>1 DEF RequestVoteCall
<1>4. r.VoteGranted = Grants(v, c)
  OBVIOUS
<1> HIDE DEF r
<1>5. ASSUME NEW p \in Server, NEW q \in Server, NEW T \in Nat, Granted(p, q, T)'
      PROVE  Granted(p, q, T) \/ (p = v /\ q = c.from /\ T = c.Term /\ Grants(v, c))
  <2>1. CASE Answering(p, q, T)'
    BY <2>1, <1>3, <1>4 DEF Answering, Granted
  <2>2. CASE Counted(p, q, T)'
    <3>1. CASE q # v
      BY <2>2, <3>1, <1>1 DEF Counted, Granted
    <3>2. CASE q = v
      BY <2>2, <3>2, <1>1 DEF Counted, Granted
    <3> QED BY <3>1, <3>2
  <2> QED BY <1>5, <2>1, <2>2 DEF Granted
<1> QED BY <1>0, <1>5

LEMMA RequestVoteElection ==
  ASSUME TypeOK, TypeOK', ElectionInv, NEW c \in voteCalls, RequestVote(c),
         \A p, q \in Server, T \in Nat : VotedFor(p, T, q) => VotedFor(p, T, q)'
  PROVE  ElectionInv'
<1> DEFINE v == c.to
           r == [Term |-> term'[v], VoteGranted |-> Grants(v, c)]
<1>0. v = c.to
  OBVIOUS
<1> HIDE DEF v
<1>1. /\ v \in Server /\ c.from \in Server /\ c.Term \in Nat
      /\ term'[v] = IF c.Term > term[v] THEN c.Term ELSE term[v]
      /\ voteFor'[v] = IF Grants(v, c) THEN c.from
                       ELSE IF c.Term > term[v] THEN Nil ELSE voteFor[v]
      /\ state'[v] = IF c.Term > term[v] \/ Grants(v, c) THEN "Follower" ELSE state[v]
      /\ \A q \in Server \ {v} : term'[q] = term[q] /\ state'[q] = state[q]
      /\ UNCHANGED votes
      /\ voteCalls' = Answered(voteCalls, c, r)
  BY <1>0, RequestVoteFacts
<1>2. term[v] \in Nat /\ voteFor[v] \in Server \cup {Nil}
  BY <1>1 DEF TypeOK
<1>5. \A p, q \in Server, T \in Nat :
         Granted(p, q, T)' => \/ Granted(p, q, T)
                              \/ p = v /\ q = c.from /\ T = c.Term /\ Grants(v, c)
  BY <1>0, RequestVoteGrants
<1>6. VotesBacked'
  <2>1. ASSUME NEW p \in Server, NEW q \in Server, NEW T \in Nat, Granted(p, q, T)'
        PROVE  VotedFor(p, T, q)'
    <3>1. CASE Granted(p, q, T)
      BY <3>1 DEF ElectionInv, VotesBacked
    <3>2. CASE p = v /\ q = c.from /\ T = c.Term /\ Grants(v, c)
      BY <3>2, <1>1, <1>2 DEF VotedFor, Grants
    <3> QED BY <2>1, <1>5, <3>1, <3>2
  <2> QED BY <2>1 DEF VotesBacked
<1>7. ASSUME NEW q \in Server, Granted(v, q, c.Term), Grants(v, c) PROVE q = c.from
  <2>1. VotedFor(v, c.Term, q)
    BY <1>1, <1>7 DEF ElectionInv, VotesBacked
  <2>2. term[v] = c.Term /\ voteFor[v] = q
    BY <1>1, <1>2, <1>7, <2>1 DEF VotedFor, Grants
  <2> QED BY <1>1, <1>2, <1>7, <2>2, RaftAssumption DEF Grants, CanVote
<1>8. OneVote'
  <2>1. ASSUME NEW p \in Server, NEW q \in Server, NEW t \in Server, NEW T \in Nat,
               Granted(p, q, T)', Granted(p, t, T)'
        PROVE  q = t
    <3>1. CASE Granted(p, q, T) /\ Granted(p, t, T)
      BY <3>1 DEF ElectionInv, OneVote
    <3>2. CASE ~(Granted(p, q, T) /\ Granted(p, t, T))
      BY <2>1, <3>2, <1>5, <1>7
    <3> QED BY <3>1, <3>2
  <2> QED BY <2>1 DEF OneVote
<1>9. LeaderHasMajority'
  <2>1. \A q \in Server : state'[q] = "Leader" => state[q] = "Leader" /\ votes'[q] = votes[q]
    BY <1>1
  <2>2. Majority' = Majority
    OBVIOUS
  <2> QED BY <2>1, <2>2 DEF ElectionInv, LeaderHasMajority
<1> QED BY <1>6, <1>8, <1>9 DEF ElectionInv

LEMMA NextElection ==
  ASSUME TypeOK, TypeOK', DurableState, ElectionInv, [Next]_vars
  PROVE  ElectionInv'
<1>1. \A p, s \in Server, T \in Nat : VotedFor(p, T, s) => VotedFor(p, T, s)'
  BY StillBound
<1>2. CASE Quiet
  BY <1>1, <1>2, QuietElection
<1>3. ASSUME NEW s \in Server, StartElection(s) PROVE ElectionInv'
  BY <1>1, <1>3, StartElectionElection
<1>4. ASSUME NEW c \in voteCalls, RequestVote(c) PROVE ElectionInv'
  BY <1>1, <1>4, RequestVoteElection
<1>5. ASSUME NEW c \in voteCalls, HandleVoteReply(c), CountsVote(c.from, c) PROVE ElectionInv'
  BY <1>1, <1>5, CountVoteElection
<1> QED BY <1>2, <1>3, <1>4, <1>5, MostStepsAreQuiet

\* A vote that is added is one to which the voter was not bound otherwise.
LEMMA NextGrants ==
  ASSUME TypeOK, TypeOK', DurableState, [Next]_vars,
         NEW p \in Server, NEW q \in Server, NEW T \in Nat, Granted(p, q, T)'
  PROVE  Granted(p, q, T) \/ \A w \in Server : VotedFor(p, T, w) => w = q
<1>0. term[p] \in Nat /\ voteFor[p] \in Server \cup {Nil} /\ Nil \notin Server
  BY RaftAssumption DEF TypeOK
<1>1. CASE Quiet
  BY <1>1, QuietGrants
<1>2. ASSUME NEW s \in Server, StartElection(s)
      PROVE  Granted(p, q, T) \/ \A w \in Server : VotedFor(p, T, w) => w = q
  <2>1. Granted(p, q, T) \/ (p = s /\ q = s /\ T = term[s] + 1)
    BY <1>2, StartElectionGrants
  <2> QED BY <1>0, <2>1 DEF VotedFor
<1>3. ASSUME NEW c \in voteCalls, RequestVote(c)
      PROVE  Granted(p, q, T) \/ \A w \in Server : VotedFor(p, T, w) => w = q
  <2>1. Granted(p, q, T) \/ (p = c.to /\ q = c.from /\ T = c.Term /\ Grants(c.to, c))
    BY <1>3, RequestVoteGrants
  <2> QED BY <1>0, <2>1 DEF VotedFor, Grants, CanVote
<1>4. ASSUME NEW c \in voteCalls, HandleVoteReply(c), CountsVote(c.from, c)
      PROVE  Granted(p, q, T)
  BY <1>4, CountVoteGrants
<1> QED BY <1>1, <1>2, <1>3, <1>4, MostStepsAreQuiet

LEMMA ElectionInvariant == Spec => []ElectionInv
<1>1. Init => ElectionInv
  BY DEF Init, ElectionInv, VotesBacked, OneVote, LeaderHasMajority, Granted, Counted, Answering
<1>2. DurableInv /\ DurableInv' /\ ElectionInv /\ [Next]_vars => ElectionInv'
  BY NextElection DEF DurableInv
<1> QED BY <1>1, <1>2, DurableInvariant, PTL DEF Spec

\* At most one peer is leader in a term, for any number of peers and of concurrent
\* elections, with votes lost, delayed and reordered and peers that crash and restart.
THEOREM OneLeaderPerTerm == Spec => []ElectionSafety
<1>1. DurableInv /\ ElectionInv => ElectionSafety
  BY ElectionInvImplies DEF DurableInv
<1> QED BY <1>1, DurableInvariant, ElectionInvariant, PTL

-----------------------------------------------------------------------------
(* WAKING UP *)

\* What the applier looks at before it sleeps, of one server.
Awake(s) == waiting[s] => NothingToApply(s)

LEMMA SameApplierAwake ==
  ASSUME NoLostWakeup,
         UNCHANGED <<waiting, pendingSnapshot, lastApplied, commitIndex>>
  PROVE  NoLostWakeup'
BY DEF NoLostWakeup, NothingToApply

\* A step that changes what one server can apply, and signals it or leaves it alone.
LEMMA OneSignalled ==
  ASSUME NoLostWakeup, NEW s \in Server,
         \A p \in Server \ {s} : /\ waiting'[p] = waiting[p] /\ commitIndex'[p] = commitIndex[p]
                                 /\ pendingSnapshot'[p] = pendingSnapshot[p]
                                 /\ lastApplied'[p] = lastApplied[p],
         Awake(s)'
  PROVE  NoLostWakeup'
BY DEF NoLostWakeup, Awake, NothingToApply

\* advanceCommitIndexLocked() wakes the applier when it moves commitIndex.
LEMMA AdvanceAwake ==
  ASSUME TypeOK, NoLostWakeup, NEW s \in Server, NEW lg, NEW match,
         AdvanceCommitIndex(s, lg, match), UNCHANGED <<pendingSnapshot, lastApplied>>
  PROVE  NoLostWakeup'
<1>1. CASE UNCHANGED <<commitIndex, waiting>>
  BY <1>1, SameApplierAwake
<1>2. ASSUME NEW v, commitIndex' = [commitIndex EXCEPT ![s] = v], Signal(s) PROVE NoLostWakeup'
  <2>1. ~waiting'[s] /\ \A p \in Server \ {s} : /\ waiting'[p] = waiting[p]
                                                /\ commitIndex'[p] = commitIndex[p]
    BY <1>2 DEF Signal, TypeOK
  <2> QED BY <2>1, OneSignalled DEF Awake
<1> QED BY <1>1, <1>2 DEF AdvanceCommitIndex

LEMMA NextAwake ==
  ASSUME TypeOK, NoLostWakeup, [Next]_vars
  PROVE  NoLostWakeup'
<1>1. ASSUME NEW s \in Server, NEW command \in Command, Start(s, command) PROVE NoLostWakeup'
  BY <1>1, AdvanceAwake DEF Start
<1>2. ASSUME NEW c \in appendCalls, HandleAppendReply(c) PROVE NoLostWakeup'
  <2>1. c.from \in Server
    BY DEF TypeOK, AppendEntriesCall
  <2>2. \/ UNCHANGED <<commitIndex, applierVars>>
        \/ /\ AdvanceCommitIndex(c.from, log[c.from], matchIndex'[c.from])
           /\ UNCHANGED <<pendingSnapshot, lastApplied>>
    BY <1>2 DEF HandleAppendReply, StepDown
  <2>3. CASE UNCHANGED <<commitIndex, applierVars>>
    BY <2>3, SameApplierAwake DEF applierVars
  <2>4. CASE /\ AdvanceCommitIndex(c.from, log[c.from], matchIndex'[c.from])
             /\ UNCHANGED <<pendingSnapshot, lastApplied>>
    <3> DEFINE m == matchIndex'[c.from]
    <3>1. AdvanceCommitIndex(c.from, log[c.from], m)
      BY <2>4
    <3> HIDE DEF m
    <3> QED BY <2>1, <2>4, <3>1, AdvanceAwake
  <2> QED BY <2>2, <2>3, <2>4
<1>3. ASSUME NEW c \in appendCalls, AppendEntries(c) PROVE NoLostWakeup'
  <2> DEFINE s == c.to
  <2>1. s \in Server /\ UNCHANGED <<pendingSnapshot, lastApplied>>
    BY <1>3 DEF TypeOK, AppendEntriesCall, AppendEntries
  <2>2. UNCHANGED <<commitIndex, waiting>>
        \/ \E v : commitIndex' = [commitIndex EXCEPT ![s] = v] /\ Signal(s)
    BY <1>3 DEF AppendEntries
  <2> HIDE DEF s
  <2>3. ASSUME NEW v, commitIndex' = [commitIndex EXCEPT ![s] = v], Signal(s) PROVE NoLostWakeup'
    <3>1. ~waiting'[s] /\ \A p \in Server \ {s} : /\ waiting'[p] = waiting[p]
                                                  /\ commitIndex'[p] = commitIndex[p]
      BY <2>1, <2>3 DEF Signal, TypeOK
    <3> QED BY <2>1, <3>1, OneSignalled DEF Awake
  <2> QED BY <2>1, <2>2, <2>3, SameApplierAwake
<1>4. ASSUME NEW c \in snapCalls, InstallSnapshot(c) PROVE NoLostWakeup'
  <2> DEFINE s == c.to
  <2>1. s \in Server
    BY DEF TypeOK, InstallSnapshotCall
  <2>2. UNCHANGED <<commitIndex, waiting, pendingSnapshot, lastApplied>>
        \/ \E v, w, x : /\ commitIndex' = [commitIndex EXCEPT ![s] = v] /\ Signal(s)
                        /\ lastApplied' = [lastApplied EXCEPT ![s] = w]
                        /\ pendingSnapshot' = [pendingSnapshot EXCEPT ![s] = x]
    <3>1. CASE Installs(s, c)
      <4> DEFINE w == Max({lastApplied[s], c.LastIncludedIndex})
                 x == [Index |-> c.LastIncludedIndex, Term |-> c.LastIncludedTerm,
                       Date |-> c.Data]
      <4>1. /\ commitIndex' = [commitIndex EXCEPT ![s] = c.LastIncludedIndex] /\ Signal(s)
            /\ lastApplied' = [lastApplied EXCEPT ![s] = w]
            /\ pendingSnapshot' = [pendingSnapshot EXCEPT ![s] = x]
        BY <1>4, <3>1 DEF InstallSnapshot
      <4> HIDE DEF s, w, x
      <4> QED BY <4>1
    <3>2. CASE ~Installs(s, c)
      BY <1>4, <3>2 DEF InstallSnapshot
    <3> QED BY <3>1, <3>2
  <2> HIDE DEF s
  <2>3. ASSUME NEW v, NEW w, NEW x, commitIndex' = [commitIndex EXCEPT ![s] = v], Signal(s),
               lastApplied' = [lastApplied EXCEPT ![s] = w],
               pendingSnapshot' = [pendingSnapshot EXCEPT ![s] = x]
        PROVE  NoLostWakeup'
    <3>1. ~waiting'[s] /\ \A p \in Server \ {s} : /\ waiting'[p] = waiting[p]
                                                  /\ commitIndex'[p] = commitIndex[p]
                                                  /\ lastApplied'[p] = lastApplied[p]
                                                  /\ pendingSnapshot'[p] = pendingSnapshot[p]
      BY <2>1, <2>3 DEF Signal, TypeOK
    <3> QED BY <2>1, <3>1, OneSignalled DEF Awake
  <2> QED BY <2>1, <2>2, <2>3, SameApplierAwake
<1>5. ASSUME NEW s \in Crashing, Restart(s) PROVE NoLostWakeup'
  <2>1. s \in Server
    BY RaftAssumption
  <2>2. ~waiting'[s] /\ \A p \in Server \ {s} : /\ waiting'[p] = waiting[p]
                                                /\ commitIndex'[p] = commitIndex[p]
                                                /\ lastApplied'[p] = lastApplied[p]
                                                /\ pendingSnapshot'[p] = pendingSnapshot[p]
    BY <1>5, <2>1 DEF Restart, ReadPersist, TypeOK
  <2> QED BY <2>1, <2>2, OneSignalled DEF Awake
<1>6. ASSUME NEW s \in Applying,
             ApplierWait(s) \/ ApplierTakeSnapshot(s) \/ ApplierTakeEntries(s)
      PROVE  NoLostWakeup'
  <2>1. s \in Server
    BY RaftAssumption
  <2>2. \A p \in Server \ {s} : /\ waiting'[p] = waiting[p]
                                /\ commitIndex'[p] = commitIndex[p]
                                /\ lastApplied'[p] = lastApplied[p]
                                /\ pendingSnapshot'[p] = pendingSnapshot[p]
    BY <1>6, <2>1 DEF ApplierWait, ApplierTakeSnapshot, ApplierTakeEntries, TypeOK
  <2>3. Awake(s)'
    BY <1>6, <2>1 DEF ApplierWait, ApplierTakeSnapshot, ApplierTakeEntries, TypeOK, Awake,
       NothingToApply
  <2> QED BY <2>1, <2>2, <2>3, OneSignalled
<1>7. ASSUME \/ \E s \in Server : StartElection(s)
             \/ \E c \in voteCalls : RequestVote(c) \/ HandleVoteReply(c) \/ VoteCallFails(c)
             \/ \E s, p \in Server, g \in Goroutine : ReplicateEntries(s, p, g)
             \/ \E s, p \in Server, g \in Goroutine : ReplicateSnapshot(s, p, g)
             \/ \E c \in appendCalls : AppendCallFails(c)
             \/ \E c \in snapCalls : HandleSnapReply(c) \/ SnapCallFails(c)
             \/ \E s \in Server : Snapshot(s)
             \/ \E s \in Applying : Deliver(s)
             \/ UNCHANGED vars
      PROVE  UNCHANGED <<waiting, pendingSnapshot, lastApplied, commitIndex>>
  <2>1. ASSUME NEW s, StartElection(s) \/ Snapshot(s) \/ Deliver(s)
        PROVE  UNCHANGED <<waiting, pendingSnapshot, lastApplied, commitIndex>>
    BY <2>1 DEF StartElection, Snapshot, Deliver, applierVars
  <2>2. ASSUME NEW c, RequestVote(c) \/ HandleVoteReply(c) \/ VoteCallFails(c)
        PROVE  UNCHANGED <<waiting, pendingSnapshot, lastApplied, commitIndex>>
    BY <2>2 DEF RequestVote, HandleVoteReply, VoteCallFails, StepDown, applierVars
  <2>3. ASSUME NEW s, NEW p, NEW g, ReplicateEntries(s, p, g) \/ ReplicateSnapshot(s, p, g)
        PROVE  UNCHANGED <<waiting, pendingSnapshot, lastApplied, commitIndex>>
    BY <2>3 DEF ReplicateEntries, ReplicateSnapshot, applierVars
  <2>4. ASSUME NEW c, AppendCallFails(c) \/ HandleSnapReply(c) \/ SnapCallFails(c)
        PROVE  UNCHANGED <<waiting, pendingSnapshot, lastApplied, commitIndex>>
    BY <2>4 DEF AppendCallFails, HandleSnapReply, SnapCallFails, StepDown, applierVars
  <2>5. ASSUME UNCHANGED vars
        PROVE  UNCHANGED <<waiting, pendingSnapshot, lastApplied, commitIndex>>
    BY <2>5 DEF vars, applierVars
  <2> QED BY <1>7, <2>1, <2>2, <2>3, <2>4, <2>5
<1>8. ASSUME UNCHANGED <<waiting, pendingSnapshot, lastApplied, commitIndex>>
      PROVE  NoLostWakeup'
  BY <1>8, SameApplierAwake
<1> QED BY <1>1, <1>2, <1>3, <1>4, <1>5, <1>6, <1>7, <1>8 DEF Next

\* Every path that moves commitIndex or sets a pending snapshot signals the applier's
\* condition variable, so a sleeping applier has nothing to do.
THEOREM ApplierIsWoken == Spec => []NoLostWakeup
<1>1. Init => NoLostWakeup
  BY DEF Init, NoLostWakeup
<1>2. DurableInv /\ NoLostWakeup /\ [Next]_vars => NoLostWakeup'
  BY NextAwake DEF DurableInv
<1> QED BY <1>1, <1>2, DurableInvariant, PTL DEF Spec

-----------------------------------------------------------------------------
(***************************************************************************)
(* ORDER.  lastApplied runs ahead of the service: what lies between is in  *)
(* the applier's hands, as one snapshot or as commands that follow what    *)
(* the service holds, or waits as a snapshot beyond all of that.           *)
(***************************************************************************)

\* The queue is a run of commands that continues what the service has ingested, or one
\* snapshot that goes beyond it.
QueueInOrder(d, n) ==
    \/ \A k \in 1 .. Len(d) : ~d[k].SnapshotValid /\ d[k].Index = n + k
    \/ /\ Len(d) = 1 /\ d[1].SnapshotValid
       /\ d[1].Index > n /\ Len(d[1].Snapshot) = d[1].Index

\* How far the service will be once the queue is delivered.
QueueEnd(d, n) == IF Len(d) > 0 /\ d[1].SnapshotValid THEN d[1].Index ELSE n + Len(d)

\* What is queued and pending leads from what the service holds (n commands) to last.
QueueLeadsTo(d, n, pending, last) ==
    /\ QueueInOrder(d, n)
    /\ pending = Nil => QueueEnd(d, n) = last
    /\ pending # Nil => /\ QueueEnd(d, n) < pending.Index
                        /\ pending.Index = last
                        /\ Len(pending.Date) = pending.Index

ApplierInv ==
    \A s \in Server :
        QueueLeadsTo(delivering[s], Len(applied[s]), pendingSnapshot[s], lastApplied[s])

LEMMA SameApplierInv ==
  ASSUME ApplierInv, UNCHANGED <<delivering, applied, pendingSnapshot, lastApplied>>
  PROVE  ApplierInv'
BY DEF ApplierInv

LEMMA OneApplierMoves ==
  ASSUME ApplierInv, NEW s \in Server,
         \A p \in Server \ {s} : /\ delivering'[p] = delivering[p] /\ applied'[p] = applied[p]
                                 /\ pendingSnapshot'[p] = pendingSnapshot[p]
                                 /\ lastApplied'[p] = lastApplied[p],
         QueueLeadsTo(delivering'[s], Len(applied'[s]), pendingSnapshot'[s], lastApplied'[s])
  PROVE  ApplierInv'
<1>1. \A p \in Server \ {s} : QueueLeadsTo(delivering'[p], Len(applied'[p]), pendingSnapshot'[p],
                                           lastApplied'[p])
  BY DEF ApplierInv
<1> QED BY <1>1 DEF ApplierInv

\* What the types say of one server's applier.
LEMMA ApplierFacts ==
  ASSUME TypeOK, NEW s \in Server
  PROVE  /\ delivering[s] \in Seq(ApplyMsg) /\ Len(delivering[s]) \in Nat
         /\ \A k \in 1 .. Len(delivering[s]) :
               /\ delivering[s][k].Index \in Nat /\ delivering[s][k].SnapshotValid \in BOOLEAN
               /\ delivering[s][k].Snapshot \in Data
               /\ delivering[s][k].Command \in Command \cup {Nil}
         /\ applied[s] \in Data /\ Len(applied[s]) \in Nat
         /\ lastApplied[s] \in Nat /\ commitIndex[s] \in Nat
         /\ pendingSnapshot[s] # Nil => pendingSnapshot[s] \in SnapshotState
<1>1. delivering[s] \in Seq(ApplyMsg) /\ Len(delivering[s]) \in Nat
  BY LenProperties DEF TypeOK
<1>2. \A k \in 1 .. Len(delivering[s]) : delivering[s][k] \in ApplyMsg
  BY <1>1, ElementOfSeq
<1>3. applied[s] \in Data /\ Len(applied[s]) \in Nat
  BY LenProperties DEF TypeOK, Data
<1> QED BY <1>1, <1>2, <1>3 DEF TypeOK, ApplyMsg

LEMMA DeliverInOrder ==
  ASSUME TypeOK, ApplierInv, NEW s \in Server, Deliver(s)
  PROVE  ApplierInv'
<1> DEFINE d == delivering[s]
           n == Len(applied[s])
           m == Head(d)
<1>1. /\ d # <<>>
      /\ delivering' = [delivering EXCEPT ![s] = Tail(d)]
      /\ applied' = [applied EXCEPT ![s] =
                       IF m.SnapshotValid THEN m.Snapshot ELSE Append(applied[s], m.Command)]
      /\ UNCHANGED <<lastApplied, pendingSnapshot>>
  BY DEF Deliver
<1>2. /\ delivering'[s] = Tail(d)
      /\ applied'[s] = IF m.SnapshotValid THEN m.Snapshot ELSE Append(applied[s], m.Command)
      /\ \A p \in Server \ {s} : delivering'[p] = delivering[p] /\ applied'[p] = applied[p]
  BY <1>1 DEF TypeOK
<1>3. /\ d \in Seq(ApplyMsg) /\ Len(d) \in Nat \ {0} /\ n \in Nat /\ m = d[1]
      /\ m.Index \in Nat /\ m.SnapshotValid \in BOOLEAN
      /\ m.Command \in Command \cup {Nil} /\ applied[s] \in Data
  BY <1>1, ApplierFacts, EmptySeq, HeadTailProperties
<1>4. /\ Tail(d) \in Seq(ApplyMsg) /\ Len(Tail(d)) = Len(d) - 1
      /\ \A k \in 1 .. Len(d) - 1 : Tail(d)[k] = d[k + 1]
  BY <1>1, <1>3, HeadTailProperties
<1>5. QueueLeadsTo(d, n, pendingSnapshot[s], lastApplied[s])
  BY DEF ApplierInv
<1> DEFINE d2 == Tail(d)
           n2 == Len(applied'[s])
<1>6. QueueInOrder(d2, n2) /\ QueueEnd(d2, n2) = QueueEnd(d, n)
  <2>1. CASE m.SnapshotValid
    <3>1. n2 = m.Index /\ Len(d) = 1
      BY <1>2, <1>3, <1>5, <2>1 DEF QueueLeadsTo, QueueInOrder
    <3>2. Len(d2) = 0
      BY <1>4, <3>1
    <3> HIDE DEF d2, d, n, n2
    <3> QED BY <1>3, <2>1, <3>1, <3>2 DEF QueueInOrder, QueueEnd
  <2>2. CASE ~m.SnapshotValid
    <3>1. n2 = n + 1
      BY <1>2, <1>3, <2>2, AppendProperties DEF Data
    <3>2. \A k \in 1 .. Len(d) : ~d[k].SnapshotValid /\ d[k].Index = n + k
      BY <1>3, <1>5, <2>2 DEF QueueLeadsTo, QueueInOrder
    <3>3. Len(d2) = Len(d) - 1 /\ \A k \in 1 .. Len(d) - 1 : d2[k] = d[k + 1]
      BY <1>4
    <3> HIDE DEF d2, d, n, n2
    <3>4. \A k \in 1 .. Len(d2) : ~d2[k].SnapshotValid /\ d2[k].Index = n2 + k
      <4>1. ASSUME NEW k \in 1 .. Len(d2)
            PROVE  ~d2[k].SnapshotValid /\ d2[k].Index = n2 + k
        <5>1. k \in 1 .. Len(d) - 1 /\ k + 1 \in 1 .. Len(d) /\ n + (k + 1) = n2 + k
          BY <1>3, <3>1, <3>3
        <5> QED BY <3>2, <3>3, <5>1
      <4> QED BY <4>1
    <3>5. QueueEnd(d2, n2) = n2 + Len(d2)
      BY <1>3, <3>3, <3>4 DEF QueueEnd
    <3>6. QueueEnd(d, n) = n + Len(d)
      BY <1>3, <2>2 DEF QueueEnd
    <3> QED BY <1>3, <3>1, <3>3, <3>4, <3>5, <3>6 DEF QueueInOrder
  <2> QED BY <2>1, <2>2
<1>7. QueueLeadsTo(d2, n2, pendingSnapshot[s], lastApplied[s])
  <2> HIDE DEF d, n, d2, n2
  <2> QED BY <1>5, <1>6 DEF QueueLeadsTo
<1>8. delivering'[s] = d2 /\ n2 = Len(applied'[s])
  BY <1>2
<1> HIDE DEF d, n, d2, n2, m
<1> QED BY <1>1, <1>2, <1>7, <1>8, OneApplierMoves

LEMMA TakeInOrder ==
  ASSUME TypeOK, IndexOrder, ApplierInv, NEW s \in Server,
         ApplierTakeSnapshot(s) \/ ApplierTakeEntries(s)
  PROVE  ApplierInv'
<1> DEFINE n == Len(applied[s])
<1>0. /\ QueueLeadsTo(delivering[s], n, pendingSnapshot[s], lastApplied[s])
      /\ n \in Nat /\ lastApplied[s] \in Nat /\ commitIndex[s] \in Nat /\ delivering[s] = <<>>
      /\ UNCHANGED applied
  BY ApplierFacts DEF ApplierInv, ApplierTakeSnapshot, ApplierTakeEntries
<1>1. QueueEnd(delivering[s], n) = n
  BY <1>0 DEF QueueEnd
<1>2. CASE ApplierTakeSnapshot(s)
  <2> DEFINE m == [SnapshotValid |-> TRUE, Index |-> pendingSnapshot[s].Index, Command |-> Nil,
                   Snapshot |-> pendingSnapshot[s].Date]
  <2>1. /\ delivering' = [delivering EXCEPT ![s] = <<m>>] /\ pendingSnapshot[s] # Nil
        /\ pendingSnapshot' = [pendingSnapshot EXCEPT ![s] = Nil]
        /\ UNCHANGED lastApplied
    BY <1>2 DEF ApplierTakeSnapshot
  <2>2. /\ m.SnapshotValid /\ m.Index = pendingSnapshot[s].Index
        /\ m.Snapshot = pendingSnapshot[s].Date
    OBVIOUS
  <2> HIDE DEF m
  <2>3. /\ delivering'[s] = <<m>> /\ pendingSnapshot'[s] = Nil
        /\ \A p \in Server \ {s} : /\ delivering'[p] = delivering[p]
                                   /\ pendingSnapshot'[p] = pendingSnapshot[p]
    BY <2>1 DEF TypeOK
  <2>4. QueueLeadsTo(<<m>>, n, Nil, lastApplied[s])
    BY <1>0, <1>1, <2>1, <2>2 DEF QueueLeadsTo, QueueInOrder, QueueEnd
  <2> QED BY <1>0, <2>1, <2>3, <2>4, OneApplierMoves
<1>3. CASE ApplierTakeEntries(s)
  <2> DEFINE len == commitIndex[s] - lastApplied[s]
             cmd(k) == log[s][SliceIndex(s, lastApplied[s] + 1 + k - 1)].command
             q == [k \in 1 .. len |->
                     [SnapshotValid |-> FALSE, Index |-> lastApplied[s] + 1 + k - 1,
                      Command |-> cmd(k), Snapshot |-> <<>>]]
  <2>1. /\ delivering' = [delivering EXCEPT ![s] = q] /\ pendingSnapshot[s] = Nil
        /\ lastApplied' = [lastApplied EXCEPT ![s] = commitIndex[s]]
        /\ UNCHANGED pendingSnapshot
    BY <1>3 DEF ApplierTakeEntries
  <2>2. len \in Nat
    BY <1>0 DEF IndexOrder
  <2>3. Len(q) = len /\ \A k \in 1 .. len : ~q[k].SnapshotValid /\ q[k].Index = lastApplied[s] + k
    BY <1>0, <2>2
  <2> HIDE DEF q
  <2>4. /\ delivering'[s] = q /\ lastApplied'[s] = commitIndex[s] /\ pendingSnapshot'[s] = Nil
        /\ \A p \in Server \ {s} : /\ delivering'[p] = delivering[p]
                                   /\ lastApplied'[p] = lastApplied[p]
    BY <2>1 DEF TypeOK
  <2>5. n = lastApplied[s]
    BY <1>0, <1>1, <2>1 DEF QueueLeadsTo
  <2>6. QueueLeadsTo(q, n, Nil, commitIndex[s])
    <3>1. QueueInOrder(q, n)
      BY <2>3, <2>5 DEF QueueInOrder
    <3>2. Len(q) > 0 => ~q[1].SnapshotValid
      BY <2>2, <2>3
    <3>3. QueueEnd(q, n) = n + len
      BY <2>3, <3>2 DEF QueueEnd
    <3> QED BY <1>0, <2>5, <3>1, <3>3 DEF QueueLeadsTo
  <2> QED BY <1>0, <2>1, <2>4, <2>6, OneApplierMoves
<1> QED BY <1>2, <1>3

LEMMA InstallInOrder ==
  ASSUME TypeOK, IndexOrder, SnapshotsInFlight, ApplierInv, NEW c \in snapCalls,
         InstallSnapshot(c)
  PROVE  ApplierInv'
<1> DEFINE s == c.to
           i == c.LastIncludedIndex
           x == [Index |-> i, Term |-> c.LastIncludedTerm, Date |-> c.Data]
<1>0. s \in Server /\ i \in Nat /\ Len(c.Data) = i /\ UNCHANGED <<delivering, applied>>
  BY DEF TypeOK, InstallSnapshotCall, SnapshotsInFlight, InstallSnapshot
<1>1. CASE Installs(s, c)
  <2>1. /\ lastApplied' = [lastApplied EXCEPT ![s] = Max({lastApplied[s], i})]
        /\ pendingSnapshot' = [pendingSnapshot EXCEPT ![s] = x]
        /\ i > commitIndex[s]
    BY <1>1 DEF InstallSnapshot, Installs
  <2>2. x.Index = i /\ x.Date = c.Data
    OBVIOUS
  <2>3. x # Nil
    <3>1. x \in SnapshotState
      BY DEF TypeOK, InstallSnapshotCall, SnapshotState
    <3> QED BY <3>1, NilIsNoSnapshot
  <2> HIDE DEF s, i, x
  <2>4. lastApplied[s] \in Nat /\ commitIndex[s] \in Nat /\ lastApplied[s] =< commitIndex[s]
    BY <1>0 DEF TypeOK, IndexOrder
  <2>5. Max({lastApplied[s], i}) = i
    <3>1. lastApplied[s] < i /\ lastApplied[s] \in Int /\ i \in Int
      BY <1>0, <2>1, <2>4
    <3>2. Max({lastApplied[s], i}) = IF lastApplied[s] >= i THEN lastApplied[s] ELSE i
      BY <3>1, MaxOfTwo
    <3> QED BY <3>1, <3>2
  <2>6. /\ lastApplied'[s] = i /\ pendingSnapshot'[s] = x
        /\ \A p \in Server \ {s} : /\ lastApplied'[p] = lastApplied[p]
                                   /\ pendingSnapshot'[p] = pendingSnapshot[p]
    BY <1>0, <2>1, <2>5 DEF TypeOK
  <2>7. QueueLeadsTo(delivering[s], Len(applied[s]), pendingSnapshot[s], lastApplied[s])
    BY <1>0 DEF ApplierInv
  <2> DEFINE e == QueueEnd(delivering[s], Len(applied[s]))
  <2>8. e =< lastApplied[s] /\ e \in Nat
    <3>1. e \in Nat
      <4>1. Len(delivering[s]) \in Nat /\ Len(applied[s]) \in Nat
        BY <1>0, ApplierFacts
      <4>2. Len(delivering[s]) > 0 => delivering[s][1].Index \in Nat
        BY <1>0, <4>1, ApplierFacts
      <4>3. CASE Len(delivering[s]) > 0 /\ delivering[s][1].SnapshotValid
        BY <4>2, <4>3 DEF QueueEnd
      <4>4. CASE ~(Len(delivering[s]) > 0 /\ delivering[s][1].SnapshotValid)
        <5>1. e = Len(applied[s]) + Len(delivering[s])
          BY <4>4 DEF QueueEnd
        <5>2. \A a, b \in Nat : a + b \in Nat
          OBVIOUS
        <5> HIDE DEF e
        <5> QED BY <4>1, <5>1, <5>2, Zenon
      <4> QED BY <4>3, <4>4
    <3> HIDE DEF e
    <3>2. CASE pendingSnapshot[s] = Nil
      BY <2>7, <3>1, <3>2 DEF QueueLeadsTo, e
    <3>3. CASE pendingSnapshot[s] # Nil
      BY <2>4, <2>7, <3>1, <3>3 DEF QueueLeadsTo, e
    <3> QED BY <3>1, <3>2, <3>3
  <2> HIDE DEF e
  <2>9. QueueLeadsTo(delivering[s], Len(applied[s]), x, i)
    <3>1. e < i
      BY <1>0, <2>1, <2>4, <2>8
    <3> QED BY <1>0, <2>2, <2>3, <2>7, <3>1 DEF QueueLeadsTo, e
  <2> QED BY <1>0, <2>6, <2>9, OneApplierMoves
<1>2. CASE ~Installs(s, c)
  <2>1. UNCHANGED <<lastApplied, pendingSnapshot>>
    BY <1>2 DEF InstallSnapshot
  <2> QED BY <1>0, <2>1, SameApplierInv
<1> QED BY <1>1, <1>2

LEMMA NextInOrder ==
  ASSUME TypeOK, IndexOrder, DurableState, SnapshotsInFlight, ApplierInv, [Next]_vars
  PROVE  ApplierInv'
<1>1. ASSUME NEW s \in Applying, ApplierTakeSnapshot(s) \/ ApplierTakeEntries(s)
      PROVE  ApplierInv'
  BY <1>1, TakeInOrder, RaftAssumption
<1>2. ASSUME NEW s \in Applying, Deliver(s) PROVE ApplierInv'
  BY <1>2, DeliverInOrder, RaftAssumption
<1>3. ASSUME NEW c \in snapCalls, InstallSnapshot(c) PROVE ApplierInv'
  BY <1>3, InstallInOrder
<1>4. ASSUME NEW s \in Crashing, Restart(s) PROVE ApplierInv'
  <2>0. s \in Server
    BY RaftAssumption
  <2>1. /\ disk[s].LastIncludedIndex = lastIncludedIndex[s] /\ disk[s].Snapshot = snapshot[s]
        /\ Len(snapshot[s]) = lastIncludedIndex[s] /\ lastIncludedIndex[s] \in Nat
    <3>1. Durable(s) /\ lastIncludedIndex[s] \in Nat
      BY <2>0, DurableParts DEF TypeOK
    <3> QED BY <3>1 DEF Durable, Image
  <2>2. /\ delivering'[s] = <<>> /\ applied'[s] = snapshot[s] /\ pendingSnapshot'[s] = Nil
        /\ lastApplied'[s] = lastIncludedIndex[s]
        /\ \A p \in Server \ {s} : /\ delivering'[p] = delivering[p] /\ applied'[p] = applied[p]
                                   /\ pendingSnapshot'[p] = pendingSnapshot[p]
                                   /\ lastApplied'[p] = lastApplied[p]
    BY <1>4, <2>0, <2>1 DEF Restart, TypeOK
  <2>3. QueueLeadsTo(<<>>, lastIncludedIndex[s], Nil, lastIncludedIndex[s])
    BY <2>1 DEF QueueLeadsTo, QueueInOrder, QueueEnd
  <2> QED BY <2>0, <2>1, <2>2, <2>3, OneApplierMoves
<1>5. ASSUME \/ \E s \in Server : StartElection(s)
             \/ \E c \in voteCalls : RequestVote(c) \/ HandleVoteReply(c) \/ VoteCallFails(c)
             \/ \E s \in Server, command \in Command : Start(s, command)
             \/ \E s, p \in Server, g \in Goroutine : ReplicateEntries(s, p, g)
             \/ \E s, p \in Server, g \in Goroutine : ReplicateSnapshot(s, p, g)
             \/ \E c \in appendCalls : AppendEntries(c) \/ HandleAppendReply(c) \/ AppendCallFails(c)
             \/ \E c \in snapCalls : HandleSnapReply(c) \/ SnapCallFails(c)
             \/ \E s \in Server : Snapshot(s)
             \/ \E s \in Applying : ApplierWait(s)
             \/ UNCHANGED vars
      PROVE  UNCHANGED <<delivering, applied, pendingSnapshot, lastApplied>>
  <2>1. ASSUME NEW s, StartElection(s) \/ Snapshot(s) \/ ApplierWait(s)
        PROVE  UNCHANGED <<delivering, applied, pendingSnapshot, lastApplied>>
    BY <2>1 DEF StartElection, Snapshot, ApplierWait, applierVars
  <2>2. ASSUME NEW c, RequestVote(c) \/ HandleVoteReply(c) \/ VoteCallFails(c)
        PROVE  UNCHANGED <<delivering, applied, pendingSnapshot, lastApplied>>
    BY <2>2 DEF RequestVote, HandleVoteReply, VoteCallFails, StepDown, applierVars
  <2>3. ASSUME NEW s, NEW p, NEW g, ReplicateEntries(s, p, g) \/ ReplicateSnapshot(s, p, g)
        PROVE  UNCHANGED <<delivering, applied, pendingSnapshot, lastApplied>>
    BY <2>3 DEF ReplicateEntries, ReplicateSnapshot, applierVars
  <2>4. ASSUME NEW c, AppendEntries(c) \/ HandleAppendReply(c) \/ AppendCallFails(c)
        PROVE  UNCHANGED <<delivering, applied, pendingSnapshot, lastApplied>>
    BY <2>4 DEF AppendEntries, HandleAppendReply, AppendCallFails, StepDown, applierVars
  <2>5. ASSUME NEW c, HandleSnapReply(c) \/ SnapCallFails(c)
        PROVE  UNCHANGED <<delivering, applied, pendingSnapshot, lastApplied>>
    BY <2>5 DEF HandleSnapReply, SnapCallFails, StepDown, applierVars
  <2>6. ASSUME NEW s, NEW command, Start(s, command)
        PROVE  UNCHANGED <<delivering, applied, pendingSnapshot, lastApplied>>
    BY <2>6 DEF Start
  <2>7. ASSUME UNCHANGED vars
        PROVE  UNCHANGED <<delivering, applied, pendingSnapshot, lastApplied>>
    BY <2>7 DEF vars, applierVars
  <2> QED BY <1>5, <2>1, <2>2, <2>3, <2>4, <2>5, <2>6, <2>7
<1>6. ASSUME UNCHANGED <<delivering, applied, pendingSnapshot, lastApplied>>
      PROVE  ApplierInv'
  BY <1>6, SameApplierInv
<1> QED BY <1>1, <1>2, <1>3, <1>4, <1>5, <1>6 DEF Next

LEMMA ApplierInvariant == Spec => []ApplierInv
<1>1. Init => ApplierInv
  BY DEF Init, ApplierInv, QueueLeadsTo, QueueInOrder, QueueEnd
<1>2. DurableInv /\ ApplierInv /\ [Next]_vars => ApplierInv'
  BY NextInOrder DEF DurableInv
<1> QED BY <1>1, <1>2, DurableInvariant, PTL DEF Spec

\* What the applier hands to the service comes in index order, with no gap and no
\* repetition, and a snapshot never takes the service back, whatever was installed,
\* compacted or lost in a crash while earlier messages were still on their way.
THEOREM ServiceSeesOrder == Spec => []ApplyInOrder
<1>1. ASSUME TypeOK, ApplierInv PROVE ApplyInOrder
  <2>1. ASSUME NEW s \in Server
        PROVE  /\ delivering[s] # <<>> =>
                    LET m == Head(delivering[s])
                    IN  IF m.SnapshotValid
                          THEN m.Index > Len(applied[s]) /\ Len(m.Snapshot) = m.Index
                          ELSE m.Index = Len(applied[s]) + 1
               /\ delivering[s] = <<>> /\ pendingSnapshot[s] = Nil =>
                    Len(applied[s]) = lastApplied[s]
    <3> DEFINE d == delivering[s]
               n == Len(applied[s])
    <3>1. QueueLeadsTo(d, n, pendingSnapshot[s], lastApplied[s])
      BY <1>1 DEF ApplierInv
    <3>2. /\ d \in Seq(ApplyMsg) /\ Len(d) \in Nat /\ n \in Nat
          /\ d # <<>> => Head(d) = d[1] /\ Len(d) >= 1
      BY <1>1, ApplierFacts, EmptySeq, HeadTailProperties
    <3> HIDE DEF d, n
    <3>3. CASE d # <<>>
      BY <3>1, <3>2, <3>3 DEF QueueLeadsTo, QueueInOrder, d, n
    <3>4. CASE d = <<>> /\ pendingSnapshot[s] = Nil
      <4>1. QueueEnd(d, n) = n
        BY <3>2, <3>4 DEF QueueEnd
      <4> QED BY <3>1, <3>4, <4>1 DEF QueueLeadsTo, d, n
    <3> QED BY <3>3, <3>4 DEF d
  <2> QED BY <2>1 DEF ApplyInOrder
<1>2. DurableInv /\ ApplierInv => ApplyInOrder
  BY <1>1 DEF DurableInv
<1> QED BY <1>2, DurableInvariant, ApplierInvariant, PTL
=============================================================================

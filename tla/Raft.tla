-------------------------------- MODULE Raft --------------------------------
(***************************************************************************)
(* The Raft peer of src/src/raft1/raft.go: elections, log replication with *)
(* fast back-up, snapshots, persistence, the applier goroutine, and peers  *)
(* that crash and restart.                                                 *)
(*                                                                         *)
(* Every critical section of the code (what runs between rf.mu.Lock() and  *)
(* the matching Unlock()) is one action.  An RPC is a record in one of the *)
(* three sets of calls, see RPC CALLS below.  Timers are abstracted: an    *)
(* election may start at any moment on a server that is not leader, and a  *)
(* leader may send a heartbeat at any moment.                              *)
(***************************************************************************)
EXTENDS Integers, Sequences, FiniteSets, FiniteSetsExt

CONSTANTS
    Server,        \* the peers
    Command,       \* what the service passes to Start
    Nil,           \* "no vote" (-1 in the code), the command of the dummy entry, no pending snapshot
    Goroutine,     \* identities of concurrent replicateToPeer goroutines
    MaxTerm,       \* bound: no election starts beyond this term
    MaxIndex,      \* bound: no command is started beyond this log index
    MaxVoteCalls,  \* bound: RequestVote calls in flight at once
    Crashing,      \* bound: the peers that may crash
    Applying       \* bound: the peers whose applier goroutine gets to run

ASSUME RaftAssumption ==
    /\ IsFiniteSet(Server)
    /\ Server # {}
    /\ Nil \notin Server
    /\ MaxTerm \in Nat
    /\ MaxIndex \in Nat
    /\ MaxVoteCalls \in Nat
    /\ Crashing \subseteq Server
    /\ Applying \subseteq Server

VARIABLES
    \* persistent part of struct Raft
    term, voteFor, log, lastIncludedIndex, lastIncludedTerm, snapshot,
    \* volatile part of struct Raft
    state, commitIndex, lastApplied, nextIndex, matchIndex, pendingSnapshot,
    \* what the goroutines of a peer hold in local variables
    votes,         \* peers whose vote the current election has counted
    delivering,    \* ApplyMsgs the applier has copied out and not yet sent on applyCh
    waiting,       \* the applier sleeps in applyCond.Wait()
    \* the other side of Persister.Save and of applyCh
    disk,          \* the peer's Persister
    applied,       \* the commands the service has ingested (its state)
    \* the network
    voteCalls, appendCalls, snapCalls

persistentVars == <<term, voteFor, log, lastIncludedIndex, lastIncludedTerm, snapshot>>
leaderVars     == <<nextIndex, matchIndex>>
applierVars    == <<lastApplied, pendingSnapshot, delivering, waiting, applied>>
networkVars    == <<voteCalls, appendCalls, snapCalls>>
vars == <<persistentVars, state, commitIndex, leaderVars, votes, applierVars,
          disk, networkVars>>

-----------------------------------------------------------------------------
(* TYPES *)

StateType == {"Follower", "Candidate", "Leader"}
LogEntry  == [term: Nat, command: Command \cup {Nil}]
LogType   == Seq(LogEntry) \ {<<>>}     \* the dummy entry is always there
Data      == Seq(Command \cup {Nil})    \* a snapshot: the commands the service had applied
SnapshotState == [Index: Nat, Term: Nat, Date: Data]
\* The nil pointer is not a SnapshotState.
ASSUME NilIsNoSnapshot == Nil \notin SnapshotState

PersistentState == [Term: Nat, VoteFor: Server \cup {Nil}, Log: LogType,
                    LastIncludedIndex: Nat, LastIncludedTerm: Nat, Snapshot: Data]
\* A command message carries its index and command, a snapshot message its index and data.
ApplyMsg == [SnapshotValid: BOOLEAN, Index: Nat, Command: Command \cup {Nil}, Snapshot: Data]

(***************************************************************************)
(* RPC CALLS.  labrpc runs the handler of a call at most once, may lose    *)
(* the request or the reply, and may delay either for long.  A call is     *)
(*   "sent"      its handler has not run; the calling goroutine waits;     *)
(*   "orphan"    as "sent", but the caller has crashed: the reply, if the  *)
(*               handler ever runs, goes nowhere;                          *)
(*   "answered"  its handler has run; the reply is on its way.             *)
(***************************************************************************)
Phase == {"sent", "orphan", "answered"}

RequestVoteReply   == [Term: Nat, VoteGranted: BOOLEAN]
AppendEntriesReply == [Term: Nat, Success: BOOLEAN, XTerm: Int, XIndex: Int, XLen: Int]
RequestVoteCall ==
    [phase: Phase, from: Server, to: Server, Term: Nat,
     LastlogTerm: Nat, LastlogIndex: Nat, reply: RequestVoteReply]
AppendEntriesCall ==
    [phase: Phase, id: Goroutine, from: Server, to: Server, Term: Nat, PrevLogIndex: Nat,
     PrevlogTerm: Nat, Entries: Seq(LogEntry), LeaderCommit: Nat, reply: AppendEntriesReply]
InstallSnapshotCall ==
    [phase: Phase, id: Goroutine, from: Server, to: Server, Term: Nat,
     LastIncludedIndex: Nat, LastIncludedTerm: Nat, Data: Data, reply: [Term: Nat]]

\* The zero value of a reply struct, before the handler fills it in.
NoVote   == [Term |-> 0, VoteGranted |-> FALSE]
NoAppend == [Term |-> 0, Success |-> FALSE, XTerm |-> 0, XIndex |-> 0, XLen |-> 0]
NoSnap   == [Term |-> 0]

\* The set of calls once the handler of c has run and produced r.
Answered(calls, c, r) ==
    (calls \ {c}) \cup
    IF c.phase = "sent" THEN {[c EXCEPT !.phase = "answered", !.reply = r]} ELSE {}

\* The set of calls once server s, and every goroutine waiting in a call of its own, is dead.
Orphaned(calls, s) ==
    {c \in calls : c.from # s} \cup
    {[c EXCEPT !.phase = "orphan"] : c \in {d \in calls : d.from = s /\ d.phase # "answered"}}

-----------------------------------------------------------------------------
(***************************************************************************)
(* INDEX ARITHMETIC.  log[s][1] is the dummy entry at lastIncludedIndex[s].*)
(* Go stops the process at an index out of range: the steps that index the *)
(* log with a computed index have InLog among their guards, and            *)
(* IndexesInRange states that it never is what stops them.                 *)
(***************************************************************************)

HalfIsEnough == Cardinality(Server) \div 2                       \* mutant
Majority == Cardinality(Server) \div 2 + 1

LastLogIndex(s)      == lastIncludedIndex[s] + Len(log[s]) - 1
SliceIndex(s, index) == index - lastIncludedIndex[s] + 1
InLog(s, index)      == index \in lastIncludedIndex[s] .. LastLogIndex(s)
TermAt(s, index)     == log[s][SliceIndex(s, index)].term

\* mutant: the snapshot is not passed to Save.
PersistWithoutSnapshot(s) ==
    disk' = [disk EXCEPT ![s] =
               [Term |-> term'[s], VoteFor |-> voteFor'[s], Log |-> log'[s],
                LastIncludedIndex |-> lastIncludedIndex'[s],
                LastIncludedTerm |-> lastIncludedTerm'[s], Snapshot |-> @.Snapshot]]

\* persist(): everything durable, and the snapshot that goes with it, in one Save.
Persist(s) ==
    disk' = [disk EXCEPT ![s] =
               [Term |-> term'[s], VoteFor |-> voteFor'[s], Log |-> log'[s],
                LastIncludedIndex |-> lastIncludedIndex'[s],
                LastIncludedTerm |-> lastIncludedTerm'[s], Snapshot |-> snapshot'[s]]]

\* mutant: a vote given without a change of term is not saved.
PersistOnNewTerm(changed, s) ==
    IF changed /\ term'[s] # term[s] THEN Persist(s) ELSE UNCHANGED disk
PersistIf(changed, s) == IF changed THEN Persist(s) ELSE UNCHANGED disk

NoSignal(s) == UNCHANGED waiting                                  \* mutant
\* applyCond.Signal()
Signal(s) == waiting' = [waiting EXCEPT ![s] = FALSE]

-----------------------------------------------------------------------------
(* ELECTIONS *)

\* becomeLeaderLocked(), for a server whose log does not change in the same step.
BecomeLeader(s) ==
    /\ state' = [state EXCEPT ![s] = "Leader"]
    /\ nextIndex' = [nextIndex EXCEPT ![s] = [p \in Server |-> LastLogIndex(s) + 1]]
    /\ matchIndex' = [matchIndex EXCEPT ![s] =
                        [p \in Server |-> IF p = s THEN LastLogIndex(s) ELSE 0]]

\* startElection(): a new term, a vote for oneself, one goroutine and one call per peer.
StartElection(s) ==
    /\ state[s] # "Leader"
    /\ term[s] < MaxTerm
    /\ Cardinality(voteCalls) + Cardinality(Server) - 1 =< MaxVoteCalls
    /\ term' = [term EXCEPT ![s] = @ + 1]
    /\ voteFor' = [voteFor EXCEPT ![s] = s]
    /\ votes' = [votes EXCEPT ![s] = {s}]
    /\ UNCHANGED <<log, lastIncludedIndex, lastIncludedTerm, snapshot>>
    /\ Persist(s)
    /\ IF Majority = 1
         THEN BecomeLeader(s)
         ELSE state' = [state EXCEPT ![s] = "Candidate"] /\ UNCHANGED leaderVars
    /\ voteCalls' = voteCalls \cup
         {[phase |-> "sent", from |-> s, to |-> p, Term |-> term[s] + 1,
           LastlogTerm |-> TermAt(s, LastLogIndex(s)), LastlogIndex |-> LastLogIndex(s),
           reply |-> NoVote] : p \in Server \ {s}}
    /\ UNCHANGED <<commitIndex, applierVars, appendCalls, snapCalls>>

\* The voter's decision, once its term is at least the candidate's.
UpToDate(s, c) ==
    \/ c.LastlogTerm > TermAt(s, LastLogIndex(s))
    \/ c.LastlogTerm = TermAt(s, LastLogIndex(s)) /\ c.LastlogIndex >= LastLogIndex(s)

CanVote(s, c) == c.Term > term[s] \/ voteFor[s] \in {Nil, c.from}
Grants(s, c) == c.Term >= term[s] /\ UpToDate(s, c) /\ CanVote(s, c)

\* RequestVote(), the handler.
RequestVote(c) ==
    LET s       == c.to
        newTerm == c.Term > term[s]
        grant   == Grants(s, c)
    IN  /\ c.phase # "answered"
        /\ term' = [term EXCEPT ![s] = IF newTerm THEN c.Term ELSE @]
        /\ voteFor' = [voteFor EXCEPT ![s] =
                         IF grant THEN c.from ELSE IF newTerm THEN Nil ELSE @]
        /\ state' = [state EXCEPT ![s] = IF newTerm \/ grant THEN "Follower" ELSE @]
        /\ UNCHANGED <<log, lastIncludedIndex, lastIncludedTerm, snapshot>>
        /\ PersistIf(newTerm \/ grant, s)
        /\ voteCalls' = Answered(voteCalls, c, [Term |-> term'[s], VoteGranted |-> grant])
        /\ UNCHANGED <<commitIndex, leaderVars, votes, applierVars, appendCalls, snapCalls>>

\* What every reply handler does with a reply from a later term.
StepDown(s, t) ==
    /\ term' = [term EXCEPT ![s] = t]
    /\ state' = [state EXCEPT ![s] = "Follower"]
    /\ voteFor' = [voteFor EXCEPT ![s] = Nil]
    /\ UNCHANGED <<log, lastIncludedIndex, lastIncludedTerm, snapshot>>
    /\ Persist(s)
    /\ UNCHANGED <<leaderVars, votes, commitIndex, applierVars>>

\* mutant: a vote for an earlier election of the same peer counts too.
CountsStaleVote(s, c) == state[s] = "Candidate" /\ c.reply.VoteGranted

\* The vote counts only for the election that asked for it.
CountsVote(s, c) ==
    /\ state[s] = "Candidate"
    /\ term[s] = c.Term
    /\ c.reply.Term = c.Term
    /\ c.reply.VoteGranted

\* The goroutine of startElection() once its call has returned true.
HandleVoteReply(c) ==
    LET s == c.from
    IN  /\ c.phase = "answered"
        /\ voteCalls' = voteCalls \ {c}
        /\ UNCHANGED <<appendCalls, snapCalls>>
        /\ \/ c.reply.Term > term[s] /\ StepDown(s, c.reply.Term)
           \/ /\ c.reply.Term =< term[s]
              /\ CountsVote(s, c)
              /\ votes' = [votes EXCEPT ![s] = @ \cup {c.to}]
              /\ IF Cardinality(votes'[s]) >= Majority
                   THEN BecomeLeader(s)
                   ELSE UNCHANGED <<state, leaderVars>>
              /\ UNCHANGED <<persistentVars, commitIndex, applierVars, disk>>
           \/ /\ c.reply.Term =< term[s]
              /\ ~CountsVote(s, c)
              /\ UNCHANGED <<persistentVars, state, leaderVars, votes, commitIndex,
                             applierVars, disk>>

-----------------------------------------------------------------------------
(* REPLICATION: THE LEADER *)

\* mutant: entries of earlier terms are counted too.
CommittableOfAnyTerm(s, lg, match) ==
    {i \in commitIndex[s] + 1 .. lastIncludedIndex[s] + Len(lg) - 1 :
        Cardinality({p \in Server : match[p] >= i}) >= Majority}

\* advanceCommitIndexLocked() with log lg and match indexes match of server s.
Committable(s, lg, match) ==
    {i \in commitIndex[s] + 1 .. lastIncludedIndex[s] + Len(lg) - 1 :
        /\ lg[SliceIndex(s, i)].term = term[s]
        /\ Cardinality({p \in Server : match[p] >= i}) >= Majority}

AdvanceCommitIndex(s, lg, match) ==
    IF Committable(s, lg, match) = {}
      THEN UNCHANGED <<commitIndex, waiting>>
      ELSE /\ commitIndex' = [commitIndex EXCEPT ![s] = Max(Committable(s, lg, match))]
           /\ Signal(s)

\* Start(): the leader appends and persists; the broadcast that follows is Replicate*.
Start(s, command) ==
    /\ state[s] = "Leader"
    /\ LastLogIndex(s) < MaxIndex
    /\ log' = [log EXCEPT ![s] = Append(@, [term |-> term[s], command |-> command])]
    /\ matchIndex' = [matchIndex EXCEPT ![s][s] = LastLogIndex(s) + 1]
    /\ nextIndex' = [nextIndex EXCEPT ![s][s] = LastLogIndex(s) + 2]
    /\ UNCHANGED <<term, voteFor, lastIncludedIndex, lastIncludedTerm, snapshot>>
    /\ Persist(s)
    /\ AdvanceCommitIndex(s, log'[s], matchIndex'[s])
    /\ UNCHANGED <<state, votes, lastApplied, pendingSnapshot, delivering, applied,
                   networkVars>>

\* Goroutines whose call is not in flight.  A goroutine that returns, or that
\* goes round its loop again, is free until it sends.
Free == Goroutine \ ({c.id : c \in appendCalls} \cup {c.id : c \in snapCalls})

\* replicateToPeer(), up to sendInstallSnapshot: the peer needs an entry that is compacted.
ReplicateSnapshot(s, p, g) ==
    /\ g \in Free /\ p # s
    /\ state[s] = "Leader"
    /\ nextIndex[s][p] =< lastIncludedIndex[s]
    /\ snapCalls' = snapCalls \cup
         {[phase |-> "sent", id |-> g, from |-> s, to |-> p, Term |-> term[s],
           LastIncludedIndex |-> lastIncludedIndex[s],
           LastIncludedTerm |-> lastIncludedTerm[s], Data |-> snapshot[s], reply |-> NoSnap]}
    /\ UNCHANGED <<persistentVars, state, commitIndex, leaderVars, votes, applierVars,
                   disk, voteCalls, appendCalls>>

OneEntryFrom(s, next) ==                                          \* mutant
    SubSeq(log[s], SliceIndex(s, next), Min({SliceIndex(s, next), Len(log[s])}))
EntriesFrom(s, next) == SubSeq(log[s], SliceIndex(s, next), Len(log[s]))

\* replicateToPeer(), up to sendAppendEntries: everything from nextIndex to the end of the log.
ReplicateEntries(s, p, g) ==
    LET next == nextIndex[s][p]
    IN  /\ g \in Free /\ p # s
        /\ state[s] = "Leader"
        /\ next > lastIncludedIndex[s]
        /\ InLog(s, next - 1)
        /\ appendCalls' = appendCalls \cup
             {[phase |-> "sent", id |-> g, from |-> s, to |-> p, Term |-> term[s],
               PrevLogIndex |-> next - 1, PrevlogTerm |-> TermAt(s, next - 1),
               Entries |-> EntriesFrom(s, next),
               LeaderCommit |-> commitIndex[s], reply |-> NoAppend]}
        /\ UNCHANGED <<persistentVars, state, commitIndex, leaderVars, votes, applierVars,
                       disk, voteCalls, snapCalls>>

\* mutant: a conflict is treated as a log that is too short.
BackUpToEnd(s, reply) == reply.XLen

\* Where replicateToPeer() goes next after a rejection: XLen for a log that is too
\* short or compacted; else past the leader's last entry of XTerm, or to XIndex.
BackUp(s, reply) ==
    LET hits == {i \in lastIncludedIndex[s] .. LastLogIndex(s) : TermAt(s, i) = reply.XTerm}
    IN  IF reply.XTerm = -1 THEN reply.XLen
        ELSE IF hits # {} THEN Max(hits) + 1
        ELSE reply.XIndex

\* mutant: what is known to match may be probed again.
NextBelowMatch(s, p, reply) == Min({LastLogIndex(s) + 1, Max({1, BackUp(s, reply)})})

\* ... clipped to [max(1, matchIndex + 1), lastLogIndex + 1].
NextAfterReject(s, p, reply) ==
    Max({matchIndex[s][p] + 1,
         Min({LastLogIndex(s) + 1, Max({1, BackUp(s, reply)})})})

\* mutant: the cursor is read again after the call instead of kept from before it.
MatchedFromCursor(c) == nextIndex[c.from][c.to] - 1 + Len(c.Entries)
Matched(c) == c.PrevLogIndex + Len(c.Entries)

\* replicateToPeer() after sendAppendEntries returned true.
HandleAppendReply(c) ==
    LET s == c.from
        p == c.to
        current == state[s] = "Leader" /\ term[s] = c.Term
    IN  /\ c.phase = "answered"
        /\ appendCalls' = appendCalls \ {c}
        /\ UNCHANGED <<voteCalls, snapCalls>>
        /\ \/ c.reply.Term > term[s] /\ StepDown(s, c.reply.Term)
           \/ /\ c.reply.Term =< term[s] /\ current /\ c.reply.Success
              /\ IF Matched(c) > matchIndex[s][p]
                   THEN /\ matchIndex' = [matchIndex EXCEPT ![s][p] = Matched(c)]
                        /\ nextIndex' = [nextIndex EXCEPT ![s][p] = Matched(c) + 1]
                   ELSE UNCHANGED leaderVars
              /\ AdvanceCommitIndex(s, log[s], matchIndex'[s])
              /\ UNCHANGED <<persistentVars, state, votes, lastApplied, pendingSnapshot,
                             delivering, applied, disk>>
           \/ /\ c.reply.Term =< term[s] /\ current /\ ~c.reply.Success
              /\ nextIndex' = [nextIndex EXCEPT ![s][p] =
                    IF @ = c.PrevLogIndex + 1 THEN NextAfterReject(s, p, c.reply) ELSE @]
              /\ UNCHANGED <<persistentVars, state, commitIndex, matchIndex, votes,
                             applierVars, disk>>
           \/ /\ c.reply.Term =< term[s] /\ ~current
              /\ UNCHANGED <<persistentVars, state, commitIndex, leaderVars, votes,
                             applierVars, disk>>

\* replicateToPeer() after sendInstallSnapshot returned true.
HandleSnapReply(c) ==
    LET s == c.from
        p == c.to
        current == state[s] = "Leader" /\ term[s] = c.Term
    IN  /\ c.phase = "answered"
        /\ snapCalls' = snapCalls \ {c}
        /\ UNCHANGED <<voteCalls, appendCalls>>
        /\ \/ c.reply.Term > term[s] /\ StepDown(s, c.reply.Term)
           \/ /\ c.reply.Term =< term[s] /\ current
              /\ matchIndex' = [matchIndex EXCEPT ![s][p] = Max({@, c.LastIncludedIndex})]
              /\ nextIndex' = [nextIndex EXCEPT ![s][p] = Max({@, c.LastIncludedIndex + 1})]
              /\ UNCHANGED <<persistentVars, state, commitIndex, votes, applierVars, disk>>
           \/ /\ c.reply.Term =< term[s] /\ ~current
              /\ UNCHANGED <<persistentVars, state, commitIndex, leaderVars, votes,
                             applierVars, disk>>

-----------------------------------------------------------------------------
(* REPLICATION: THE FOLLOWER *)

\* The first of the handler's checks that fails, or "accept".
AppendVerdict(s, c) ==
    IF c.Term < term[s] THEN "stale"
    ELSE IF c.PrevLogIndex > LastLogIndex(s) THEN "short"
    ELSE IF c.PrevLogIndex < lastIncludedIndex[s] THEN "compacted"
    ELSE IF TermAt(s, c.PrevLogIndex) # c.PrevlogTerm THEN "conflict"
    ELSE "accept"

\* First index of the run of entries with the term found at prev, not reaching
\* into the snapshot.
ConflictStart(s, prev) ==
    Min({prev} \cup {k \in lastIncludedIndex[s] + 1 .. prev :
                       \A j \in k .. prev : TermAt(s, j) = TermAt(s, prev)})

AppendReply(s, c) ==
    LET verdict == AppendVerdict(s, c)
        conflict == verdict = "conflict"
    IN  [Term    |-> Max({term[s], c.Term}),
         Success |-> verdict = "accept",
         XTerm   |-> IF conflict THEN TermAt(s, c.PrevLogIndex) ELSE -1,
         XIndex  |-> IF conflict THEN ConflictStart(s, c.PrevLogIndex) ELSE -1,
         XLen    |-> IF verdict = "compacted" THEN lastIncludedIndex[s] + 1
                                              ELSE LastLogIndex(s) + 1]

\* mutant: entries already present are kept even if their terms differ.
MergeWithoutCut(s, c) ==
    LET base == SliceIndex(s, c.PrevLogIndex)
        n    == Len(c.Entries)
        keep == Min({n, Len(log[s]) - base})
    IN  log[s] \o SubSeq(c.Entries, keep + 1, n)

\* The follower's log after it has taken in the entries: cut at the first entry
\* whose term differs, then extended by what it does not have.  A log that
\* already holds them all is left alone, whatever follows them.
Merge(s, c) ==
    LET base == SliceIndex(s, c.PrevLogIndex)
        n    == Len(c.Entries)
        clash == {i \in 1 .. n : base + i =< Len(log[s]) /\ log[s][base + i].term # c.Entries[i].term}
        keep == IF clash # {} THEN Min(clash) - 1 ELSE Min({n, Len(log[s]) - base})
    IN  IF keep = n THEN log[s]
        ELSE SubSeq(log[s], 1, base + keep) \o SubSeq(c.Entries, keep + 1, n)

\* AppendEntries(), the handler.
AppendEntries(c) ==
    LET s == c.to
        verdict == AppendVerdict(s, c)
        newTerm == c.Term > term[s]
        newLog  == IF verdict = "accept" THEN Merge(s, c) ELSE log[s]
        newCommit == Min({c.LeaderCommit, lastIncludedIndex[s] + Len(newLog) - 1})
    IN  /\ c.phase # "answered"
        /\ term' = [term EXCEPT ![s] = IF newTerm THEN c.Term ELSE @]
        /\ voteFor' = [voteFor EXCEPT ![s] = IF newTerm THEN Nil ELSE @]
        /\ state' = [state EXCEPT ![s] = IF verdict # "stale" THEN "Follower" ELSE @]
        /\ log' = [log EXCEPT ![s] = newLog]
        /\ UNCHANGED <<lastIncludedIndex, lastIncludedTerm, snapshot>>
        /\ PersistIf(newTerm \/ newLog # log[s], s)
        /\ IF verdict = "accept" /\ newCommit > commitIndex[s]
             THEN commitIndex' = [commitIndex EXCEPT ![s] = newCommit] /\ Signal(s)
             ELSE UNCHANGED <<commitIndex, waiting>>
        /\ appendCalls' = Answered(appendCalls, c, AppendReply(s, c))
        /\ UNCHANGED <<leaderVars, votes, lastApplied, pendingSnapshot, delivering, applied,
                       voteCalls, snapCalls>>

-----------------------------------------------------------------------------
(* SNAPSHOTS *)

\* mutant: no dummy entry is left at the snapshot's index.
CompactWithoutDummy(s, i, t) ==
    IF SliceIndex(s, i) =< Len(log[s]) /\ TermAt(s, i) = t
      THEN SubSeq(log[s], SliceIndex(s, i) + 1, Len(log[s])) ELSE <<>>

\* mutant: the suffix starts one entry too early.
CompactKeepsOneMore(s, i, t) ==
    LET agrees == SliceIndex(s, i) =< Len(log[s]) /\ TermAt(s, i) = t
    IN  <<[term |-> t, command |-> Nil]>> \o
        (IF agrees THEN SubSeq(log[s], SliceIndex(s, i), Len(log[s])) ELSE <<>>)

\* The log behind a dummy entry for index i with term t, keeping from the old log
\* what follows i if the old log agrees at i.
Compact(s, i, t) ==
    LET agrees == SliceIndex(s, i) =< Len(log[s]) /\ TermAt(s, i) = t
    IN  <<[term |-> t, command |-> Nil]>> \o
        (IF agrees THEN SubSeq(log[s], SliceIndex(s, i) + 1, Len(log[s])) ELSE <<>>)

\* Snapshot(): the service hands over its state, which covers what it has ingested.
Snapshot(s) ==
    LET index == Len(applied[s])
    IN  /\ index > lastIncludedIndex[s]
        /\ index =< lastApplied[s]
        /\ InLog(s, index)
        /\ log' = [log EXCEPT ![s] = Compact(s, index, TermAt(s, index))]
        /\ lastIncludedIndex' = [lastIncludedIndex EXCEPT ![s] = index]
        /\ lastIncludedTerm' = [lastIncludedTerm EXCEPT ![s] = TermAt(s, index)]
        /\ snapshot' = [snapshot EXCEPT ![s] = applied[s]]
        /\ UNCHANGED <<term, voteFor>>
        /\ Persist(s)
        /\ UNCHANGED <<state, commitIndex, leaderVars, votes, applierVars, networkVars>>

InstallsAny(s, c) == c.Term >= term[s] /\ c.LastIncludedIndex > lastIncludedIndex[s]   \* mutant
\* A snapshot is taken in unless its leader is deposed or everything in it is committed here.
Installs(s, c) == c.Term >= term[s] /\ c.LastIncludedIndex > commitIndex[s]

\* InstallSnapshot(), the handler.
InstallSnapshot(c) ==
    LET s == c.to
        i == c.LastIncludedIndex
        newTerm == c.Term > term[s]
        install == Installs(s, c)
    IN  /\ c.phase # "answered"
        /\ term' = [term EXCEPT ![s] = IF newTerm THEN c.Term ELSE @]
        /\ voteFor' = [voteFor EXCEPT ![s] = IF newTerm THEN Nil ELSE @]
        /\ state' = [state EXCEPT ![s] = IF c.Term >= term[s] THEN "Follower" ELSE @]
        /\ IF install
             THEN /\ log' = [log EXCEPT ![s] = Compact(s, i, c.LastIncludedTerm)]
                  /\ lastIncludedIndex' = [lastIncludedIndex EXCEPT ![s] = i]
                  /\ lastIncludedTerm' = [lastIncludedTerm EXCEPT ![s] = c.LastIncludedTerm]
                  /\ snapshot' = [snapshot EXCEPT ![s] = c.Data]
                  /\ commitIndex' = [commitIndex EXCEPT ![s] = i]
                  /\ lastApplied' = [lastApplied EXCEPT ![s] = Max({@, i})]
                  /\ pendingSnapshot' = [pendingSnapshot EXCEPT ![s] =
                        [Index |-> i, Term |-> c.LastIncludedTerm, Date |-> c.Data]]
                  /\ Signal(s)
             ELSE UNCHANGED <<log, lastIncludedIndex, lastIncludedTerm, snapshot,
                              commitIndex, lastApplied, pendingSnapshot, waiting>>
        /\ PersistIf(newTerm \/ install, s)
        /\ snapCalls' = Answered(snapCalls, c, [Term |-> term'[s]])
        /\ UNCHANGED <<leaderVars, votes, delivering, applied, voteCalls, appendCalls>>

-----------------------------------------------------------------------------
(* THE APPLIER AND THE SERVICE *)

NothingToApply(s) == pendingSnapshot[s] = Nil /\ lastApplied[s] >= commitIndex[s]

\* applier(): all messages sent, nothing new: sleep in applyCond.Wait().
ApplierWait(s) ==
    /\ ~waiting[s] /\ delivering[s] = <<>>
    /\ NothingToApply(s)
    /\ waiting' = [waiting EXCEPT ![s] = TRUE]
    /\ UNCHANGED <<persistentVars, state, commitIndex, leaderVars, votes, lastApplied,
                   pendingSnapshot, delivering, applied, disk, networkVars>>

\* applier(): take the pending snapshot out, under the lock.
ApplierTakeSnapshot(s) ==
    /\ ~waiting[s] /\ delivering[s] = <<>>
    /\ pendingSnapshot[s] # Nil
    /\ delivering' = [delivering EXCEPT ![s] =
          <<[SnapshotValid |-> TRUE, Index |-> pendingSnapshot[s].Index, Command |-> Nil,
             Snapshot |-> pendingSnapshot[s].Date]>>]
    /\ pendingSnapshot' = [pendingSnapshot EXCEPT ![s] = Nil]
    /\ UNCHANGED <<persistentVars, state, commitIndex, leaderVars, votes, lastApplied,
                   waiting, applied, disk, networkVars>>

\* applier(): copy the newly committed entries out, under the lock.
ApplierTakeEntries(s) ==
    LET start == lastApplied[s] + 1
    IN  /\ ~waiting[s] /\ delivering[s] = <<>>
        /\ pendingSnapshot[s] = Nil
        /\ lastApplied[s] < commitIndex[s]
        /\ InLog(s, start) /\ InLog(s, commitIndex[s])
        /\ delivering' = [delivering EXCEPT ![s] =
              [k \in 1 .. commitIndex[s] - lastApplied[s] |->
                 [SnapshotValid |-> FALSE, Index |-> start + k - 1,
                  Command |-> log[s][SliceIndex(s, start + k - 1)].command,
                  Snapshot |-> <<>>]]]
        /\ lastApplied' = [lastApplied EXCEPT ![s] = commitIndex[s]]
        /\ UNCHANGED <<persistentVars, state, commitIndex, leaderVars, votes,
                       pendingSnapshot, waiting, applied, disk, networkVars>>

\* The send on applyCh and the service's loop body: a snapshot replaces its state,
\* a command is added to it.
Deliver(s) ==
    /\ delivering[s] # <<>>
    /\ delivering' = [delivering EXCEPT ![s] = Tail(@)]
    /\ applied' = [applied EXCEPT ![s] =
          LET m == Head(delivering[s])
          IN  IF m.SnapshotValid THEN m.Snapshot ELSE Append(@, m.Command)]
    /\ UNCHANGED <<persistentVars, state, commitIndex, leaderVars, votes, lastApplied,
                   pendingSnapshot, waiting, disk, networkVars>>

-----------------------------------------------------------------------------
(* FAILURES *)

\* A Call() that returns false, and a request whose caller is dead getting lost.
VoteCallFails(c) ==
    /\ voteCalls' = voteCalls \ {c}
    /\ UNCHANGED <<persistentVars, state, commitIndex, leaderVars, votes, applierVars,
                   disk, appendCalls, snapCalls>>

AppendCallFails(c) ==
    /\ appendCalls' = appendCalls \ {c}
    /\ UNCHANGED <<persistentVars, state, commitIndex, leaderVars, votes, applierVars,
                   disk, voteCalls, snapCalls>>

SnapCallFails(c) ==
    /\ snapCalls' = snapCalls \ {c}
    /\ UNCHANGED <<persistentVars, state, commitIndex, leaderVars, votes, applierVars,
                   disk, voteCalls, appendCalls>>

\* readPersist() and ReadSnapshot(): what the Persister holds becomes the peer's state.
ReadPersist(s) ==
    /\ term' = [term EXCEPT ![s] = disk[s].Term]
    /\ voteFor' = [voteFor EXCEPT ![s] = disk[s].VoteFor]
    /\ log' = [log EXCEPT ![s] = disk[s].Log]
    /\ lastIncludedIndex' = [lastIncludedIndex EXCEPT ![s] = disk[s].LastIncludedIndex]
    /\ lastIncludedTerm' = [lastIncludedTerm EXCEPT ![s] = disk[s].LastIncludedTerm]
    /\ snapshot' = [snapshot EXCEPT ![s] = disk[s].Snapshot]

\* The process dies and Make() builds a new peer, and the service a new state, from
\* the Persister.
Restart(s) ==
    /\ ReadPersist(s)
    /\ state' = [state EXCEPT ![s] = "Follower"]
    /\ commitIndex' = [commitIndex EXCEPT ![s] = disk[s].LastIncludedIndex]
    /\ lastApplied' = [lastApplied EXCEPT ![s] = disk[s].LastIncludedIndex]
    /\ nextIndex' = [nextIndex EXCEPT ![s] = [p \in Server |-> 0]]
    /\ matchIndex' = [matchIndex EXCEPT ![s] = [p \in Server |-> 0]]
    /\ pendingSnapshot' = [pendingSnapshot EXCEPT ![s] = Nil]
    /\ votes' = [votes EXCEPT ![s] = {}]
    /\ delivering' = [delivering EXCEPT ![s] = <<>>]
    /\ waiting' = [waiting EXCEPT ![s] = FALSE]
    /\ applied' = [applied EXCEPT ![s] = disk[s].Snapshot]
    /\ voteCalls' = Orphaned(voteCalls, s)
    /\ appendCalls' = Orphaned(appendCalls, s)
    /\ snapCalls' = Orphaned(snapCalls, s)
    /\ UNCHANGED disk

-----------------------------------------------------------------------------
(* SPECIFICATION *)

Dummy == [term |-> 0, command |-> Nil]

\* Make() with an empty Persister, on every peer.
Init ==
    /\ term = [s \in Server |-> 0]
    /\ voteFor = [s \in Server |-> Nil]
    /\ log = [s \in Server |-> <<Dummy>>]
    /\ lastIncludedIndex = [s \in Server |-> 0]
    /\ lastIncludedTerm = [s \in Server |-> 0]
    /\ snapshot = [s \in Server |-> <<>>]
    /\ state = [s \in Server |-> "Follower"]
    /\ commitIndex = [s \in Server |-> 0]
    /\ lastApplied = [s \in Server |-> 0]
    /\ nextIndex = [s \in Server |-> [p \in Server |-> 0]]
    /\ matchIndex = [s \in Server |-> [p \in Server |-> 0]]
    /\ pendingSnapshot = [s \in Server |-> Nil]
    /\ votes = [s \in Server |-> {}]
    /\ delivering = [s \in Server |-> <<>>]
    /\ waiting = [s \in Server |-> FALSE]
    /\ disk = [s \in Server |->
                 [Term |-> 0, VoteFor |-> Nil, Log |-> <<Dummy>>, LastIncludedIndex |-> 0,
                  LastIncludedTerm |-> 0, Snapshot |-> <<>>]]
    /\ applied = [s \in Server |-> <<>>]
    /\ voteCalls = {}
    /\ appendCalls = {}
    /\ snapCalls = {}

Next ==
    \/ \E s \in Server : StartElection(s)
    \/ \E c \in voteCalls : RequestVote(c) \/ HandleVoteReply(c) \/ VoteCallFails(c)
    \/ \E s \in Server, command \in Command : Start(s, command)
    \/ \E s, p \in Server, g \in Goroutine : ReplicateEntries(s, p, g) \/ ReplicateSnapshot(s, p, g)
    \/ \E c \in appendCalls : AppendEntries(c) \/ HandleAppendReply(c) \/ AppendCallFails(c)
    \/ \E c \in snapCalls : InstallSnapshot(c) \/ HandleSnapReply(c) \/ SnapCallFails(c)
    \/ \E s \in Server : Snapshot(s)
    \/ \E s \in Applying : ApplierWait(s) \/ ApplierTakeSnapshot(s) \/ ApplierTakeEntries(s) \/ Deliver(s)
    \/ \E s \in Crashing : Restart(s)

Spec == Init /\ [][Next]_vars

-----------------------------------------------------------------------------
(* PROPERTIES *)

\* The values the fields of struct Raft, the Persister and the RPC structs may hold.
TypeOK ==
    /\ term \in [Server -> Nat]
    /\ voteFor \in [Server -> Server \cup {Nil}]
    /\ log \in [Server -> LogType]
    /\ lastIncludedIndex \in [Server -> Nat]
    /\ lastIncludedTerm \in [Server -> Nat]
    /\ snapshot \in [Server -> Data]
    /\ state \in [Server -> StateType]
    /\ commitIndex \in [Server -> Nat]
    /\ lastApplied \in [Server -> Nat]
    /\ nextIndex \in [Server -> [Server -> Nat]]
    /\ matchIndex \in [Server -> [Server -> Nat]]
    /\ pendingSnapshot \in [Server -> SnapshotState \cup {Nil}]
    /\ votes \in [Server -> SUBSET Server]
    /\ delivering \in [Server -> Seq(ApplyMsg)]
    /\ waiting \in [Server -> BOOLEAN]
    /\ disk \in [Server -> PersistentState]
    /\ applied \in [Server -> Data]
    /\ voteCalls \subseteq RequestVoteCall
    /\ appendCalls \subseteq AppendEntriesCall
    /\ snapCalls \subseteq InstallSnapshotCall

\* At most one server calls becomeLeaderLocked() in a term, however the replies of
\* concurrent elections interleave and whoever restarts in between.
ElectionSafety ==
    \A s, t \in Server :
        state[s] = "Leader" /\ state[t] = "Leader" /\ term[s] = term[t] => s = t

\* What a peer would read back after a crash is what it has told others: readPersist()
\* at any moment restores the term, vote, log and snapshot it is working with, and the
\* saved snapshot is the one the saved log is cut at.
DurableState ==
    \A s \in Server :
        /\ disk[s] = [Term |-> term[s], VoteFor |-> voteFor[s], Log |-> log[s],
                      LastIncludedIndex |-> lastIncludedIndex[s],
                      LastIncludedTerm |-> lastIncludedTerm[s], Snapshot |-> snapshot[s]]
        /\ Len(snapshot[s]) = lastIncludedIndex[s]
        /\ log[s][1].term = lastIncludedTerm[s]

\* The indexes both peers still hold in their logs, the dummy entries included.
Common(s, t) ==
    Max({lastIncludedIndex[s], lastIncludedIndex[t]}) .. Min({LastLogIndex(s), LastLogIndex(t)})

\* Two logs that have the same term at an index agree on everything up to it (the
\* dummy entry of a compacted log has no command to compare).
LogMatching ==
    \A s, t \in Server : \A i \in Common(s, t) :
        TermAt(s, i) = TermAt(t, i) =>
            \A j \in Common(s, t) :
                /\ j =< i => TermAt(s, j) = TermAt(t, j)
                /\ j =< i /\ j > Min(Common(s, t)) =>
                      log[s][SliceIndex(s, j)] = log[t][SliceIndex(t, j)]

\* A leader's log holds every entry that any peer of its own or an earlier term has
\* committed: UpToDate kept everyone else from being elected.
LeaderCompleteness ==
    \A l, s \in Server :
        state[l] = "Leader" /\ term[s] =< term[l] =>
            /\ commitIndex[s] =< LastLogIndex(l)
            /\ \A i \in Common(l, s) : i =< commitIndex[s] => TermAt(l, i) = TermAt(s, i)

\* The command a peer holds at an index it has committed, in its snapshot or its log.
CommittedCommand(s, i) ==
    IF i =< lastIncludedIndex[s] THEN snapshot[s][i] ELSE log[s][SliceIndex(s, i)].command

\* No two services ever ingest different commands at the same index (server.go's
\* "commit index=%v server=%v %v != server=%v %v"): what two peers have committed at an
\* index is the same command, and what a service holds is what its peer has committed.
StateMachineSafety ==
    \A s \in Server :
        /\ \A t \in Server : \A i \in 1 .. Min({commitIndex[s], commitIndex[t]}) :
              CommittedCommand(s, i) = CommittedCommand(t, i)
        /\ \A i \in 1 .. Len(applied[s]) : applied[s][i] = CommittedCommand(s, i)

\* A snapshot never reaches beyond what has been handed to the service, and that never
\* beyond what is committed.
IndexOrder ==
    \A s \in Server : lastIncludedIndex[s] =< lastApplied[s] /\ lastApplied[s] =< commitIndex[s]

\* Every slice expression of raft.go is within the log: the applier's
\* log[start:end+1], replicateToPeer()'s log[next:] and termAtLocked(prevIndex).
IndexesInRange ==
    /\ IndexOrder
    /\ \A s \in Server :
          /\ commitIndex[s] =< LastLogIndex(s)
          /\ state[s] = "Leader" =>
                \A p \in Server : /\ matchIndex[s][p] < nextIndex[s][p]
                                  /\ nextIndex[s][p] =< LastLogIndex(s) + 1

\* AppendEntries() commits up to min(LeaderCommit, its own last index), which may lie
\* beyond the entries it was sent: that is safe only because no leader ever sends a
\* LeaderCommit that its PrevLogIndex and Entries do not cover.
CommitCoveredByEntries ==
    \A c \in appendCalls : c.LeaderCommit =< c.PrevLogIndex + Len(c.Entries)

\* What a leader counts as replicated is on the follower's disk, as long as the
\* follower has not moved to a later term: matchIndex survives reordered replies, the
\* follower's crashes, and snapshots the follower ignored as old.
MatchIndexSound ==
    \A l, p \in Server :
        state[l] = "Leader" /\ disk[p].Term = term[l] =>
            LET d == disk[p]
                lastIndex == d.LastIncludedIndex + Len(d.Log) - 1
            IN  /\ matchIndex[l][p] =< lastIndex
                /\ \A i \in Common(l, p) : i =< matchIndex[l][p] =>
                      TermAt(l, i) = d.Log[i - d.LastIncludedIndex + 1].term

\* What the applier has taken out reaches the service in index order with no gap and
\* no repetition, and a snapshot never takes the service back (server.go's "server %v
\* apply out of order, expected index %v, got %v").
ApplyInOrder ==
    \A s \in Server :
        /\ delivering[s] # <<>> =>
              LET m == Head(delivering[s])
              IN  IF m.SnapshotValid
                    THEN m.Index > Len(applied[s]) /\ Len(m.Snapshot) = m.Index
                    ELSE m.Index = Len(applied[s]) + 1
        /\ delivering[s] = <<>> /\ pendingSnapshot[s] = Nil => Len(applied[s]) = lastApplied[s]

\* The applier never sleeps on something it could apply: every change of commitIndex
\* or pendingSnapshot is followed by applyCond.Signal().
NoLostWakeup == \A s \in Server : waiting[s] => NothingToApply(s)

\* replicateToPeer() retries a rejected AppendEntries at once, without sleeping.  The
\* next probe is never the rejected one again, unless the follower is known to have
\* caught up with it meanwhile.
RejectionMovesOn ==
    \A c \in appendCalls :
        LET s == c.from
            p == c.to
        IN  /\ c.phase = "answered" /\ ~c.reply.Success
            /\ c.reply.Term =< term[s] /\ state[s] = "Leader" /\ term[s] = c.Term
            /\ nextIndex[s][p] = c.PrevLogIndex + 1
            => \/ NextAfterReject(s, p, c.reply) # c.PrevLogIndex + 1
               \/ matchIndex[s][p] = c.PrevLogIndex

\* An entry a peer has committed is never cut from its log or replaced: it stays until
\* a snapshot covers it.
CommittedStays ==
    [][\A s \in Server : \A i \in lastIncludedIndex[s] + 1 .. commitIndex[s] :
          i > lastIncludedIndex'[s] =>
            /\ i =< lastIncludedIndex'[s] + Len(log'[s]) - 1
            /\ log'[s][i - lastIncludedIndex'[s] + 1] = log[s][SliceIndex(s, i)]]_vars

\* No peer goes back to an earlier term, or changes the vote it gave in a term, not
\* even across a crash.
VotesAreKept ==
    [][\A s \in Server :
          /\ term'[s] >= term[s]
          /\ term'[s] = term[s] /\ voteFor[s] # Nil => voteFor'[s] = voteFor[s]]_vars
=============================================================================

------------------------------- MODULE RaftLog -------------------------------
(***************************************************************************)
(* What raft1 promises the code above it, as far as Start, GetState,       *)
(* applyCh and Snapshot show it: peers that lead in different terms, a     *)
(* leader whose entries are lost, commits in one order for everybody, and  *)
(* snapshots.  How raft1 does it is module Raft; here an AppendEntries or  *)
(* InstallSnapshot takes effect when it is sent, and an election is won by *)
(* a peer that has everything that is committed.                           *)
(***************************************************************************)
EXTENDS Naturals, Sequences, SequencesExt

CONSTANTS
    Server,
    MaxTerm,      \* bound: no election beyond this term
    Winner        \* bound: per term who may win its election

VARIABLES
    term, leader, \* what GetState() returns
    log,          \* per peer its log, the compacted part included
    commitIndex,  \* per peer how much of its log it knows to be committed
    lastApplied,  \* per peer how much of it has been sent on applyCh
    snapshot,     \* per peer the saved snapshot: its index, and the service's data
    pending,      \* per peer: the snapshot is still to be sent on applyCh
    committed     \* history: the longest log any peer has known to be committed

raftVars == <<term, leader, log, commitIndex, lastApplied, snapshot, pending, committed>>

Newest == Max({term[s] : s \in Server})
IndexOf(s) == Len(log[s]) + 1

RaftInit(noData) ==
    /\ term = [s \in Server |-> 0]
    /\ leader = [s \in Server |-> FALSE]
    /\ log = [s \in Server |-> <<>>]
    /\ commitIndex = [s \in Server |-> 0]
    /\ lastApplied = [s \in Server |-> 0]
    /\ snapshot = [s \in Server |-> [index |-> 0, data |-> noData]]
    /\ pending = [s \in Server |-> FALSE]
    /\ committed = <<>>

\* A peer whose log has everything that is committed wins an election.
BecomeLeader(s) ==
    /\ ~leader[s] /\ Newest < MaxTerm
    /\ s \in Winner[Newest + 1]
    /\ IsPrefix(committed, log[s])
    /\ term' = [term EXCEPT ![s] = Newest + 1]
    /\ leader' = [leader EXCEPT ![s] = TRUE]
    /\ UNCHANGED <<log, commitIndex, lastApplied, snapshot, pending, committed>>

\* A leader hears of a later term.
StepDown(s) ==
    /\ leader[s] /\ term[s] < Newest
    /\ term' = [term EXCEPT ![s] = Newest]
    /\ leader' = [leader EXCEPT ![s] = FALSE]
    /\ UNCHANGED <<log, commitIndex, lastApplied, snapshot, pending, committed>>

Follows(s, l) == ~leader[s] /\ leader[l] /\ term[l] >= term[s]

\* A follower takes over the log of a leader, and what the leader knows to be committed.
Adopt(s, l) ==
    /\ Follows(s, l)
    /\ log' = [log EXCEPT ![s] = log[l]]
    /\ term' = [term EXCEPT ![s] = term[l]]
    /\ commitIndex' = [commitIndex EXCEPT ![s] = Max({@, commitIndex[l]})]
    /\ UNCHANGED <<leader, lastApplied, snapshot, pending, committed>>

\* A follower that lags behind is sent the leader's snapshot instead.
AdoptSnapshot(s, l) ==
    LET i == snapshot[l].index
    IN  /\ Follows(s, l)
        /\ i > commitIndex[s]
        /\ log' = [log EXCEPT ![s] = SubSeq(log[l], 1, i)]
        /\ term' = [term EXCEPT ![s] = term[l]]
        /\ commitIndex' = [commitIndex EXCEPT ![s] = i]
        /\ lastApplied' = [lastApplied EXCEPT ![s] = i]
        /\ snapshot' = [snapshot EXCEPT ![s] = snapshot[l]]
        /\ pending' = [pending EXCEPT ![s] = TRUE]
        /\ UNCHANGED <<leader, committed>>

\* Start() on a leader.
Start(s, entry) ==
    /\ leader[s]
    /\ log' = [log EXCEPT ![s] = Append(@, entry)]
    /\ UNCHANGED <<term, leader, commitIndex, lastApplied, snapshot, pending, committed>>

\* The leader of the newest term finds its next entry on a majority.
Commits(s) == leader[s] /\ term[s] = Newest /\ commitIndex[s] < Len(log[s])
NextCommitted(s) == log[s][commitIndex[s] + 1]
IsNews(s) == commitIndex[s] = Len(committed)

Commit(s) ==
    /\ Commits(s)
    /\ commitIndex' = [commitIndex EXCEPT ![s] = @ + 1]
    /\ committed' = IF IsNews(s) THEN Append(committed, NextCommitted(s)) ELSE committed
    /\ UNCHANGED <<term, leader, log, lastApplied, snapshot, pending>>

\* The next message on applyCh: a snapshot first, then committed entries in order.
HasCommand(s) == ~pending[s] /\ lastApplied[s] < commitIndex[s]
Command(s)    == log[s][lastApplied[s] + 1]

SendCommand(s) ==
    /\ lastApplied' = [lastApplied EXCEPT ![s] = @ + 1]
    /\ UNCHANGED <<term, leader, log, commitIndex, snapshot, pending, committed>>

SendSnapshot(s) ==
    /\ pending' = [pending EXCEPT ![s] = FALSE]
    /\ UNCHANGED <<term, leader, log, commitIndex, lastApplied, snapshot, committed>>

\* PersistBytes(): the entries that are not compacted.
PersistSize(s) == Len(log[s]) - snapshot[s].index

\* Snapshot(index, data), which raft ignores if it has a later one.
TakeSnapshot(s, index, data) ==
    /\ snapshot' = IF index > snapshot[s].index
                     THEN [snapshot EXCEPT ![s] = [index |-> index, data |-> data]]
                     ELSE snapshot
    /\ UNCHANGED <<term, leader, log, commitIndex, lastApplied, pending, committed>>

\* The process is killed and started again.
RestartPeer(s) ==
    /\ leader' = [leader EXCEPT ![s] = FALSE]
    /\ commitIndex' = [commitIndex EXCEPT ![s] = snapshot[s].index]
    /\ lastApplied' = [lastApplied EXCEPT ![s] = snapshot[s].index]
    /\ pending' = [pending EXCEPT ![s] = FALSE]
    /\ UNCHANGED <<term, log, snapshot, committed>>

\* What raft does by itself, the commits excepted.
Replicate ==
    \/ \E s \in Server : BecomeLeader(s) \/ StepDown(s)
    \/ \E s, l \in Server : Adopt(s, l) \/ AdoptSnapshot(s, l)
=============================================================================

# A verification of the 6.824 labs in TLA+

The repository is a Go solution of the MIT 6.824 (6.5840) labs: MapReduce, a versioned
key/value server with a lock, Raft, a replicated key/value service on top of Raft, the
assignment of shards to groups, and the tester that runs the servers as processes over a
simulated network.
This directory holds TLA+ models of those parts, TLC configurations that check them on
small instances, and proofs about them that TLAPS checks for every instance.

- [1. Inventory](#1-inventory): the parts of the system, what is hard about each, what makes it correct
- [2. Modules and code](#2-modules-and-code): how state and actions correspond to the source
- [3. Runs](#3-runs): what TLC checks, with which bounds and which fairness
- [4. Proofs](#4-proofs): what is proved, from what, along which argument
- [5. Findings](#5-findings)
- [6. Limits](#6-limits): assumptions, and what is not modelled
- [7. Plan](#7-plan)

To repeat a check: `tlc -workers 2 -config RaftFigure8.cfg MCRaft`, or
`tlapm RaftProofs.tla`.  `PROJECT.json` lists every run with its module and
configuration, maps every definition to the lines it models, and lists the hazards.

## 1. Inventory

### Raft (`src/src/raft1/raft.go`)

State: `term`, `voteFor`, `log`, `lastIncludedIndex/Term` and the snapshot, which
`persist()` saves together; `state`, `commitIndex`, `lastApplied`, `nextIndex`,
`matchIndex`, `pendingSnapshot`, which a restart forgets.  Operations: `Start`, `Snapshot`
and `GetState` for the service; the handlers `RequestVote`, `AppendEntries` and
`InstallSnapshot`; `startElection` with one goroutine per peer; `replicateToPeer`, any
number of which may run for the same peer at once; `ticker`; and `applier`, which waits on
a condition variable and sends on `applyCh` without the lock.

Hard: everything is locked in pieces and the network call lies between the pieces, so every
reply is handled in a state that may have moved on; replies overtake each other; peers crash
between any two critical sections; logs are cut by snapshots while indexes into them are in
flight.  Correct means: one leader per term, votes and logs survive crashes, logs match,
committed entries stay and are the same everywhere, the service gets them once and in order,
no slice index is out of range, and a leader that stays brings everybody up to date.

### MapReduce (`src/src/mr`)

The coordinator keeps the state of every task, two counters and the phase under one lock;
`RequestTask`, `ReportTask`, `checkTimeout` and `Done` use it.  Workers loop: ask, write or
read files, report.  Coordinator and workers interact by RPC and, which the coordinator does
not see, through files.  Hard: a task taken back after ten seconds may still be running, so
that two workers write, read and remove the same files.  Correct means: `Done` implies a
complete output, results are counted once, and the job ends.

### Key/value server, Clerk and Lock (`src/src/kvsrv1`)

The server keeps a value and a version per key; `Put` succeeds only with the current
version.  The Clerk resends until it is answered and turns an `ErrVersion` that follows a
resend into `ErrMaybe`.  `Lock` keeps its holder in a key and uses nothing but `Get` and
`Put`.  Hard: a lost reply leaves the client not knowing what happened.  Correct means: the
service is linearizable with `ErrMaybe` as the only doubt, the lock excludes, and it does not
get stuck with nobody holding it.

### Replicated key/value service (`src/src/kvraft1`)

`RSM.Submit` gives a command to Raft, registers a waiter for the index it got, and waits on
a channel, looking every 50 ms whether the term has ended.  `RSM.reader` applies what comes
on `applyCh`, notifies the waiter at that index and takes snapshots.  `KVServer.DoOp` is the
state machine.  The Clerk tries server after server.  Hard: an index is used again by another
operation after a change of leader; the ticker races the reader; a snapshot jumps over indexes
somebody waits at; a Clerk gives the same Put to several leaders.  Correct means: all replicas
together are the same linearizable service, and no Submit waits for ever.

### Shard configuration (`src/src/shardkv1/shardcfg`)

A `ShardConfig` is a number, a group for every shard, and the groups.  `JoinBalance` and
`LeaveBalance` change the groups one by one and then call `Rebalance`, which gives shards
without a group to the group that has the least, and moves shards from the group that has the
most to the one that has the least.  It is sequential.  Hard: `Join` and `Leave` that meet a
group they should not return in the middle, with the groups before it added or deleted, so
that the next call starts from a configuration no successful call leaves; the loop must not
move shards to and fro; the last group may leave.  Correct means: a call that succeeds leaves
what `CheckConfig` accepts, moves no shard without need, and every call ends.

### Network, tester and server processes (`src/src/labrpc`, `src/src/tester1`)

`labrpc.Network` keeps which ends are enabled and which servers there are; every call has a
goroutine in `processReq`, which hands it to the server and looks every 100 ms whether the
server is still there.  The tester keeps per server its ends, its process and the Persister
its last process left; `StartServer`, `ShutdownServer`, `ConnectOne` and `DisconnectAll` change
them.  A server is a process of its own (`daemonsrv.go`).  Tester and process call each other
over UNIX sockets; `demux` lets many calls share one, by tags.  A server's call to another
goes to the tester (`Forward`), from there over the network, and to the other process.  Hard:
a socket breaks at any moment of any call; a process is asked for its Persister and goes on
working, and answering, until it is killed; a server is replaced by its next incarnation under
the same name while calls to the old one are under way.  Correct means: every call over a
connection gets its own answer or a failure and nobody waits for ever, no caller is told of an
update that is lost with the process, and no request reaches a process that is not ready.

### The rest

The tester's `Persister` is part of `Raft` (`disk`) and of `Tester` (`persister`, `saved`).
`shardkv1`'s servers, Clerk and controller have no bodies in this repository.  `labgob`,
`models1`, `kvtest1`, the annotations of `tester1`, the programs in `main` and the
applications in `mrapps` are encoding, test harness and plain functions.

The hazards of every part, each at its line and with the property that would catch it, are
in `PROJECT.json`.

## 2. Modules and code

| Module | Models | Used by |
|---|---|---|
| `Raft` | a Raft peer, its disk, its applier and the network | `MCRaft`, `MCRaftLeader`, the proofs |
| `MCRaft`, `MCRaftLeader` | TLC instances; the second starts just after an election | runs |
| `RaftProofs` | theorems about `Raft`: types; one peer, its disk, its votes, its applier | `RaftSafetyProofs` |
| `RaftHistoryProofs` | the argument behind log safety, free of `raft.go`'s state | `RaftSafetyProofs` |
| `RaftSafetyProofs` | theorems about the replicated log of `Raft` | |
| `MapReduce`, `MCMapReduce` | coordinator, workers and files | runs |
| `MapReduceProofs` | theorems about `MapReduce` | |
| `KVService` | abstract: an atomic versioned store with `ErrMaybe` | refined by `KV` and `KVRaft` |
| `KV`, `MCKV` | key/value server and Clerk | `Lock` |
| `MutexService` | abstract: a lock | refined by `Lock` |
| `Lock`, `MCLock` | Acquire and Release over a Clerk | runs |
| `KVProofs` | theorems about `KV` and `Lock`, with both refinements | |
| `RaftLog` | abstract: what Raft promises the code above it | `KVRaft` |
| `KVRaft`, `MCKVRaft` | Clerks, key/value servers and RSM over `RaftLog` | runs |
| `KVRaftProofs` | theorems about `KVRaft`, with its refinement of `KVService` | |
| `ShardCfg`, `MCShardCfg` | a shard configuration under joins and leaves | runs |
| `ShardCfgProofs` | theorems about `ShardCfg` | |
| `Demux` | connections: `DemuxClnt`, `callMap`, `DemuxSrv` | `Labrpc` |
| `Labrpc` | the network: ends, servers, `processReq`, over the connections of `Demux` | `Tester` |
| `Tester`, `MCTester` | the tester and the servers' processes, over `Labrpc` | runs |
| `TesterProofs` | theorems about `Demux`, `Labrpc` and `Tester` together | |

Definitions named "mutant" in a comment are wrong variants of the definition that follows
them; nothing refers to them.  They are there to show that a property notices the bug.

**Raft.**  One action per critical section: what runs between `rf.mu.Lock()` and `Unlock()`
is atomic in the code and in the model.  `startElection` and its first messages are one
action, because the lock is held while the goroutines are made.  An RPC is a record that
holds the arguments the caller read, so that a reply is handled with the arguments of its own
call and the state of the moment.  Its `phase` tells whether the handler has run
(`"answered"`), has not (`"sent"`), or has not and the caller is dead (`"orphan"`).  A call
may fail at any moment, before or after its handler.  A field keeps its Go name; the log is a
sequence whose first element is the dummy entry at `lastIncludedIndex`, as in the code.
`Persist` writes `disk`; a handler that returns without `persist()` leaves `disk` unchanged.
`Restart` reads it back and forgets the rest.  Timers are abstracted: an election may start
at any time on a peer that is not leader, a heartbeat at any time on a leader.  This allows
more than the timers do, which is sound for safety.  Where the code indexes its log with a
computed index, `InLog` is a guard: Go would panic there, and `IndexesInRange` says that the
guard never is what stops the step.  The service behind `applyCh` is `raft1/server.go`'s: the
commands it has ingested are its state, and a snapshot is that sequence.

**MapReduce.**  A worker is a record of its local variables; writing, reading and removing one
file is one step, with `atomicWrite`'s rename as the moment a file appears.  A bucket's
contents are abstracted to its name, an output to the set of map tasks it was made from.
`CheckTimeout` may take back any set of running tasks: tasks whose worker is dead, and up to
`MaxEarly` tasks whose worker is alive but slow.

**KV and Lock.**  The Clerk's call is sent, handled or lost, answered or lost.  `KV` offers
`SendGet`, `SendPut` and the network's steps; `Lock` adds its own program counter.

**KVRaft.**  Everything `Submit` does under `rsm.mu` is one action, `Start()` included.  A
goroutine in `Submit` is a record in `submits` with its buffered channel.  The reader has a
position of its own: after `DoOp`, after it has taken the waiter out under the lock, after it
has sent.  A handler whose Clerk has given up goes on waiting.  One that `labrpc` gave up before
it came to `Start()` (`CallAbandoned`: `processReq` looks every 100 ms whether the end was disabled or
the server deleted, and leaves the handler running) is a record in `late`; `LateSubmit` is the rest
of it, at any later time, when its Clerk may have asked others, returned and begun something
else.  `StartAndWait` is what both kinds of handlers do on a leader.  `Put`'s guard is about the
clients: they pass 0 or a version they know of from a `Get` or a `Put` that succeeded, so one the key
has reached; all of the repository's that use `kvraft1` do (see section 5).  `GetState` and the lock that
follows it are one step: a term that is over stays over.  The history variables
`service` and `outcome` record what the operations committed so far have come to; they are
the refinement mapping to `KVService`, together with what the Clerk returns.

**ShardCfg.**  One configuration is changed for ever.  A turn of a loop is a step: a group
that joins or leaves, a shard that is given a group, a shard that is moved.  `Join`'s argument
is a Go map, whose order is random: `JoinBalance` takes the groups in any order.  `old` is what
`Copy()` would have kept, as the tests do before a call.  `log.Fatalf` ends everything.
`Most` and `Least` are the two results of `analyze()`; its sentinel for more than any group can
have is 257, which is why `NShards` may be 256 at most.

**Demux, Labrpc and Tester.**  A connection has a client and a server side; `SendReceive` is
cut where the code takes or leaves a lock or waits: after `put`, after `WriteCall`, at its
channel, which has no buffer, so that `reply()` and the caller meet in one step (`Deliver`).
The reader is cut likewise: reading, having taken a call out of the callmap, having closed it,
having collected what waits.  `Close()` is two steps.  Each request has a goroutine at the
server side, so that replies come in any order.  Every incarnation of a server has a connection
from the tester (`In`) and one to it (`Out`), and ends of its own.  `processReq` is `Dispatch`
(with `Refuse` for what it does not dispatch), then `GiveUp` or `Pass`; a call it has given up
goes on over the connection.  `ShutdownServer` is cut at each of its effects: ends disabled,
server deleted, the process's own connection closed, its callmap closed, the Persister copied,
the process killed.  In between the process serves requests.  What a handler does is
external: it saves its call's effect and answers, as `Raft` does with `persist()`.

## 3. Runs

| Run | Configuration | Shows |
|---|---|---|
| `election` | 3 peers, 2 terms, 4 RequestVote calls in flight, everybody crashes | `ElectionSafety`, `VotesAreKept` |
| `figure8` | 3 peers, 4 terms, 1 index | `LeaderCompleteness`, `CommittedStays`, `RejectionMovesOn` |
| `replication` | 3 peers, 2 terms, 2 indexes, 2 commands | `LogMatching`, `StateMachineSafety`, `CommitCoveredByEntries` |
| `snapshot` | a leader that compacts, 2 goroutines for the same peer, a follower that lags or has a conflicting log, and crashes | `MatchIndexSound`, `IndexesInRange`, `TypeOK`, `DurableState`, `ApplyInOrder`, `NoLostWakeup`, `StateMachineSafety` |
| `catchup` | a leader in term 3, a follower with a conflicting log | liveness: `EverythingIsApplied` |
| `mr_safety` | 3 workers, 2 map and 2 reduce tasks, a crash anywhere, a file error, an early timeout | `OutputComplete`, `DoneCounted`, `ResultsKept`, `FinishedIsFinal`, `TypeOK`, liveness: `JobEnds` |
| `mr_rerun` | 2 workers, 1 early timeout | a violation, see section 5 |
| `kv_retry` | 2 Clerks, 1 key, versions up to 2 | `ServiceImplemented`: `KV` refines `KVService` |
| `lock_retry` | 2 clients, versions up to 5 | `MutualExclusion`, `MutexImplemented`, liveness: `SomebodyAcquires` |
| `kvraft` | 2 replicas, 3 terms, 2 Clerks, 3 commands, a late handler, snapshots, crashes | `NoSubmitIsStuck`, `ReplicatedServiceImplemented` |
| `tester` | 2 servers, one of them restarted, disconnected, called by a client and by or from the other | `AnswersMatch`, `NobodyStranded`, `AckedIsPersisted`, `ServicesFirst`, `TypeOK` |
| `shardcfg` | 7 shards, 4 groups of which 3 fit together, 4 changes of 1 or 2 groups, any number of rejected ones | `SuccessChecksOut`, `MembersHaveShards`, `OnlyNeededMoves`, `TypeOK`, liveness: `CallsEnd` |

What the properties say is written above each definition.  Those that deserve a remark:

- `CommitCoveredByEntries` states why it is right that `AppendEntries` commits up to its own
  last index and not up to the last new entry, as the Raft paper has it.  The code sends
  everything it has from `nextIndex` on; the property would fail the day it sends in batches.
- `MatchIndexSound` compares the leader's cursor with the follower's *disk*, so that a reply
  that left before a crash is covered.
- `RejectionMovesOn` is the progress of the `XTerm` back-up: `replicateToPeer` retries a
  rejection without sleeping, so a probe that repeats itself would be a busy loop.  With the
  one index of `figure8` the branch where the leader has an entry of term `XTerm` is not taken;
  that it moves on too is the theorem `RefusalsMoveOn`.
- `NoSubmitIsStuck` is the invariant behind "every Submit returns": whoever waits has its
  result, or its entry is still to be applied, or the ticker will find the term over *and*
  its waiter still there.  The last conjunct is what the code needs, since otherwise the
  ticker's branch blocks on the channel.
- `JobEnds` is as much as is true: the job ends, or there is a reduce task whose inputs were
  removed before it counted as finished, for ever.  The second case is the finding below and a
  worker's crash between the removal and the report.
- `AckedIsPersisted` rests on the order in which `ShutdownServer` works: the server is deleted
  from the network before the Persister is copied, and `processReq` looks once more before it
  passes an answer on.  `CheckpointPersister` says it stops the server from sending replies
  (`src/src/tester1/daemonsrv.go:160`), but `RPCSrv.Close()` closes the listener only: a
  connection that was accepted still carries answers after the copy.  The model lets it, and
  the property holds without it.
- `NobodyStranded` is the invariant behind "every `SendReceive` returns": the reader closes the
  callmap before it collects the calls that wait, and a call is put before it is written.
- `OnlyNeededMoves` is what the sharded service would pay for: from a balanced configuration no
  shard moves between two groups that stay.
- `ServiceImplemented` and `ReplicatedServiceImplemented` are linearizability: an operation
  takes effect at one moment between call and return, a Put at most once, and any answer but
  `ErrMaybe` is definite.

**Bounds.**  `MaxTerm` bounds elections: two terms are enough for two concurrent
candidates and for a new leader to meet the log of an old one; Figure 8 of the Raft paper
needs four.  `MaxIndex` bounds the log: one index is enough for entries to conflict, two for
prefixes and for a snapshot with an entry after it.  `MaxVoteCalls` bounds RequestVote calls
in flight: the four of `election` are two elections of three peers at once, so that the replies of
one arrive in the other, or after a restart; the two of `figure8` let elections follow each other,
which is all its question needs.  `Goroutine` bounds the `replicateToPeer` calls that are in flight at
the same time, all peers together; `snapshot` has two, and `CallsToOnePeer` spends them on the same
peer: that is what it takes for a shorter AppendEntries to arrive after a longer one, for a reply to
be handled when another has moved the cursor, and for the reply to an old snapshot to come last.
`Crashing` and `Applying` name the peers that may crash and whose applier runs; each run
lets those run that its question needs.  The questions are split over five runs because their
product is out of TLC's reach: no run has four terms and snapshots at once.  The proofs close
this gap: every safety property of the five runs is proved without any of these bounds.
`MCRaftLeader` begins just after an election (both initial states are reachable ones, see
its header; `snapshot` starts from either, `catchup` from the one with conflicting logs), so that the bounds are spent on snapshots, crashes and the applier.
In `MapReduce`, `MaxCrashes`, `MaxFailures` and `MaxEarly` bound how often a worker dies, a
file operation fails, and a live worker is overtaken; `CrashPoints` says where.
In `KV` and `Lock`, `MaxVersion` bounds successful Puts: five versions are two full rounds of
Acquire and Release.  In `KVRaft`, `MaxOps` bounds commands given to `Start()`, and Clerks
stop calling after the last of them; `FewCommands` allows the third only while no server but the
first leader has taken part, which is enough for a Put, its repetition and the late handler's own, and two
with changes of leader; `MaxLate` bounds handlers that are late at the same time; `Winner` says who may win which term (the two servers
take turns, which takes three terms to make a leader reuse an index it had given out before);
`Putter` and `Getter` split the operations between the two Clerks; `MaxRaftState` is
`maxraftstate` in entries.
In `Tester` each call is made once, a server is started `MaxStarts` times, and `Restarting` and
`Unplugged` name the servers the test shuts down and disconnects; `Routes` are the ways the
two calls go.  Two calls on one connection are enough for answers to be confused, two
incarnations for one to be taken for the other.  In `ShardCfg`, `MaxNum` bounds successful calls
and `MaxArgs` the groups of a call; seven shards do not divide evenly over two or three groups.

**Symmetry and view.**  Symmetry permutes what the configuration treats alike; it is used in
no run with a liveness property.  `MCRaft`'s `View` drops the leader's cursors while the peer
is not leader and the counted votes while it is not candidate; `MCKVRaft`'s drops what a
Clerk has returned and `firstRpc` of a Get, and after the last command `late`, `leader` and the
`firstRpc` of a Clerk that would only call again.  Nobody reads these before they are set again.

**Deadlock** checking is off where the bounds, or the program's own end, stop the system:
after the last term, index or command; when the job is done; when the versions are used up;
when the test is over; after `log.Fatalf`.
It is on in `kv_retry`.

**Fairness.**  `catchup`: strong fairness for a leader's replication to each peer, for the
handling of its calls and of their replies (`ticker` repeats heartbeats for ever; the network
loses calls, not all of them), weak fairness for the applier and the service.  No election
interferes: it is a claim about a leader that stays.  `mr_safety` and `mr_rerun`: weak fairness
for each worker (a process that does not crash keeps running), for `checkTimeout` on tasks nobody
works on (it runs every five seconds), and for the coordinator's end.  `shardcfg`: the goroutine
in the call goes on.  Nothing is claimed of the tester's calls ever returning: a handler may
take for ever, and the network may refuse a call again and again.
`lock_retry`: strong fairness for the server's handling of a client's call and for the
client's own steps, a holder's Release included.

## 4. Proofs

Each theorem holds for every value of the constants that the module's `ASSUME` allows.  The
bounds of the models are guards with constants that may be any natural number, so a theorem
covers executions of any length.

| Theorem | States |
|---|---|
| `RaftProofs!TypeCorrectness` | `Spec => []TypeOK` |
| `RaftProofs!IndexesOrdered` | `Spec => []IndexOrder`: `lastIncludedIndex <= lastApplied <= commitIndex` |
| `RaftProofs!CrashLosesNothing` | `Spec => []DurableState` |
| `RaftProofs!VotesKept` | `Spec => VotesAreKept`, an action property |
| `RaftProofs!OneLeaderPerTerm` | `Spec => []ElectionSafety` |
| `RaftProofs!ApplierIsWoken` | `Spec => []NoLostWakeup` |
| `RaftProofs!ServiceSeesOrder` | `Spec => []ApplyInOrder` |
| `RaftSafetyProofs!LogsMatchEverywhere` | `Spec => []LogMatching` |
| `RaftSafetyProofs!LeadersHaveCommitted` | `Spec => []LeaderCompleteness` |
| `RaftSafetyProofs!ServicesAgree` | `Spec => []StateMachineSafety` |
| `RaftSafetyProofs!CommittedIsKept` | `Spec => CommittedStays`, an action property |
| `RaftSafetyProofs!MatchIndexOnDisk` | `Spec => []MatchIndexSound` |
| `RaftSafetyProofs!CommitIsCovered` | `Spec => []CommitCoveredByEntries` |
| `RaftSafetyProofs!NoIndexOutOfRange` | `Spec => []IndexesInRange` |
| `RaftSafetyProofs!RefusalsMoveOn` | `Spec => []RejectionMovesOn` |
| `MapReduceProofs!JobTypes` | `Spec => []TypeOK` |
| `MapReduceProofs!ReportsCountOnce` | `Spec => []DoneCounted` |
| `MapReduceProofs!NoResultIsLost` | `Spec => []ResultsKept` |
| `MapReduceProofs!DoneMeansComplete` | `Spec => []OutputComplete` |
| `MapReduceProofs!FinishedStays` | `Spec => FinishedIsFinal`, an action property |
| `KVProofs!ClerkIsService` | `KVSpec => ServiceImplemented`, a refinement |
| `KVProofs!LockExcludes` | `Spec => []MutualExclusion` |
| `KVProofs!LockIsMutex` | `Spec => MutexImplemented`, a refinement |
| `KVRaftProofs!SubmitsEnd` | `Spec => []NoSubmitIsStuck` |
| `KVRaftProofs!ReplicasAreService` | `Spec => ReplicatedServiceImplemented`, a refinement |
| `ShardCfgProofs!ConfigTypes` | `Spec => []TypeOK` |
| `ShardCfgProofs!SuccessIsChecked` | `Spec => []SuccessChecksOut` |
| `ShardCfgProofs!MembersServe` | `Spec => []MembersHaveShards` |
| `ShardCfgProofs!FewShardsMove` | `Spec => []OnlyNeededMoves` |
| `TesterProofs!TesterTypeCorrect` | `Spec => []TypeOK` |
| `TesterProofs!AnswersGoToTheirCalls` | `Spec => []AnswersMatch` |
| `TesterProofs!NoCallIsStranded` | `Spec => []NobodyStranded` |
| `TesterProofs!AckedSurvives` | `Spec => []AckedIsPersisted` |
| `TesterProofs!ServicesComeFirst` | `Spec => []ServicesFirst` |

**Assumptions.**  `RaftAssumption`: the peers are a finite non-empty set, the bounds are natural
numbers, `Nil` is no peer; `NilIsNoSnapshot`: `pendingSnapshot = nil` is told from a pending
snapshot.  `MapReduceAssumption`: at least one map and one reduce task, the bounds are natural
numbers.  `KVAssumption` and `LockAssumption`: the empty string is no client's identifier, the
lock's key is a key, and identifiers are values.  `KVRaftAssumption`: the servers are a finite
non-empty set numbered from 0, as the Clerk's array has them, the empty string is no value that is
put, and the bounds are natural numbers; and in the specification itself, as `Put`'s guard, that
clients pass 0 or a version the key has reached.  `ShardCfgAssumption`: 1 to 256 shards, since
257 is `analyze()`'s infinity, and group identifiers above 0, which stands for no group.
`LabrpcAssumption` and `TesterAssumption`: at least one start, the client is no server, and each
incarnation has its two connections.  Each is evaluated by the runs of its module.

### Raft: one peer (`RaftProofs`)

- *Types.*  `TypeOK` is inductive.  It is not shallow here: that the dummy entry never leaves
  the log and that no cursor becomes negative need the arithmetic of `Merge`, `Compact` and
  the back-up.  One lemma per action; the lemmas about `Max`, `Min` and log slices
  (`MaxIsGreatest`, `LogFacts`, ...) are shared.
- *Index order.*  Inductive together with `TypeOK`: `Snapshot` checks against `lastApplied`,
  `InstallSnapshot` raises all three, a restart sets the other two to `lastIncludedIndex`.
- *Durability.*  `DurableState` is not inductive: `InstallSnapshot` saves data from a message.
  `DurableInv` adds that a snapshot in flight is as long as the index it carries
  (`SnapshotsInFlight`), `TypeOK` and `IndexOrder`.  Each action either touches nothing
  durable (`NoneSaves`) or ends in `persist()` (`OneSaves`).
- *Votes.*  From `DurableInv`: a restart reads back the vote it had.
- *Election safety.*  `ElectionInv` is the strengthening.  A vote is *granted* when it is in a
  candidate's count or in a reply that is still on its way.  `VotesBacked`: who has granted a
  vote for a term is past that term or still holds that vote.  `OneVote`: a peer's granted
  votes in one term go to one candidate.  `LeaderHasMajority`: a leader's count is a majority.
  `MajoritiesMeet` (from the cardinality theorems) gives the common voter of two leaders.
  Most actions are `Quiet` (they give no vote and go back in no term), which one lemma treats;
  `StartElection`, `RequestVote` and `HandleVoteReply` are proved one by one.
- *The applier.*  `NoLostWakeup` is inductive with the types: every action that gives the
  applier something to do also signals.  `ApplyInOrder` needs `ApplierInv`: what the applier has
  taken out of the log and not sent yet, and the pending snapshot behind it, lead without a gap
  from what the service holds to `lastApplied`.

### Raft: the replicated log (`RaftHistoryProofs`, `RaftSafetyProofs`)

The state of the peers does not say who acknowledged what to whom before a crash or a change
of term, and that is what the argument is about.  So the invariant speaks of a *history* `h`,
a record of every leader's log by term, how much of it each peer has acknowledged, and which
leader's log each peer's own log is a prefix of.  No variable is added to the model:
`SafetyInv` says that *there is* a history that satisfies `HistoryInv` and of which the state
says what it should (`StateIs`), and the proof of an action finds the history that follows.

`RaftHistoryProofs` knows nothing of `raft.go`'s state.  It proves `HistoryInv` preserved by the
four kinds of steps a history takes: terms grow, a leader is elected, a leader appends, a peer
adopts a leader's log up to some index.  Its parts:

- `LogsConsistent`, `PeersConsistent`: an entry of term *u* has before it what the leader of *u*
  had.  This is log matching.
- `AcksHeld`, `AcksKept`: a peer holds what it has acknowledged as long as it stays in the term,
  and afterwards too unless that entry is `Abandoned`: a majority has gone to later terms
  without having acknowledged it, so that it can never be chosen.
- `LeadersComplete`: a later leader's log contains each entry of an earlier leader that is not
  abandoned.  `UpToDateSuffices` is where the voters' comparison of last terms and indexes is
  used; a vote is only as good as what the voter knew when it gave it, hence `Informed` in
  `StateIs` for votes that are counted or on their way.
- `Chosen` (a leader's own entry that a majority acknowledged) excludes `Abandoned`, because two
  majorities meet.

`StateIs` ties it to the code: each peer's log behind its snapshot is a prefix of its history's
(`IsLog`); `commitIndex` covers only what is `Decided`, part of something chosen; the service, the
applier's queue and the pending snapshot copy the log (`Serves`); a leader's `matchIndex` is at
most what was acknowledged (`Leads`); an AppendEntries or InstallSnapshot call in flight carries a
piece of its leader's log and a covered commit index, its answer is an acknowledgement
(`AppendCallIs`, `SnapCallIs`), and a refusal says one of the three things the `XTerm` back-up can
use (`RejectIs`).  There is one lemma `SafeStep` per action.  `Keeps` records in each step that no
peer's committed prefix changes; `CommittedStays` follows from it.  The longest parts are
`AppendEntries` (that `Merge` leaves a prefix of the leader's log or the old log, although replies
and calls arrive late and twice) and `InstallSnapshot` (that a log cut at a snapshot is still a
prefix of the same history).

`RaftInv`, the conjunction of `DurableInv`, `ElectionInv`, `ApplierInv` and `SafetyInv`, is
inductive, and the eight theorems follow from it.

### MapReduce (`MapReduceProofs`)

`JobInv`: with `DoneCounted` and `ResultsKept` themselves, `WorkDone` says for each worker what it
has achieved by where it is in its loop: every bucket before the one it writes is there or was
already used, its output is in place before it removes an input, everything before it reports
success.  `ReducesDone` and `AllReduced` then give `OutputComplete`.  A second worker on the same
task, a crash and a reduce that removes its inputs are covered because `Kept` allows the bucket
to be gone once the output is complete.

### Key/value Clerk and Lock (`KVProofs`)

`KVInv`: a Put that was performed has moved its key's version past the one it names
(`PutAnswered`), so that sending it again is answered with `ErrVersion` and reported as
`ErrMaybe`.  With it every step of `KVSpec` is a step of `KVService` or a stutter under the
mapping the run uses.  `LockInv` adds, for each place a client can be in, whether the server's
value is its identifier (`Owns`) and in which sense what it has seen of the lock still holds
(`Seen`).  Exclusion and the refinement of `MutexService` follow.

### Replicated key/value service (`KVRaftProofs`)

Two invariants, each inductive given the one before.

`RsmInv` is about who waits for what.  `LogInv` is what `RaftLog` keeps: a peer's log agrees with the
committed one as far as it knows; a leader has what anybody in its term or before knows to be
committed, and the leader of the newest term has everything; operations stand in every log in the
order `Start()` numbered them.  `SubmitInv` says of each goroutine in `Submit()` why it is
`Attended`: its result is in its channel, or the reader holds it, or its waiter is registered and
its term is over or its entry is still in place and ahead of what the reader was sent.  An entry
loses its place, or is overtaken by a snapshot, only on a server that follows another leader, and
then the term it was started in is over.
`ReaderInv` ties the reader's position to `appliedIndex` and `lastApplied`.  `NoSubmitIsStuck`
follows.

`ServiceInv` says that *there is* a sequence `st` of stores, one per committed operation, with
`HistoryIs(st)`: it starts empty, each store is the previous one after `DoOp()`, the last one is
`service`, and versions never go back (`StatesAre`); a replica's data and snapshot are the stores
at the indexes they stand for, and the reader holds what the operation at its index came to
(`ReplicaIs`); an answer in a channel is what the operation of that number came to (`AnswerIs`).
`ClerksAre` is the part that makes retries and late handlers safe.  A Put names a version its key
has reached (`ReqKnown`); it is `Harmless` when the key is past that version, and stays so, because
versions do not go back.  Every entry of every log, and every handler that is late, carries a
request that is harmless or is what its Clerk is asking for just now (`Current`), and while the Clerk
is in its first call there is no other than the one it waits for.  An operation that is committed had
a known version when it was (`CommittedInTime`), so whether it was performed or refused its request
is harmless afterwards (`CommittedHarmless`).  A Clerk that returns has seen one of its operations
committed; so nothing it leaves behind, in a log or in a handler, can change the data any more.
Finally `outcome` is `OK` once one of the call's operations has changed the data, and otherwise what
the one it waits for has come to, if it is committed.

With both, a step is mapped as follows.  The first commit of an operation is `Perform` if it changes
the data (then it is its Clerk's first to do so, `FirstChange`) or is the one its Clerk waits for and
nothing has come of the call yet; otherwise it is nothing.  Going on to the next server is `TryAgain`
or nothing, being left by `labrpc` with a handler that is late likewise, and the late handler's own
steps are nothing.  A Clerk that returns
either got the answer of the operation that was performed, or asked more than once and got
`ErrVersion`, because the version had moved (`PerformedBefore`), which it reports as `ErrMaybe`.
Everything the peers, readers and snapshots do is invisible.

### Shard configuration (`ShardCfgProofs`)

`ShardInv`: `Looping` and `Rebalancing` say how far the call is; `Even` (no group has two shards
more than a group that was there before) and `FewMoves` hold in `Rebalance`'s loops if the call
began with a balanced configuration; they are what makes `OnlyNeededMoves` inductive, because from
`Even` the group with the least is a new one whenever a shard is moved.  That the loop's end
is balanced comes from `Most` and `Least` being extrema.  `MembersHaveShards` is a counting
argument: if a group had no shard the others would have at most one each, which is less than
there are.

### Connections, network and tester (`TesterProofs`)

`TesterInv` has a part per connection, `ConnInv`: who waits is in the callmap or in the reader's
hands (`Owed`), each message under way is there once and has a tag its call waits under
(`Once`, `Expected`), and the reader drains only a closed callmap (`ReaderState`).  A part per
server, `ProcState`, `ConnState` and `Effective`: a positive answer of the latest incarnation is to
a call whose effect is in its Persister.  And `AckedIsPersisted` itself.  The actions of `Demux`
are treated once for any connection, then those of `Labrpc` and `Tester` that contain them.

### What is not proved

- Liveness under fairness is outside this prover: `EverythingIsApplied`, `JobEnds`,
  `SomebodyAcquires` and `CallsEnd` are model-checked only.  `NoLostWakeup`, `RejectionMovesOn` and
  `NobodyStranded` are the proved invariants that the first and the calls of the tester rest on.
- That every Submit returns, and every call of a Clerk, is not proved either: `SubmitsEnd` is the
  safety half, somebody always has the next step to do for it.
- That `Raft` implements `RaftLog`, on which `KVRaft` stands, is neither checked nor proved, see
  [Limits](#6-limits).
- The histories are quantified over, so TLC cannot evaluate `SafetyInv` and `ServiceInv` as they
  stand; what TLC checks are the properties that follow from them.  The other inductive invariants
  can be evaluated.

`RaftSafetyProofs` takes about eight minutes from nothing; the others five at most.

## 5. Findings

`mr_rerun`: the repository's README says that tasks are idempotent and can be run again
without side effects (`src/README.md:71`).  A reduce task is not.  `executeReduceTask` removes
its intermediate files (`src/src/mr/worker.go:154`) before it is reported.  If the task was
taken back meanwhile, the report is ignored (`src/src/mr/coordinator.go:179`), the next
worker does not find the files, reports a failure, and the task is handed out for ever: the
job does not end, although its output is complete (`OutputComplete` holds).  It takes a reduce
task that runs for more than ten seconds; `mrapps/crash.go` delays by up to ten.  The
counterexample has one map task, one reduce task and two workers.

Noticed, without a run: `KVServer.Put` answers `ErrNoKey` to a version above 0 for a key that is
not there (`src/src/kvsrv1/server.go`), and `KVService` allows it; `KvModel.Step` of the tests
(`src/src/models1/kv.go:58`) accepts only `ErrVersion` or `ErrMaybe`, so a test that put such a Put
into the checker's history would be told that it is not linearizable.  The tests that do one,
`kvsrv_test.go:39` and `:88`, expect `ErrNoKey`, as the code and the model have it; they call the
Clerk directly, and what they do never reaches the checker.

The same Puts are why `KVRaft`'s clients pass no version a key has not reached.  With one that did,
TLC finds a Put that is answered `ErrNoKey` and takes effect later: `labrpc` gives up its first handler
before `Start()`, the second call is answered `ErrNoKey`, another client creates the key, and then
the first handler calls `Start()`.  No client of `kvraft1` does it: the tests put with 0, with what `Get`
returned or with the version their own Puts have led to (`kvraft_test.go:136`, `kvtest1/kvtest.go:95`
and `:310`), and `lock.go` with 0 or what `Get` returned.

## 6. Limits

Assumptions about the environment:

- `labgob` returns what it was given; `Encode` in `persist()` never fails; `Persister.Save`
  is atomic (it is, under its lock).
- `os.Remove` succeeds on a file that is there.
- In `KV` a call to the server runs its handler before `Call()` returns, or never.  That holds as
  long as nobody is disconnected, as in the tests of `kvsrv1`.  `KVRaft` makes no such assumption.
- Clients of `kvraft1` pass to `Put` 0 or a version the key has reached.
- In `RaftLog` a message takes effect when it is sent.  That `Raft` implements `RaftLog` is
  not shown; the two are linked by what is proved of `Raft` (one leader per term, state
  machine safety, application in order).

- A frame is written to a socket or is not; writing never blocks.
- The tester's own calls to a process (`Init`, `InitWait`, `CheckpointPersister`) succeed.

Not modelled, see also the components with status `not_modelled` in `PROJECT.json`:

- the sharded service: its handlers, Clerk and controller have no bodies;
- `labgob`, the JSON form of a configuration and `Key2Shard`: encodings and a hash, where a
  model could only say that decoding undoes encoding;
- the linearizability checker, the drivers of the tests and their annotations: `KVService` says
  what the checker looks for, and TLC looks at all histories of its bounds;
- the programs, the MapReduce applications;
- of the tester, `Partition`, clients that are connected to some of the servers only, and
  `ExitGroup`; of `labrpc`, services in the tester's own process, counters and the lengths of
  delays.

One hazard no property covers: the growth of the number of `replicateToPeer` goroutines for a
peer that is cut off, since their number is a bound.

## 7. Plan

Done, in this order: `Raft` with its runs; `MapReduce`; `KVService`, `KV`, `MutexService`,
`Lock`; `RaftLog`, `KVRaft`; types, durability and election safety of `Raft` proved; `Demux`,
`Labrpc`, `Tester`; `ShardCfg`; the end of a MapReduce job with every fault; the proofs about
`KV` and `Lock`, `MapReduce`, `Tester`, the rest of `Raft`, `ShardCfg`, and `KVRaft` with its
refinement of `KVService`.  Every invariant, action property and refinement that a passing run
checks is now proved; liveness is model-checked.

To prove: the model's liveness properties, should the prover learn to reason about fairness.

To model, when the state spaces allow it:

1. `KVRaft` with two keys, and Clerks that both put and get.
2. `Raft` refines `RaftLog`, on a small instance and then as a theorem from `RaftInv`, which joins
   the two halves.

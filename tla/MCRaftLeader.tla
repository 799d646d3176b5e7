---------------------------- MODULE MCRaftLeader ----------------------------
(***************************************************************************)
(* Raft from a moment just after an election, so that the bounds of TLC    *)
(* are spent on what happens next.  Both initial states are reachable:     *)
(*  - FreshInit: Leader has won term 1 with the votes of Voters, and its   *)
(*    calls to everybody else were lost;                                   *)
(*  - DivergedInit: an outsider led term 1 and appended two entries nobody *)
(*    received; Leader won term 2 with Voters, appended one entry,         *)
(*    restarted, and has just won term 3 with Voters.                      *)
(***************************************************************************)
EXTENDS MCRaft

CONSTANTS Leader, Voters

Elected == {Leader} \cup Voters

ASSUME LeaderAssumption ==
    /\ Elected \subseteq Server
    /\ Leader \notin Voters
    /\ Cardinality(Elected) = Majority

\* Leader has just won term t, when the logs are logs.
JustElected(t, logs) ==
    LET lastTerm(s) == logs[s][Len(logs[s])].term
    IN  /\ log = logs
        /\ term = [s \in Server |-> IF s \in Elected THEN t ELSE lastTerm(s)]
        /\ voteFor = [s \in Server |-> IF s \in Elected THEN Leader
                                       ELSE IF lastTerm(s) = 0 THEN Nil ELSE s]
        /\ lastIncludedIndex = [s \in Server |-> 0]
        /\ lastIncludedTerm = [s \in Server |-> 0]
        /\ snapshot = [s \in Server |-> <<>>]
        /\ state = [s \in Server |-> IF s = Leader THEN "Leader" ELSE "Follower"]
        /\ commitIndex = [s \in Server |-> 0]
        /\ lastApplied = [s \in Server |-> 0]
        /\ nextIndex = [s \in Server |->
                          [p \in Server |-> IF s = Leader THEN Len(logs[Leader]) ELSE 0]]
        /\ matchIndex = [s \in Server |->
                           [p \in Server |-> IF s = Leader /\ p = Leader THEN Len(logs[s]) - 1 ELSE 0]]
        /\ pendingSnapshot = [s \in Server |-> Nil]
        /\ votes = [s \in Server |-> IF s = Leader THEN Elected ELSE {}]
        /\ delivering = [s \in Server |-> <<>>]
        /\ waiting = [s \in Server |-> FALSE]
        /\ disk = [s \in Server |->
                     [Term |-> term[s], VoteFor |-> voteFor[s], Log |-> log[s],
                      LastIncludedIndex |-> 0, LastIncludedTerm |-> 0, Snapshot |-> <<>>]]
        /\ applied = [s \in Server |-> <<>>]
        /\ voteCalls = {}
        /\ appendCalls = {}
        /\ snapCalls = {}

FreshInit == JustElected(1, [s \in Server |-> <<Dummy>>])

DivergedInit ==
    \E c, d \in Command :
        LET old == [term |-> 1, command |-> c]
            new == [term |-> 2, command |-> d]
        IN  JustElected(3, [s \in Server |-> IF s = Leader THEN <<Dummy, new>>
                                             ELSE IF s \in Voters THEN <<Dummy>>
                                             ELSE <<Dummy, old, old>>])

SafetySpec == (FreshInit \/ DivergedInit) /\ [][Next]_vars

(***************************************************************************)
(* Fairness.  ticker() makes the leader call replicateToPeer() for every   *)
(* peer again and again; the network may lose any call or reply, but not   *)
(* all of them for ever, and the applier goroutine and the service keep    *)
(* running.                                                                *)
(***************************************************************************)
Handled(p) ==
    \/ \E c \in appendCalls : c.to = p /\ AppendEntries(c)
    \/ \E c \in snapCalls : c.to = p /\ InstallSnapshot(c)

ReplyHandled(p) ==
    \/ \E c \in appendCalls : c.to = p /\ HandleAppendReply(c)
    \/ \E c \in snapCalls : c.to = p /\ HandleSnapReply(c)

Fairness ==
    /\ \A p \in Server \ {Leader} :
         /\ SF_vars(\E g \in Goroutine : ReplicateEntries(Leader, p, g) \/ ReplicateSnapshot(Leader, p, g))
         /\ SF_vars(Handled(p))
         /\ SF_vars(ReplyHandled(p))
    /\ \A s \in Applying :
         WF_vars(ApplierTakeSnapshot(s) \/ ApplierTakeEntries(s) \/ Deliver(s))

DivergedSpec == DivergedInit /\ [][Next]_vars /\ Fairness

\* While one leader stays in office, everything in its log up to an entry of its own
\* term reaches every service: conflicting logs are found and cut by the XTerm back-up,
\* compacted entries arrive as snapshots, and the applier is woken up.
EverythingIsApplied ==
    \A s \in Applying, i \in 1 .. MaxIndex :
        (/\ LastLogIndex(Leader) >= i
         /\ TermAt(Leader, LastLogIndex(Leader)) = term[Leader])
          ~> (Len(applied[s]) >= i)
=============================================================================

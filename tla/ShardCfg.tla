------------------------------ MODULE ShardCfg ------------------------------
(***************************************************************************)
(* ShardConfig of src/src/shardkv1/shardcfg/shardcfg.go: which replica     *)
(* group serves which shard.  JoinBalance() and LeaveBalance() change one  *)
(* configuration over and over, whether they succeed or not; every turn of *)
(* their loops is a step.  The set of groups stands for the map Groups,    *)
(* since a group's servers are always the same.                            *)
(***************************************************************************)
EXTENDS Naturals, Sequences, FiniteSets, Functions

CONSTANTS
    NShards,
    Gid,        \* the groups that may join; 0 is none
    Servers,    \* a function: the names of a group's servers
    MaxArgs,    \* bound: groups that join or leave in a call
    MaxNum      \* bound: configurations

\* analyze() takes 257 for more than any group can have.
ASSUME ShardCfgAssumption ==
    /\ NShards \in 1 .. 256
    /\ Gid \subseteq Nat \ {0}
    /\ DOMAIN Servers = Gid
    /\ MaxArgs \in Nat /\ MaxNum \in Nat

Shard == 0 .. NShards - 1

VARIABLES
    cfg,        \* the ShardConfig: Num, Shards and Groups
    old,        \* the Copy() that was made before the last call
    op,         \* the last call: "join" or "leave", and its groups
    pc,         \* where it is
    i,          \* where its loop is
    ok          \* what the last call returned

vars == <<cfg, old, op, pc, i, ok>>

MakeShardConfig == [Num |-> 0, Shards |-> [s \in Shard |-> 0], Groups |-> {}]

-----------------------------------------------------------------------------
(* LOOKING AT A CONFIGURATION *)

Count(g) == Cardinality({s \in Shard : cfg.Shards[s] = g})

\* analyze(): the first of the groups with the most shards, in the order of their gids
Most(mg) ==
    /\ mg \in cfg.Groups
    /\ \A g \in cfg.Groups : Count(g) < Count(mg) \/ (Count(g) = Count(mg) /\ mg <= g)

LeastIsMost(lg) == Most(lg)                                       \* mutant
\* ... and of those with the least.
Least(lg) ==
    /\ lg \in cfg.Groups
    /\ \A g \in cfg.Groups : Count(lg) < Count(g) \/ (Count(g) = Count(lg) /\ lg <= g)

IsMember(g) == \E s \in Shard : cfg.Shards[s] = g

Allocated(c) == \A s \in Shard : c.Shards[s] \in c.Groups

Balanced(c) ==
    LET n(g) == Cardinality({s \in Shard : c.Shards[s] = g})
    IN  \A g, h \in c.Groups : n(g) <= n(h) + 1

\* What the tests require of a configuration that should have these groups.
CheckConfig(groups) ==
    /\ cfg.Groups = groups
    /\ groups # {} => Allocated(cfg)
    /\ Balanced(cfg)

-----------------------------------------------------------------------------
(* Join() AND Leave() *)

Return(res) == pc' = "ready" /\ ok' = res

\* A call with these groups; a map's come in any order.
Begin(name, gids) ==
    /\ pc = "ready" /\ cfg.Num < MaxNum
    /\ old' = cfg
    /\ op' = [name |-> name, gids |-> gids]
    /\ pc' = name
    /\ i' = 1
    /\ ok' = FALSE
    /\ UNCHANGED cfg

JoinBalance(gids)  == IsInjective(gids) /\ Begin("join", gids)
LeaveBalance(gids) == Begin("leave", gids)

\* The next group of the loop.
Group == op.gids[i]

\* Of the last groups one is there already, or is not there: what went before stays done.
Rejected ==
    /\ pc \in {"join", "leave"} /\ i <= Len(op.gids)
    /\ (pc = "join") = (Group \in cfg.Groups)
    /\ Return(FALSE)
    /\ UNCHANGED <<cfg, old, op, i>>

Clashes(g) == \E x \in cfg.Groups : Servers[x] \cap Servers[g] # {}

\* log.Fatalf(): a server would be in two groups, or the call has no groups.
Fatal ==
    /\ \/ pc = "join" /\ i <= Len(op.gids) /\ Group \notin cfg.Groups /\ Clashes(Group)
       \/ pc \in {"join", "leave"} /\ op.gids = <<>>
    /\ pc' = "fatal"
    /\ UNCHANGED <<cfg, old, op, i, ok>>

JoinGroup ==
    /\ pc = "join" /\ i <= Len(op.gids)
    /\ Group \notin cfg.Groups /\ ~Clashes(Group)
    /\ cfg' = [cfg EXCEPT !.Groups = @ \cup {Group}]
    /\ i' = i + 1
    /\ UNCHANGED <<old, op, pc, ok>>

LeaveGroup ==
    /\ pc = "leave" /\ i <= Len(op.gids)
    /\ Group \in cfg.Groups
    /\ cfg' = [cfg EXCEPT !.Groups = @ \ {Group}]
    /\ i' = i + 1
    /\ UNCHANGED <<old, op, pc, ok>>

AlwaysAssign == "assign"                                          \* mutant
\* Where Rebalance() begins: with the shards that have no group, if there are groups.
RebalanceStart == IF cfg.Groups = {} THEN "unassign" ELSE "assign"

\* The end of Join() or Leave(): Num, and on to Rebalance().
Changed ==
    /\ pc \in {"join", "leave"} /\ op.gids # <<>> /\ i > Len(op.gids)
    /\ cfg' = [cfg EXCEPT !.Num = @ + 1]
    /\ pc' = RebalanceStart
    /\ i' = 0
    /\ UNCHANGED <<old, op, ok>>

-----------------------------------------------------------------------------
(* Rebalance() *)

\* Nobody is left.
Unassign ==
    /\ pc = "unassign"
    /\ cfg' = [cfg EXCEPT !.Shards = [s \in Shard |-> 0]]
    /\ Return(TRUE)
    /\ UNCHANGED <<old, op, i>>

AssignZeroOnly(s) == cfg.Shards[s] = 0                            \* mutant
ReassignAll(s) == TRUE                                            \* mutant
\* Shard s has no group.
Unassigned(s) == cfg.Shards[s] \notin cfg.Groups

\* Shard by shard those without a group get the one that has the least.
Assign ==
    /\ pc = "assign" /\ i < NShards
    /\ IF Unassigned(i)
         THEN \E lg \in cfg.Groups : Least(lg) /\ cfg' = [cfg EXCEPT !.Shards[i] = lg]
         ELSE UNCHANGED cfg
    /\ i' = i + 1
    /\ UNCHANGED <<old, op, pc, ok>>

Assigned ==
    /\ pc = "assign" /\ i = NShards
    /\ pc' = "move"
    /\ UNCHANGED <<cfg, old, op, i, ok>>

EnoughTooLate(mg, lg) == Count(mg) < Count(lg) + 1                \* mutant
\* No move makes the two more equal.
Enough(mg, lg) == Count(mg) < Count(lg) + 2

\* The first shard of the group that has the most goes to the one that has the least
Move ==
    /\ pc = "move"
    /\ \E mg, lg \in cfg.Groups, s \in Shard :
          /\ Most(mg) /\ Least(lg) /\ ~Enough(mg, lg)
          /\ cfg.Shards[s] = mg /\ \A t \in Shard : t < s => cfg.Shards[t] # mg
          /\ cfg' = [cfg EXCEPT !.Shards[s] = lg]
    /\ UNCHANGED <<old, op, pc, i, ok>>

\* ... until they are even.
Rebalanced ==
    /\ pc = "move"
    /\ \E mg, lg \in cfg.Groups : Most(mg) /\ Least(lg) /\ Enough(mg, lg)
    /\ Return(TRUE)
    /\ UNCHANGED <<cfg, old, op, i>>

-----------------------------------------------------------------------------
(* SPECIFICATION *)

Init ==
    /\ cfg = MakeShardConfig /\ old = MakeShardConfig
    /\ op = [name |-> "none", gids |-> <<>>]
    /\ pc = "ready" /\ i = 0 /\ ok = FALSE

Gids == UNION {[1 .. n -> Gid] : n \in 0 .. MaxArgs}

Start == \E gids \in Gids : JoinBalance(gids) \/ LeaveBalance(gids)

Step ==
    \/ Rejected \/ Fatal \/ JoinGroup \/ LeaveGroup \/ Changed
    \/ Unassign \/ Assign \/ Assigned \/ Move \/ Rebalanced

Next == Start \/ Step

Spec     == Init /\ [][Next]_vars
FairSpec == Spec /\ WF_vars(Step)     \* the goroutine in the call goes on

-----------------------------------------------------------------------------
(* PROPERTIES *)

Config ==
    [Num : Nat, Shards : [Shard -> Gid \cup {0}], Groups : SUBSET Gid]

\* The values the fields of a ShardConfig and the locals of a call may hold.  Without a
\* group analyze() has no least one to give, and shards would go to group -1.
TypeOK ==
    /\ cfg \in Config /\ old \in Config
    /\ op \in [name : {"none", "join", "leave"}, gids : Seq(Gid)]
    /\ pc \in {"ready", "join", "leave", "unassign", "assign", "move", "fatal"}
    /\ pc \in {"assign", "move"} => cfg.Groups # {}
    /\ i \in Nat /\ ok \in BOOLEAN

\* The groups a call that succeeds should leave.
Wanted ==
    IF op.name = "join" THEN old.Groups \cup Range(op.gids) ELSE old.Groups \ Range(op.gids)

\* JoinBalance() and LeaveBalance() that return true leave a configuration that
\* CheckConfig() accepts, also when calls before them were rejected half-way and left
\* groups without shards and shards without groups; its number is the next one.
SuccessChecksOut ==
    pc = "ready" /\ ok => CheckConfig(Wanted) /\ cfg.Num = old.Num + 1

\* What joinGroups() and leaveGroups() of the tests find with checkMember(): after a
\* call that returned true a group has shards if it joined, while there are enough for
\* all, and none if it left.
MembersHaveShards ==
    pc = "ready" /\ ok =>
        /\ Cardinality(cfg.Groups) <= NShards => \A g \in cfg.Groups : IsMember(g)
        /\ \A g \in Gid \ cfg.Groups : ~IsMember(g)

\* Rebalance() moves no shard without need: from a balanced configuration, shards only
\* go to groups that join, and only those of groups that leave.
OnlyNeededMoves ==
    pc = "ready" /\ ok /\ Allocated(old) /\ Balanced(old) =>
        \A s \in Shard :
            cfg.Shards[s] # old.Shards[s] =>
                (IF op.name = "join" THEN cfg.Shards[s] ELSE old.Shards[s]) \in Range(op.gids)

\* Every call returns, or ends the process: Rebalance()'s loop moves the last shard at
\* some time, and does not move one back and forth.
CallsEnd == pc # "ready" ~> pc \in {"ready", "fatal"}
=============================================================================

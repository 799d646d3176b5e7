--------------------------- MODULE ShardCfgProofs ---------------------------
(***************************************************************************)
(* Theorems about JoinBalance() and LeaveBalance(), for any number of      *)
(* shards, of groups, of groups in a call and of calls.                    *)
(***************************************************************************)
EXTENDS ShardCfg, FiniteSetTheorems, SequenceTheorems, TLAPS

-----------------------------------------------------------------------------
(* THE INDUCTIVE INVARIANT *)

\* How many shards f gives to group g.
Load(f, g) == Cardinality({s \in Shard : f[s] = g})

\* The groups once the first n groups of the call have joined or left.
GroupsAfter(n) ==
    LET done == {op.gids[k] : k \in 1 .. n}
    IN  IF op.name = "join" THEN old.Groups \cup done ELSE old.Groups \ done

\* Up to its end Join() or Leave() has changed nothing but the groups.
Looping ==
    pc \in {"join", "leave"} =>
        /\ op.name = pc /\ i \in 1 .. Len(op.gids) + 1
        /\ cfg.Groups = GroupsAfter(i - 1)
        /\ cfg.Shards = old.Shards /\ cfg.Num = old.Num

\* Rebalance() has the groups it should have, and as many shards in order as it says.
Rebalancing ==
    pc \in {"unassign", "assign", "move"} =>
        /\ cfg.Groups = Wanted /\ cfg.Num = old.Num + 1
        /\ pc = "unassign" => cfg.Groups = {}
        /\ pc = "assign" => i <= NShards /\ \A s \in Shard : s < i => cfg.Shards[s] \in cfg.Groups
        /\ pc = "move" => Allocated(cfg)

\* No group has two shards more than one that was there before the call.
Even == \A g \in cfg.Groups, h \in cfg.Groups \cap old.Groups :
            Load(cfg.Shards, g) <= Load(cfg.Shards, h) + 1

\* A shard has left its group only if that is gone, or for a new one.
FewMoves ==
    \A s \in Shard : cfg.Shards[s] # old.Shards[s] =>
        old.Shards[s] \notin cfg.Groups \/ cfg.Shards[s] \in cfg.Groups \ old.Groups

Steady ==
    pc \in {"assign", "move"} /\ Allocated(old) /\ Balanced(old) => Even /\ FewMoves

\* Without groups no shard has one, once a call has succeeded.
NobodyServes == pc = "ready" /\ ok /\ cfg.Groups = {} => \A s \in Shard : cfg.Shards[s] = 0

ShardInv ==
    /\ TypeOK /\ IsFiniteSet(cfg.Groups)
    /\ Looping /\ Rebalancing /\ Steady
    /\ SuccessChecksOut /\ NobodyServes /\ OnlyNeededMoves
-----------------------------------------------------------------------------
(* COUNTING SHARDS *)

LEMMA ShardsFinite ==
  /\ NShards \in Nat /\ IsFiniteSet(Shard) /\ Cardinality(Shard) = NShards
<1>1. NShards \in Nat /\ NShards >= 1
  BY ShardCfgAssumption
<1> QED BY <1>1, FS_Interval DEF Shard

LEMMA LoadType ==
  ASSUME NEW f, NEW g
  PROVE  IsFiniteSet({s \in Shard : f[s] = g}) /\ Load(f, g) \in Nat
<1>1. {s \in Shard : f[s] = g} \in SUBSET Shard
  OBVIOUS
<1>2. IsFiniteSet({s \in Shard : f[s] = g})
  BY <1>1, ShardsFinite, FS_Subset
<1> QED BY <1>2, FS_CardinalityType DEF Load

\* A group without shards has none, and one with a shard has some.
LEMMA LoadZero ==
  ASSUME NEW f, NEW g
  PROVE  Load(f, g) = 0 <=> \A s \in Shard : f[s] # g
<1>1. IsFiniteSet({s \in Shard : f[s] = g})
  BY LoadType
<1>2. Load(f, g) = 0 <=> {s \in Shard : f[s] = g} = {}
  BY <1>1, FS_EmptySet DEF Load
<1> QED BY <1>2

\* e is f but for shard x, which is given to another group.
Gives(e, f, x, new) == f[x] # new /\ \A s \in Shard : e[s] = IF s = x THEN new ELSE f[s]

\* The load of g once f's shard x has been given to another group.
MovedLoad(f, x, new, g) ==
    IF g = new THEN Load(f, g) + 1 ELSE IF g = f[x] THEN Load(f, g) - 1 ELSE Load(f, g)

LEMMA LoadMoves ==
  ASSUME NEW f, NEW x \in Shard, NEW new, NEW e, Gives(e, f, x, new), NEW g
  PROVE  Load(e, g) = MovedLoad(f, x, new, g)
<1> DEFINE S == {s \in Shard : f[s] = g}
           T == {s \in Shard : e[s] = g}
<1>1. IsFiniteSet(S)
  BY LoadType
<1>2. f[x] # new /\ e[x] = new /\ \A s \in Shard : s # x => e[s] = f[s]
  BY DEF Gives
<1>3. Load(f, g) = Cardinality(S) /\ Load(e, g) = Cardinality(T)
  BY DEF Load
<1>4. CASE g = new
  <2>1. T = S \cup {x} /\ x \notin S
    BY <1>2, <1>4
  <2> HIDE DEF S, T
  <2>2. Cardinality(S \cup {x}) = Cardinality(S) + 1
    BY <1>1, <2>1, FS_AddElement
  <2> QED BY <1>3, <1>4, <2>1, <2>2 DEF MovedLoad
<1>5. CASE g # new /\ g = f[x]
  <2>1. T = S \ {x} /\ x \in S
    BY <1>2, <1>5
  <2> HIDE DEF S, T
  <2>2. Cardinality(S \ {x}) = Cardinality(S) - 1
    BY <1>1, <2>1, FS_RemoveElement
  <2> QED BY <1>3, <1>5, <2>1, <2>2 DEF MovedLoad
<1>6. CASE g # new /\ g # f[x]
  <2>1. T = S
    BY <1>2, <1>6
  <2> HIDE DEF S, T
  <2> QED BY <1>3, <1>6, <2>1 DEF MovedLoad
<1> QED BY <1>4, <1>5, <1>6

LEMMA CountIsLoad ==
  /\ \A g : Count(g) = Load(cfg.Shards, g)
  /\ \A c : Balanced(c) <=>
        \A g, h \in c.Groups : Load(c.Shards, g) <= Load(c.Shards, h) + 1
BY DEF Count, Load, Balanced

\* What analyze() says of the groups it returns.
LEMMA MostLeast ==
  /\ \A m : Most(m) => m \in cfg.Groups /\ \A g \in cfg.Groups : Load(cfg.Shards, g) <= Load(cfg.Shards, m)
  /\ \A l : Least(l) => l \in cfg.Groups /\ \A g \in cfg.Groups : Load(cfg.Shards, l) <= Load(cfg.Shards, g)
<1>1. \A g : Load(cfg.Shards, g) \in Nat
  BY LoadType
<1>2. ASSUME NEW m, Most(m)
      PROVE  m \in cfg.Groups /\ \A g \in cfg.Groups : Load(cfg.Shards, g) <= Load(cfg.Shards, m)
  BY <1>1, <1>2, CountIsLoad DEF Most
<1>3. ASSUME NEW l, Least(l)
      PROVE  l \in cfg.Groups /\ \A g \in cfg.Groups : Load(cfg.Shards, l) <= Load(cfg.Shards, g)
  BY <1>1, <1>3, CountIsLoad DEF Least
<1> QED BY <1>2, <1>3

\* Where no group has two shards more than another and there are no more groups than
\* shards, every group has one.
LEMMA EveryGroupHasOne ==
  ASSUME NEW f, NEW G, IsFiniteSet(G), f \in [Shard -> G], Cardinality(G) <= NShards,
         \A g, h \in G : Load(f, g) <= Load(f, h) + 1, NEW g \in G
  PROVE  \E s \in Shard : f[s] = g
<1>1. SUFFICES ASSUME \A s \in Shard : f[s] # g PROVE FALSE
  OBVIOUS
<1>2. IsFiniteSet(G \ {g}) /\ Cardinality(G \ {g}) = Cardinality(G) - 1
      /\ Cardinality(G) \in Nat
  BY FS_RemoveElement, FS_CardinalityType
<1>3. Cardinality(G \ {g}) < Cardinality(Shard)
  BY <1>2, ShardsFinite
<1>4. f \in [Shard -> G \ {g}]
  BY <1>1
<1>5. PICK x, y \in Shard : x # y /\ f[x] = f[y]
  BY <1>2, <1>3, <1>4, ShardsFinite, FS_PigeonHole
<1>6. PICK h : h = f[x]
  OBVIOUS
<1>7. h \in G
  BY <1>6
<1> DEFINE S == {s \in Shard : f[s] = h}
<1>8. IsFiniteSet(S) /\ Load(f, h) \in Nat /\ Load(f, h) = Cardinality(S)
  BY LoadType DEF Load
<1>9. x \in S /\ y \in S \ {x}
  BY <1>5, <1>6
<1> HIDE DEF S
<1>10. /\ IsFiniteSet(S \ {x}) /\ Cardinality(S \ {x}) = Cardinality(S) - 1
  BY <1>8, <1>9, FS_RemoveElement
<1>11. Cardinality(S \ {x}) # 0 /\ Cardinality(S \ {x}) \in Nat
  BY <1>9, <1>10, FS_EmptySet, FS_CardinalityType
<1>12. Load(f, h) <= Load(f, g) + 1 /\ Load(f, g) = 0
  BY <1>1, <1>7, LoadZero
<1> QED BY <1>8, <1>10, <1>11, <1>12
-----------------------------------------------------------------------------
(* JOIN() AND LEAVE() *)

LEMMA InitShardInv == Init => ShardInv
<1> SUFFICES ASSUME Init PROVE ShardInv
  OBVIOUS
<1>1. /\ cfg = MakeShardConfig /\ old = MakeShardConfig /\ pc = "ready" /\ i = 0 /\ ok = FALSE
      /\ op = [name |-> "none", gids |-> <<>>]
  BY DEF Init
<1>2. MakeShardConfig \in Config /\ cfg.Groups = {}
  BY <1>1 DEF MakeShardConfig, Config
<1>3. op \in [name : {"none", "join", "leave"}, gids : Seq(Gid)]
  BY <1>1, EmptySeq
<1>4. TypeOK
  BY <1>1, <1>2, <1>3 DEF TypeOK
<1>5. IsFiniteSet(cfg.Groups)
  BY <1>2, FS_EmptySet
<1> QED BY <1>1, <1>4, <1>5 DEF ShardInv, Looping, Rebalancing, Steady, SuccessChecksOut,
                                NobodyServes, OnlyNeededMoves

LEMMA GidsAreSeqs == Gids \subseteq Seq(Gid)
<1> SUFFICES ASSUME NEW gids \in Gids PROVE gids \in Seq(Gid)
  OBVIOUS
<1>1. PICK n \in 0 .. MaxArgs : gids \in [1 .. n -> Gid]
  BY DEF Gids
<1>2. n \in Nat
  BY ShardCfgAssumption
<1> QED BY <1>1, <1>2, SeqDef

LEMMA BeginInv ==
  ASSUME ShardInv, NEW name \in {"join", "leave"}, NEW gids \in Gids, Begin(name, gids)
  PROVE  ShardInv'
<1>1. /\ cfg' = cfg /\ old' = cfg /\ op' = [name |-> name, gids |-> gids]
      /\ pc' = name /\ i' = 1 /\ ok' = FALSE
  BY DEF Begin
<1>2. gids \in Seq(Gid) /\ Len(gids) \in Nat
  BY GidsAreSeqs, LenProperties
<1>3. TypeOK' /\ IsFiniteSet(cfg'.Groups)
  BY <1>1, <1>2 DEF ShardInv, TypeOK
<1>4. GroupsAfter(0)' = cfg'.Groups
  <2>1. {op'.gids[k] : k \in 1 .. 0} = {}
    OBVIOUS
  <2> QED BY <1>1, <2>1 DEF GroupsAfter
<1>5. Looping'
  BY <1>1, <1>2, <1>4 DEF Looping
<1> QED BY <1>1, <1>3, <1>5 DEF ShardInv, Rebalancing, Steady, SuccessChecksOut, NobodyServes,
                                OnlyNeededMoves

\* The groups of a call, once one more has joined or left.
LEMMA OneGroupMore ==
  ASSUME TypeOK, pc \in {"join", "leave"}, Looping, i <= Len(op.gids)
  PROVE  /\ Len(op.gids) \in Nat /\ i \in 1 .. Len(op.gids) /\ Group \in Gid
         /\ pc = "join" => GroupsAfter(i) = cfg.Groups \cup {Group}
         /\ pc = "leave" => GroupsAfter(i) = cfg.Groups \ {Group}
<1>1. op.gids \in Seq(Gid) /\ i \in Nat /\ op.name = pc /\ i >= 1
      /\ cfg.Groups = GroupsAfter(i - 1)
  BY LenProperties DEF TypeOK, Looping
<1>2. Len(op.gids) \in Nat /\ i \in 1 .. Len(op.gids)
  BY <1>1, LenProperties
<1>3. Group \in Gid
  BY <1>1, <1>2, ElementOfSeq DEF Group
<1>4. {op.gids[k] : k \in 1 .. i} = {op.gids[k] : k \in 1 .. i - 1} \cup {Group}
  <2>1. 1 .. i = (1 .. i - 1) \cup {i}
    BY <1>1
  <2> QED BY <2>1 DEF Group
<1> QED BY <1>1, <1>2, <1>3, <1>4 DEF GroupsAfter

LEMMA JoinLeaveInv ==
  ASSUME ShardInv, JoinGroup \/ LeaveGroup
  PROVE  ShardInv'
<1>1. /\ pc \in {"join", "leave"} /\ i <= Len(op.gids) /\ i' = i + 1
      /\ old' = old /\ op' = op /\ pc' = pc /\ ok' = ok
      /\ pc = "join" => cfg' = [cfg EXCEPT !.Groups = @ \cup {Group}]
      /\ pc = "leave" => cfg' = [cfg EXCEPT !.Groups = @ \ {Group}]
  BY DEF JoinGroup, LeaveGroup
<1>2. TypeOK /\ Looping /\ IsFiniteSet(cfg.Groups) /\ cfg \in Config
  BY DEF ShardInv, TypeOK
<1>3. /\ Len(op.gids) \in Nat /\ i \in 1 .. Len(op.gids) /\ Group \in Gid
      /\ pc = "join" => GroupsAfter(i) = cfg.Groups \cup {Group}
      /\ pc = "leave" => GroupsAfter(i) = cfg.Groups \ {Group}
  BY <1>1, <1>2, OneGroupMore
<1>4. /\ cfg'.Groups = GroupsAfter(i) /\ cfg'.Shards = cfg.Shards /\ cfg'.Num = cfg.Num
      /\ cfg' \in Config
  BY <1>1, <1>2, <1>3 DEF Config
<1>5. IsFiniteSet(cfg'.Groups)
  <2>1. IsFiniteSet(cfg.Groups \cup {Group}) /\ IsFiniteSet(cfg.Groups \ {Group})
    BY <1>2, FS_AddElement, FS_RemoveElement
  <2> QED BY <1>1, <1>3, <1>4, <2>1
<1>6. TypeOK'
  BY <1>1, <1>2, <1>3, <1>4 DEF TypeOK
<1>7. Looping'
  <2>1. GroupsAfter(i - 1)' = GroupsAfter(i)
    <3>1. i' - 1 = i /\ op' = op /\ old' = old
      BY <1>1, <1>3
    <3> QED BY <3>1 DEF GroupsAfter
  <2> QED BY <1>1, <1>2, <1>3, <1>4, <2>1 DEF Looping
<1> QED BY <1>1, <1>5, <1>6, <1>7 DEF ShardInv, Rebalancing, Steady, SuccessChecksOut,
                                      NobodyServes, OnlyNeededMoves

\* A call that is rejected half-way, or that ends the process.
LEMMA RejectedInv ==
  ASSUME ShardInv, Rejected \/ Fatal
  PROVE  ShardInv'
<1>1. /\ cfg' = cfg /\ old' = old /\ op' = op /\ i' = i
      /\ \/ pc' = "ready" /\ ok' = FALSE
         \/ pc' = "fatal" /\ ok' = ok
  BY DEF Rejected, Fatal, Return
<1> QED BY <1>1 DEF ShardInv, TypeOK, Looping, Rebalancing, Steady, SuccessChecksOut, NobodyServes,
                    OnlyNeededMoves

LEMMA StutterInv ==
  ASSUME ShardInv, UNCHANGED vars
  PROVE  ShardInv'
BY DEF vars, ShardInv, TypeOK, Looping, Rebalancing, Steady, SuccessChecksOut, NobodyServes,
       OnlyNeededMoves, GroupsAfter, Wanted, Even, FewMoves, CheckConfig

\* The end of Join() and Leave(): the groups are the ones that are wanted.
LEMMA ChangedInv ==
  ASSUME ShardInv, Changed
  PROVE  ShardInv'
<1>1. /\ pc \in {"join", "leave"} /\ i > Len(op.gids) /\ cfg' = [cfg EXCEPT !.Num = @ + 1]
      /\ pc' = RebalanceStart /\ i' = 0 /\ old' = old /\ op' = op /\ ok' = ok
  BY DEF Changed
<1>2. /\ cfg \in Config /\ old \in Config /\ op.gids \in Seq(Gid) /\ i \in Nat
      /\ op.name = pc /\ i \in 1 .. Len(op.gids) + 1
      /\ cfg.Groups = GroupsAfter(i - 1) /\ cfg.Shards = old.Shards /\ cfg.Num = old.Num
  BY <1>1 DEF ShardInv, TypeOK, Looping
<1>3. /\ cfg'.Groups = cfg.Groups /\ cfg'.Shards = old.Shards /\ cfg'.Num = old.Num + 1
      /\ cfg' \in Config
  BY <1>1, <1>2 DEF Config
<1>4. GroupsAfter(i - 1) = Wanted
  <2>1. i - 1 = Len(op.gids) /\ DOMAIN op.gids = 1 .. Len(op.gids)
    BY <1>1, <1>2, LenProperties
  <2>2. {op.gids[k] : k \in 1 .. i - 1} = Range(op.gids)
    BY <2>1 DEF Range
  <2> QED BY <2>2 DEF GroupsAfter, Wanted
<1>5. pc' \in {"unassign", "assign"} /\ (pc' = "unassign" <=> cfg'.Groups = {})
  BY <1>1, <1>3 DEF RebalanceStart
<1>6. TypeOK' /\ IsFiniteSet(cfg'.Groups)
  BY <1>1, <1>3, <1>5 DEF ShardInv, TypeOK
<1>7. Rebalancing'
  <2>1. Wanted' = Wanted
    BY <1>1 DEF Wanted
  <2>2. NShards \in Nat /\ \A s \in Shard : ~(s < 0)
    BY ShardCfgAssumption DEF Shard
  <2> QED BY <1>1, <1>2, <1>3, <1>4, <1>5, <2>1, <2>2 DEF Rebalancing
<1>8. ASSUME Allocated(old), Balanced(old) PROVE Even' /\ FewMoves'
  <2>1. ASSUME NEW g \in cfg'.Groups, NEW h \in cfg'.Groups \cap old.Groups
        PROVE  Load(old.Shards, g) <= Load(old.Shards, h) + 1
    <3>1. Load(old.Shards, g) \in Nat /\ Load(old.Shards, h) \in Nat
      BY LoadType
    <3>2. CASE g \in old.Groups
      BY <1>8, <3>2, CountIsLoad
    <3>3. CASE g \notin old.Groups
      <4>1. Load(old.Shards, g) = 0
        BY <1>8, <3>3, LoadZero DEF Allocated
      <4> QED BY <3>1, <4>1
    <3> QED BY <3>2, <3>3
  <2>2. Even'
    BY <1>1, <1>3, <2>1 DEF Even
  <2>3. FewMoves'
    BY <1>1, <1>3 DEF FewMoves
  <2> QED BY <2>2, <2>3
<1>9. Steady'
  BY <1>1, <1>8 DEF Steady, Allocated, Balanced
<1> QED BY <1>5, <1>6, <1>7, <1>9 DEF ShardInv, Looping, SuccessChecksOut, NobodyServes,
                                      OnlyNeededMoves
-----------------------------------------------------------------------------
(* REBALANCE() *)

\* Nobody is left, and the shards go to nobody.
LEMMA UnassignInv ==
  ASSUME ShardInv, Unassign
  PROVE  ShardInv'
<1>1. /\ pc = "unassign" /\ cfg' = [cfg EXCEPT !.Shards = [s \in Shard |-> 0]]
      /\ pc' = "ready" /\ ok' = TRUE /\ old' = old /\ op' = op /\ i' = i
  BY DEF Unassign, Return
<1>2. /\ cfg \in Config /\ cfg.Groups = {} /\ cfg.Groups = Wanted /\ cfg.Num = old.Num + 1
  BY <1>1 DEF ShardInv, TypeOK, Rebalancing
<1>3. /\ cfg' \in Config /\ cfg'.Groups = {} /\ cfg'.Num = cfg.Num
      /\ \A s \in Shard : cfg'.Shards[s] = 0
  BY <1>1, <1>2 DEF Config
<1>4. TypeOK' /\ IsFiniteSet(cfg'.Groups)
  BY <1>1, <1>2, <1>3 DEF ShardInv, TypeOK
<1>5. Wanted' = Wanted
  BY <1>1 DEF Wanted
<1>6. SuccessChecksOut'
  BY <1>1, <1>2, <1>3, <1>5 DEF SuccessChecksOut, CheckConfig, Balanced
<1>7. OnlyNeededMoves'
  <2>1. SUFFICES ASSUME Allocated(old), NEW s \in Shard
                 PROVE  (IF op.name = "join" THEN cfg'.Shards[s] ELSE old.Shards[s]) \in Range(op.gids)
    BY <1>1 DEF OnlyNeededMoves, Allocated
  <2>2. old.Shards[s] \in old.Groups
    BY <2>1 DEF Allocated
  <2>3. op.name # "join" /\ old.Shards[s] \in Range(op.gids)
    BY <1>2, <2>2 DEF Wanted
  <2> QED BY <2>3
<1>8. NobodyServes'
  BY <1>3 DEF NobodyServes
<1> QED BY <1>1, <1>4, <1>6, <1>7, <1>8 DEF ShardInv, Looping, Rebalancing, Steady

\* A step of Rebalance()'s loops that gives shard x to the group that has the least.
LEMMA GivenToLeast ==
  ASSUME ShardInv, NEW x \in Shard, NEW lg, Least(lg), cfg.Shards[x] # lg,
         cfg' = [cfg EXCEPT !.Shards[x] = lg], old' = old
  PROVE  /\ cfg' \in Config /\ cfg'.Groups = cfg.Groups /\ cfg'.Num = cfg.Num
         /\ lg \in cfg.Groups
         /\ \A s \in Shard : cfg'.Shards[s] = IF s = x THEN lg ELSE cfg.Shards[s]
         /\ \A g : Load(cfg'.Shards, g) = MovedLoad(cfg.Shards, x, lg, g)
<1>1. cfg \in Config /\ cfg.Shards \in [Shard -> Gid \cup {0}] /\ cfg.Groups \subseteq Gid
  BY DEF ShardInv, TypeOK, Config
<1>2. lg \in cfg.Groups /\ lg \in Gid \cup {0}
  BY <1>1, MostLeast
<1>3. cfg'.Shards = [cfg.Shards EXCEPT ![x] = lg] /\ cfg'.Groups = cfg.Groups
      /\ cfg'.Num = cfg.Num /\ cfg' \in Config
  BY <1>1, <1>2 DEF Config
<1>4. \A s \in Shard : cfg'.Shards[s] = IF s = x THEN lg ELSE cfg.Shards[s]
  BY <1>1, <1>3
<1>5. \A g : Load(cfg'.Shards, g) = MovedLoad(cfg.Shards, x, lg, g)
  <2>1. Gives(cfg'.Shards, cfg.Shards, x, lg)
    BY <1>4 DEF Gives
  <2> QED BY <2>1, LoadMoves, Zenon
<1> QED BY <1>2, <1>3, <1>4, <1>5

\* A shard of a group that is gone, or of none, gets a group; one that has a group keeps it.
LEMMA AssignInv ==
  ASSUME ShardInv, Assign
  PROVE  ShardInv'
<1>1. /\ pc = "assign" /\ i < NShards /\ i' = i + 1
      /\ pc' = pc /\ old' = old /\ op' = op /\ ok' = ok
  BY DEF Assign
<1>2. /\ TypeOK /\ i \in Nat /\ cfg \in Config /\ IsFiniteSet(cfg.Groups) /\ Steady
      /\ cfg.Groups = Wanted /\ cfg.Num = old.Num + 1
      /\ \A s \in Shard : s < i => cfg.Shards[s] \in cfg.Groups
  BY <1>1 DEF ShardInv, TypeOK, Rebalancing
<1>3. i \in Shard /\ NShards \in Nat /\ Shard \subseteq Nat
  BY <1>1, <1>2, ShardCfgAssumption DEF Shard
<1>4. Wanted' = Wanted
  BY <1>1 DEF Wanted
<1>5. SUFFICES /\ cfg' \in Config /\ cfg'.Groups = cfg.Groups /\ cfg'.Num = cfg.Num
               /\ \A s \in Shard : s < i + 1 => cfg'.Shards[s] \in cfg.Groups
               /\ Allocated(old) /\ Balanced(old) => Even' /\ FewMoves'
  <2>1. SUFFICES ASSUME cfg' \in Config, cfg'.Groups = cfg.Groups, cfg'.Num = cfg.Num,
                        \A s \in Shard : s < i + 1 => cfg'.Shards[s] \in cfg.Groups,
                        Allocated(old) /\ Balanced(old) => Even' /\ FewMoves'
                 PROVE  ShardInv'
    OBVIOUS
  <2>2. TypeOK' /\ IsFiniteSet(cfg'.Groups)
    BY <1>1, <1>2, <2>1 DEF TypeOK
  <2>3. Rebalancing'
    BY <1>1, <1>2, <1>3, <1>4, <2>1 DEF Rebalancing
  <2>4. Steady'
    BY <1>1, <2>1 DEF Steady, Allocated, Balanced
  <2> QED BY <1>1, <2>2, <2>3, <2>4 DEF ShardInv, Looping, SuccessChecksOut, NobodyServes,
                                        OnlyNeededMoves
<1>6. CASE ~Unassigned(i)
  <2>1. cfg' = cfg /\ cfg.Shards[i] \in cfg.Groups
    BY <1>6 DEF Assign, Unassigned
  <2>2. ASSUME NEW s \in Shard, s < i + 1 PROVE cfg.Shards[s] \in cfg.Groups
    <3>1. s < i \/ s = i
      BY <1>2, <1>3, <2>2
    <3> QED BY <1>2, <2>1, <3>1
  <2>3. Allocated(old) /\ Balanced(old) => Even' /\ FewMoves'
    BY <1>1, <1>2, <2>1 DEF Steady, Even, FewMoves
  <2> QED BY <1>2, <2>1, <2>2, <2>3
<1>7. CASE Unassigned(i)
  <2>1. PICK lg \in cfg.Groups : Least(lg) /\ cfg' = [cfg EXCEPT !.Shards[i] = lg]
    BY <1>7 DEF Assign
  <2>2. cfg.Shards[i] \notin cfg.Groups /\ cfg.Shards[i] # lg
    BY <1>7 DEF Unassigned
  <2>3. /\ cfg' \in Config /\ cfg'.Groups = cfg.Groups /\ cfg'.Num = cfg.Num
        /\ \A s \in Shard : cfg'.Shards[s] = IF s = i THEN lg ELSE cfg.Shards[s]
        /\ \A g : Load(cfg'.Shards, g) = MovedLoad(cfg.Shards, i, lg, g)
    BY <1>1, <1>3, <2>1, <2>2, GivenToLeast
  <2>4. ASSUME NEW s \in Shard, s < i + 1 PROVE cfg'.Shards[s] \in cfg.Groups
    <3>1. s < i \/ s = i
      BY <1>2, <1>3, <2>4
    <3> QED BY <1>2, <2>3, <3>1
  <2>5. ASSUME Allocated(old), Balanced(old) PROVE Even'
    <3>1. SUFFICES ASSUME NEW g \in cfg.Groups, NEW h \in cfg.Groups \cap old.Groups
                   PROVE  Load(cfg'.Shards, g) <= Load(cfg'.Shards, h) + 1
      BY <1>1, <2>3 DEF Even
    <3>2. /\ Load(cfg.Shards, g) \in Nat /\ Load(cfg.Shards, h) \in Nat
          /\ Load(cfg.Shards, g) <= Load(cfg.Shards, h) + 1
      BY <1>1, <1>2, <2>5, <3>1, LoadType DEF Steady, Even
    <3>3. /\ Load(cfg'.Shards, g) = IF g = lg THEN Load(cfg.Shards, g) + 1 ELSE Load(cfg.Shards, g)
          /\ Load(cfg'.Shards, h) = IF h = lg THEN Load(cfg.Shards, h) + 1 ELSE Load(cfg.Shards, h)
      BY <2>2, <2>3, <3>1 DEF MovedLoad
    <3>4. g = lg => Load(cfg.Shards, g) <= Load(cfg.Shards, h)
      BY <2>1, <3>1, MostLeast
    <3> QED BY <3>2, <3>3, <3>4
  <2>6. ASSUME Allocated(old), Balanced(old) PROVE FewMoves'
    <3>1. FewMoves
      BY <1>1, <1>2, <2>6 DEF Steady
    <3> QED BY <1>1, <1>3, <2>2, <2>3, <3>1 DEF FewMoves
  <2> QED BY <2>3, <2>4, <2>5, <2>6
<1> QED BY <1>6, <1>7

LEMMA AssignedInv ==
  ASSUME ShardInv, Assigned
  PROVE  ShardInv'
<1>1. /\ pc = "assign" /\ i = NShards /\ pc' = "move"
      /\ cfg' = cfg /\ old' = old /\ op' = op /\ i' = i /\ ok' = ok
  BY DEF Assigned
<1>2. /\ cfg.Groups = Wanted /\ cfg.Num = old.Num + 1
      /\ \A s \in Shard : s < NShards => cfg.Shards[s] \in cfg.Groups
  BY <1>1 DEF ShardInv, Rebalancing
<1>3. Allocated(cfg)
  <2>1. \A s \in Shard : s < NShards
    BY ShardCfgAssumption DEF Shard
  <2> QED BY <1>2, <2>1 DEF Allocated
<1>4. TypeOK' /\ IsFiniteSet(cfg'.Groups)
  BY <1>1 DEF ShardInv, TypeOK
<1>5. Rebalancing'
  BY <1>1, <1>2, <1>3 DEF Rebalancing, Wanted, Allocated
<1>6. Steady'
  BY <1>1 DEF ShardInv, Steady, Even, FewMoves, Allocated, Balanced
<1> QED BY <1>1, <1>4, <1>5, <1>6 DEF ShardInv, Looping, SuccessChecksOut, NobodyServes,
                                      OnlyNeededMoves

\* A move from the fullest to the emptiest group.  From a balanced configuration the
\* emptiest one is new: no group has two shards more than one that was there before.
LEMMA MoveInv ==
  ASSUME ShardInv, Move
  PROVE  ShardInv'
<1>1. /\ pc = "move" /\ pc' = pc /\ old' = old /\ op' = op /\ ok' = ok /\ i' = i
  BY DEF Move
<1>2. PICK mg \in cfg.Groups, lg \in cfg.Groups, x \in Shard :
         /\ Most(mg) /\ Least(lg) /\ ~Enough(mg, lg)
         /\ cfg.Shards[x] = mg
         /\ cfg' = [cfg EXCEPT !.Shards[x] = lg]
  BY DEF Move
<1>3. /\ TypeOK /\ IsFiniteSet(cfg.Groups) /\ Steady
      /\ cfg.Groups = Wanted /\ cfg.Num = old.Num + 1 /\ Allocated(cfg)
  BY <1>1 DEF ShardInv, Rebalancing
<1>4. /\ Load(cfg.Shards, mg) \in Nat /\ Load(cfg.Shards, lg) \in Nat
      /\ Load(cfg.Shards, mg) >= Load(cfg.Shards, lg) + 2
  <2>1. Load(cfg.Shards, mg) \in Nat /\ Load(cfg.Shards, lg) \in Nat
    BY LoadType
  <2>2. ~(Load(cfg.Shards, mg) < Load(cfg.Shards, lg) + 2)
    BY <1>2, CountIsLoad DEF Enough
  <2> QED BY <2>1, <2>2
<1>5. mg # lg
  BY <1>4
<1>6. /\ cfg' \in Config /\ cfg'.Groups = cfg.Groups /\ cfg'.Num = cfg.Num
      /\ \A s \in Shard : cfg'.Shards[s] = IF s = x THEN lg ELSE cfg.Shards[s]
      /\ \A g : Load(cfg'.Shards, g) = MovedLoad(cfg.Shards, x, lg, g)
  BY <1>1, <1>2, <1>5, GivenToLeast
<1>7. TypeOK' /\ IsFiniteSet(cfg'.Groups)
  BY <1>1, <1>3, <1>6 DEF TypeOK
<1>8. Rebalancing'
  <2>1. Allocated(cfg')
    BY <1>3, <1>6 DEF Allocated
  <2> QED BY <1>1, <1>3, <1>6, <2>1 DEF Rebalancing, Wanted, Allocated
<1>9. ASSUME Allocated(old), Balanced(old) PROVE Even' /\ FewMoves'
  <2>1. Even /\ FewMoves
    BY <1>1, <1>3, <1>9 DEF Steady
  <2>2. lg \notin old.Groups
    <3>1. ASSUME lg \in old.Groups PROVE FALSE
      <4>1. Load(cfg.Shards, mg) <= Load(cfg.Shards, lg) + 1
        BY <2>1, <3>1 DEF Even
      <4> QED BY <1>4, <4>1
    <3> QED BY <3>1
  <2>3. Even'
    <3>1. SUFFICES ASSUME NEW g \in cfg.Groups, NEW h \in cfg.Groups \cap old.Groups
                   PROVE  Load(cfg'.Shards, g) <= Load(cfg'.Shards, h) + 1
      BY <1>1, <1>6 DEF Even
    <3>2. /\ Load(cfg.Shards, g) \in Nat /\ Load(cfg.Shards, h) \in Nat
          /\ Load(cfg.Shards, g) <= Load(cfg.Shards, h) + 1
      BY <2>1, <3>1, LoadType DEF Even
    <3>3. /\ Load(cfg.Shards, lg) <= Load(cfg.Shards, h)
          /\ Load(cfg.Shards, g) <= Load(cfg.Shards, mg)
      BY <1>2, <3>1, MostLeast
    <3>4. Load(cfg'.Shards, h) = IF h = mg THEN Load(cfg.Shards, h) - 1 ELSE Load(cfg.Shards, h)
      BY <1>2, <1>6, <2>2, <3>1 DEF MovedLoad
    <3>5. Load(cfg'.Shards, g) = IF g = lg THEN Load(cfg.Shards, g) + 1
                                 ELSE IF g = mg THEN Load(cfg.Shards, g) - 1
                                 ELSE Load(cfg.Shards, g)
      BY <1>2, <1>6 DEF MovedLoad
    <3>6. CASE h = mg
      BY <1>4, <3>2, <3>3, <3>4, <3>5, <3>6
    <3>7. CASE h # mg
      BY <1>4, <3>2, <3>3, <3>4, <3>5, <3>7
    <3> QED BY <3>6, <3>7
  <2>4. FewMoves'
    BY <1>1, <1>6, <2>1, <2>2 DEF FewMoves
  <2> QED BY <2>3, <2>4
<1>10. Steady'
  BY <1>1, <1>9 DEF Steady, Allocated, Balanced
<1> QED BY <1>1, <1>7, <1>8, <1>10 DEF ShardInv, Looping, SuccessChecksOut, NobodyServes,
                                       OnlyNeededMoves

\* The fullest and the emptiest group differ by one at most: so do any two.
LEMMA RebalancedInv ==
  ASSUME ShardInv, Rebalanced
  PROVE  ShardInv'
<1>1. /\ pc = "move" /\ pc' = "ready" /\ ok' = TRUE
      /\ cfg' = cfg /\ old' = old /\ op' = op /\ i' = i
  BY DEF Rebalanced, Return
<1>2. PICK mg \in cfg.Groups, lg \in cfg.Groups : Most(mg) /\ Least(lg) /\ Enough(mg, lg)
  BY DEF Rebalanced
<1>3. /\ TypeOK /\ IsFiniteSet(cfg.Groups) /\ Steady /\ Allocated(cfg) /\ cfg.Groups # {}
      /\ cfg.Groups = Wanted /\ cfg.Num = old.Num + 1
  BY <1>1 DEF ShardInv, TypeOK, Rebalancing
<1>4. Balanced(cfg)
  <2>1. ASSUME NEW g \in cfg.Groups, NEW h \in cfg.Groups
        PROVE  Load(cfg.Shards, g) <= Load(cfg.Shards, h) + 1
    <3>1. /\ Load(cfg.Shards, g) \in Nat /\ Load(cfg.Shards, h) \in Nat
          /\ Load(cfg.Shards, mg) \in Nat /\ Load(cfg.Shards, lg) \in Nat
      BY LoadType
    <3>2. Load(cfg.Shards, g) <= Load(cfg.Shards, mg) /\ Load(cfg.Shards, lg) <= Load(cfg.Shards, h)
      BY <1>2, MostLeast
    <3>3. Load(cfg.Shards, mg) < Load(cfg.Shards, lg) + 2
      BY <1>2, CountIsLoad DEF Enough
    <3> QED BY <3>1, <3>2, <3>3
  <2> QED BY <2>1, CountIsLoad
<1>5. SuccessChecksOut'
  BY <1>1, <1>3, <1>4 DEF SuccessChecksOut, CheckConfig, Wanted, Allocated, Balanced
<1>6. OnlyNeededMoves'
  <2>1. SUFFICES ASSUME Allocated(old), Balanced(old), NEW s \in Shard,
                        cfg.Shards[s] # old.Shards[s]
                 PROVE  (IF op.name = "join" THEN cfg.Shards[s] ELSE old.Shards[s]) \in Range(op.gids)
    BY <1>1 DEF OnlyNeededMoves, Allocated, Balanced
  <2>2. old.Shards[s] \notin cfg.Groups \/ cfg.Shards[s] \in cfg.Groups \ old.Groups
    BY <1>1, <1>3, <2>1 DEF Steady, FewMoves
  <2>3. old.Shards[s] \in old.Groups
    BY <2>1 DEF Allocated
  <2> QED BY <1>3, <2>2, <2>3 DEF Wanted
<1> QED BY <1>1, <1>3, <1>5, <1>6 DEF ShardInv, TypeOK, Looping, Rebalancing, Steady, NobodyServes

-----------------------------------------------------------------------------
(* THEOREMS *)

LEMMA ShardInvariant == Spec => []ShardInv
<1>1. Init => ShardInv
  BY InitShardInv
<1>2. ShardInv /\ [Next]_vars => ShardInv'
  <2>1. ASSUME ShardInv, Start PROVE ShardInv'
    BY <2>1, BeginInv DEF Start, JoinBalance, LeaveBalance
  <2>2. ASSUME ShardInv, Step PROVE ShardInv'
    BY <2>2, RejectedInv, JoinLeaveInv, ChangedInv, UnassignInv, AssignInv, AssignedInv, MoveInv,
       RebalancedInv DEF Step
  <2> QED BY <2>1, <2>2, StutterInv DEF Next
<1> QED BY <1>1, <1>2, PTL DEF Spec

\* The fields of a ShardConfig keep their types, and Rebalance()'s loops run only while
\* there is a group to give shards to.
THEOREM ConfigTypes == Spec => []TypeOK
<1>1. ShardInv => TypeOK
  BY DEF ShardInv
<1> QED BY <1>1, ShardInvariant, PTL

\* Every JoinBalance() and LeaveBalance() that returns true leaves a configuration that
\* CheckConfig() accepts, with the number that comes next, whatever calls were rejected
\* half-way before it.
THEOREM SuccessIsChecked == Spec => []SuccessChecksOut
<1>1. ShardInv => SuccessChecksOut
  BY DEF ShardInv
<1> QED BY <1>1, ShardInvariant, PTL

\* After a call that returned true every group has a shard, while there are shards enough,
\* and no shard is with a group that is not there.
THEOREM MembersServe == Spec => []MembersHaveShards
<1>1. ASSUME ShardInv PROVE MembersHaveShards
  <2>1. SUFFICES ASSUME pc = "ready", ok
                 PROVE  /\ Cardinality(cfg.Groups) <= NShards => \A g \in cfg.Groups : IsMember(g)
                        /\ \A g \in Gid \ cfg.Groups : ~IsMember(g)
    BY DEF MembersHaveShards
  <2>2. /\ cfg \in Config /\ IsFiniteSet(cfg.Groups) /\ Balanced(cfg)
        /\ cfg.Groups # {} => Allocated(cfg)
        /\ cfg.Groups = {} => \A s \in Shard : cfg.Shards[s] = 0
    BY <1>1, <2>1 DEF ShardInv, TypeOK, SuccessChecksOut, CheckConfig, NobodyServes
  <2>3. ASSUME Cardinality(cfg.Groups) <= NShards, NEW g \in cfg.Groups PROVE IsMember(g)
    <3>1. cfg.Shards \in [Shard -> cfg.Groups]
      BY <2>2, <2>3 DEF Config, Allocated
    <3>2. \A a, b \in cfg.Groups : Load(cfg.Shards, a) <= Load(cfg.Shards, b) + 1
      BY <2>2, CountIsLoad
    <3> QED BY <2>2, <2>3, <3>1, <3>2, EveryGroupHasOne DEF IsMember
  <2>4. ASSUME NEW g \in Gid \ cfg.Groups PROVE ~IsMember(g)
    <3>1. g # 0
      BY ShardCfgAssumption
    <3> QED BY <2>2, <3>1 DEF IsMember, Allocated
  <2> QED BY <2>3, <2>4
<1> QED BY <1>1, ShardInvariant, PTL

\* From a balanced configuration Rebalance() takes no shard from a group that stays, but
\* to give it to one that joins.
THEOREM FewShardsMove == Spec => []OnlyNeededMoves
<1>1. ShardInv => OnlyNeededMoves
  BY DEF ShardInv
<1> QED BY <1>1, ShardInvariant, PTL
=============================================================================

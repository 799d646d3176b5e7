------------------------------ MODULE KVProofs ------------------------------
(***************************************************************************)
(* Theorems about the key/value Clerk and the lock built on it, for any    *)
(* number of clients, keys, values and versions: Clerk and server together *)
(* implement KVService, Acquire() and Release() implement MutexService.    *)
(***************************************************************************)
EXTENDS Lock, TLAPS

-----------------------------------------------------------------------------
(* THE CLERK AND THE SERVER *)

Entry     == [value: Value \cup {NoValue}, version: Nat]
ReplyType == [err: {"pending", "OK", "ErrNoKey", "ErrVersion", "ErrMaybe"},
              value: Value \cup {NoValue}, version: Nat]
ClerkType == [at: {"idle", "call", "reply"}, op: {"none", "Get", "Put"}, key: Key \cup {"none"},
              value: Value \cup {NoValue}, version: Nat, retried: BOOLEAN, reply: ReplyType]

\* The values the server's map and a Clerk's local variables may hold.
KVType ==
    /\ data \in [Key -> Entry]
    /\ clerk \in [Client -> ClerkType]
    /\ performed \in [Client -> BOOLEAN]

\* A Clerk that waits has an operation and a key.
Busy(c) ==
    IF clerk[c].at = "idle"
      THEN clerk[c].op = "none" /\ ~performed[c]
      ELSE clerk[c].op \in {"Get", "Put"} /\ clerk[c].key \in Key

\* What a reply on its way to a Get looks like.
GetAnswered(c) ==
    clerk[c].at = "reply" /\ clerk[c].op = "Get" =>
        /\ ~performed[c]
        /\ clerk[c].reply.err \in {"OK", "ErrNoKey"}
        /\ clerk[c].reply.err = "ErrNoKey" => clerk[c].reply = Reply("ErrNoKey", NoValue, 0)

\* A Put is performed at most once: once it is, the key's version is past the one it
\* names, so that sending it again is answered with ErrVersion, which Put() turns into
\* ErrMaybe.
PutAnswered(c) ==
    LET me == clerk[c]
    IN  /\ performed[c] => /\ me.op = "Put" /\ me.at # "idle"
                           /\ data[me.key].version > me.version
                           /\ me.at = "call" => me.retried
        /\ me.at = "reply" /\ me.op = "Put" =>
              /\ me.reply \in {Reply(err, NoValue, 0) : err \in {"OK", "ErrNoKey", "ErrVersion"}}
              /\ performed[c] => me.reply.err = "OK" \/ (me.reply.err = "ErrVersion" /\ me.retried)
              /\ me.reply.err = "OK" => performed[c]

\* A Clerk waiting for its server holds no reply, and a key that does not exist no value.
NothingYet(c) == clerk[c].at = "call" => clerk[c].reply = NoReply
NoKeyNoValue  == \A k \in Key : data[k].version = 0 => data[k].value = NoValue

KVInv ==
    /\ KVType
    /\ NoKeyNoValue
    /\ \A c \in Client : Busy(c) /\ GetAnswered(c) /\ PutAnswered(c) /\ NothingYet(c)

\* Versions of keys never go back: what Put's version check rests on.
VersionsGrow == \A k \in Key : data'[k].version >= data[k].version

-----------------------------------------------------------------------------
(* STEPS SHARED BY KV AND LOCK *)

\* What a well-typed client has in its Clerk.
LEMMA ClerkFields ==
  ASSUME KVType, NEW c \in Client
  PROVE  /\ clerk[c] \in ClerkType
         /\ clerk[c].at \in {"idle", "call", "reply"}
         /\ clerk[c].op \in {"none", "Get", "Put"}
         /\ clerk[c].value \in Value \cup {NoValue}
         /\ clerk[c].version \in Nat
         /\ clerk[c].retried \in BOOLEAN
         /\ clerk[c].reply \in ReplyType
         /\ performed[c] \in BOOLEAN
BY DEF KVType, ClerkType

\* A step of client c's Clerk alone, which leaves the server's map as it is.
LEMMA ClerkStep ==
  ASSUME KVInv, NEW c \in Client, NEW me \in ClerkType, NEW p \in BOOLEAN,
         clerk' = [clerk EXCEPT ![c] = me], performed' = [performed EXCEPT ![c] = p],
         UNCHANGED data,
         Busy(c)', GetAnswered(c)', PutAnswered(c)', NothingYet(c)'
  PROVE  KVInv' /\ VersionsGrow
<1>1. KVType'
  BY DEF KVInv, KVType
<1>2. NoKeyNoValue' /\ VersionsGrow
  BY DEF KVInv, KVType, NoKeyNoValue, VersionsGrow, Entry
<1>3. ASSUME NEW d \in Client PROVE (Busy(d) /\ GetAnswered(d) /\ PutAnswered(d) /\ NothingYet(d))'
  <2>1. CASE d = c
    BY <2>1
  <2>2. CASE d # c
    <3>1. clerk'[d] = clerk[d] /\ performed'[d] = performed[d]
      BY <2>2 DEF KVInv, KVType
    <3> QED BY <3>1 DEF KVInv, Busy, GetAnswered, PutAnswered, NothingYet
  <2> QED BY <2>1, <2>2
<1> QED BY <1>1, <1>2, <1>3 DEF KVInv

\* Clerk.Get() and Clerk.Put() up to their first call, whatever the Clerk did before.
LEMMA SendGetInv ==
  ASSUME KVInv, NEW c \in Client, NEW key \in Key, SendGet(c, key), UNCHANGED data
  PROVE  KVInv' /\ VersionsGrow
<1> DEFINE me == [Idle(NoReply) EXCEPT !.at = "call", !.op = "Get", !.key = key]
<1>1. /\ me \in ClerkType /\ me.at = "call" /\ me.op = "Get" /\ me.key = key
      /\ me.reply = NoReply
  BY DEF ClerkType, ReplyType, Idle, NoReply, Reply
<1>2. clerk' = [clerk EXCEPT ![c] = me] /\ performed' = [performed EXCEPT ![c] = FALSE]
  BY DEF SendGet
<1> HIDE DEF me
<1>3. clerk'[c] = me /\ performed'[c] = FALSE
  BY <1>2 DEF KVInv, KVType
<1>4. (Busy(c) /\ GetAnswered(c) /\ PutAnswered(c) /\ NothingYet(c))'
  BY <1>1, <1>3 DEF Busy, GetAnswered, PutAnswered, NothingYet
<1> QED BY <1>1, <1>2, <1>4, ClerkStep

LEMMA SendPutInv ==
  ASSUME KVInv, NEW c \in Client, NEW key \in Key, NEW value \in Value \cup {NoValue},
         NEW version \in Nat, SendPut(c, key, value, version), UNCHANGED data
  PROVE  KVInv' /\ VersionsGrow
<1> DEFINE me == [Idle(NoReply) EXCEPT !.at = "call", !.op = "Put", !.key = key,
                                       !.value = value, !.version = version]
<1>1. /\ me \in ClerkType /\ me.at = "call" /\ me.op = "Put" /\ me.key = key
      /\ me.reply = NoReply
  BY DEF ClerkType, ReplyType, Idle, NoReply, Reply
<1>2. clerk' = [clerk EXCEPT ![c] = me] /\ performed' = [performed EXCEPT ![c] = FALSE]
  BY DEF SendPut
<1> HIDE DEF me
<1>3. clerk'[c] = me /\ performed'[c] = FALSE
  BY <1>2 DEF KVInv, KVType
<1>4. (Busy(c) /\ GetAnswered(c) /\ PutAnswered(c) /\ NothingYet(c))'
  BY <1>1, <1>3 DEF Busy, GetAnswered, PutAnswered, NothingYet
<1> QED BY <1>1, <1>2, <1>4, ClerkStep

\* The Clerk's operation ends; reply is what it returned, if anyone looks at it.
LEMMA IdleInv ==
  ASSUME KVInv, NEW c \in Client, NEW reply \in ReplyType, UNCHANGED data,
         clerk' = [clerk EXCEPT ![c] = Idle(reply)],
         performed' = [performed EXCEPT ![c] = FALSE]
  PROVE  KVInv' /\ VersionsGrow
<1>1. Idle(reply) \in ClerkType /\ Idle(reply).at = "idle" /\ Idle(reply).op = "none"
  BY DEF ClerkType, Idle
<1>2. clerk'[c] = Idle(reply) /\ performed'[c] = FALSE
  BY DEF KVInv, KVType
<1>3. (Busy(c) /\ GetAnswered(c) /\ PutAnswered(c) /\ NothingYet(c))'
  BY <1>1, <1>2 DEF Busy, GetAnswered, PutAnswered, NothingYet
<1> QED BY <1>1, <1>3, ClerkStep

LEMMA CallFailsInv ==
  ASSUME KVInv, NEW c \in Client, CallFails(c)
  PROVE  KVInv' /\ VersionsGrow
<1> DEFINE me == [clerk[c] EXCEPT !.at = "call", !.reply = NoReply, !.retried = clerk[c].op = "Put"]
<1>0. clerk[c] \in ClerkType /\ clerk[c].op \in {"Get", "Put"} /\ clerk[c].key \in Key
  BY ClerkFields DEF KVInv, Busy, CallFails
<1>1. /\ me \in ClerkType /\ me.at = "call" /\ me.op = clerk[c].op /\ me.key = clerk[c].key
      /\ me.version = clerk[c].version /\ me.retried = (clerk[c].op = "Put")
      /\ me.reply = NoReply
  BY <1>0 DEF ClerkType, ReplyType, NoReply, Reply
<1>2. clerk' = [clerk EXCEPT ![c] = me] /\ performed' = performed /\ UNCHANGED data
  BY DEF CallFails, KVInv, KVType
<1> HIDE DEF me
<1>3. clerk'[c] = me /\ performed'[c] = performed[c] /\ performed[c] \in BOOLEAN
      /\ performed' = [performed EXCEPT ![c] = performed[c]]
  BY <1>2 DEF KVInv, KVType
<1>4. (Busy(c) /\ GetAnswered(c) /\ PutAnswered(c) /\ NothingYet(c))'
  BY <1>0, <1>1, <1>2, <1>3 DEF KVInv, Busy, GetAnswered, PutAnswered, NothingYet
<1> QED BY <1>1, <1>2, <1>3, <1>4, ClerkStep

LEMMA ServerGetInv ==
  ASSUME KVInv, NEW c \in Client, ServerGet(c)
  PROVE  KVInv' /\ VersionsGrow
<1> DEFINE r  == GetReply(data[clerk[c].key])
           me == [clerk[c] EXCEPT !.at = "reply", !.reply = r]
<1>0. /\ clerk[c] \in ClerkType /\ clerk[c].op = "Get" /\ clerk[c].key \in Key
      /\ data[clerk[c].key] \in Entry /\ ~performed[c]
  BY ClerkFields DEF KVInv, KVType, Busy, ServerGet, PutAnswered
<1>1. r \in ReplyType /\ r.err \in {"OK", "ErrNoKey"}
      /\ (r.err = "ErrNoKey" => r = Reply("ErrNoKey", NoValue, 0))
  BY <1>0 DEF GetReply, ReplyType, Reply, Entry
<1> HIDE DEF r
<1>2. /\ me \in ClerkType /\ me.at = "reply" /\ me.op = "Get" /\ me.key = clerk[c].key
      /\ me.reply = r
  BY <1>0, <1>1 DEF ClerkType
<1>3. clerk' = [clerk EXCEPT ![c] = me] /\ performed' = performed /\ UNCHANGED data
  BY DEF ServerGet, KVInv, KVType, r
<1> HIDE DEF me
<1>4. clerk'[c] = me /\ performed'[c] = performed[c] /\ performed[c] \in BOOLEAN
      /\ performed' = [performed EXCEPT ![c] = performed[c]]
  BY <1>3 DEF KVInv, KVType
<1>5. (Busy(c) /\ GetAnswered(c) /\ PutAnswered(c) /\ NothingYet(c))'
  BY <1>0, <1>1, <1>2, <1>4 DEF Busy, GetAnswered, PutAnswered, NothingYet
<1> QED BY <1>2, <1>3, <1>4, <1>5, ClerkStep

\* What ServerPut does, with the cases of PutErr spelled out.
LEMMA ServerPutFacts ==
  ASSUME KVInv, NEW c \in Client, ServerPut(c)
  PROVE  LET e   == data[clerk[c].key]
             err == PutErr(e, clerk[c].version)
         IN  /\ clerk[c].at = "call" /\ clerk[c].op = "Put" /\ clerk[c].key \in Key
             /\ e \in Entry
             /\ err \in {"OK", "ErrNoKey", "ErrVersion"}
             /\ err = "OK" <=> e.version = clerk[c].version
             /\ performed[c] => err = "ErrVersion" /\ clerk[c].retried
             /\ clerk' = [clerk EXCEPT ![c] = [clerk[c] EXCEPT !.at = "reply",
                                                               !.reply = Reply(err, NoValue, 0)]]
             /\ clerk'[c] = [clerk[c] EXCEPT !.at = "reply", !.reply = Reply(err, NoValue, 0)]
             /\ clerk'[c] \in ClerkType
             /\ IF err = "OK"
                  THEN /\ data' = [data EXCEPT ![clerk[c].key] =
                                     [value |-> clerk[c].value, version |-> e.version + 1]]
                       /\ performed' = [performed EXCEPT ![c] = TRUE]
                  ELSE data' = data /\ performed' = performed
<1> DEFINE e   == data[clerk[c].key]
           err == PutErr(e, clerk[c].version)
           me  == [clerk[c] EXCEPT !.at = "reply", !.reply = Reply(err, NoValue, 0)]
<1>0. /\ clerk[c] \in ClerkType /\ clerk[c].version \in Nat
      /\ clerk[c].at = "call" /\ clerk[c].op = "Put" /\ clerk[c].key \in Key
      /\ e \in Entry /\ e.version \in Nat
  BY ClerkFields DEF KVInv, KVType, Busy, ServerPut, Entry
<1>1. err \in {"OK", "ErrNoKey", "ErrVersion"} /\ (err = "OK" <=> e.version = clerk[c].version)
  BY <1>0 DEF PutErr
<1>2. performed[c] => err = "ErrVersion" /\ clerk[c].retried
  BY <1>0 DEF KVInv, PutAnswered, PutErr
<1>3. /\ clerk' = [clerk EXCEPT ![c] = me]
      /\ IF err = "OK"
           THEN /\ data' = [data EXCEPT ![clerk[c].key] =
                              [value |-> clerk[c].value, version |-> e.version + 1]]
                /\ performed' = [performed EXCEPT ![c] = TRUE]
           ELSE data' = data /\ performed' = performed
  BY <1>0 DEF ServerPut, KVInv, KVType
<1>4. me \in ClerkType
  <2>1. Reply(err, NoValue, 0) \in ReplyType
    BY <1>1 DEF Reply, ReplyType
  <2> HIDE DEF err
  <2> QED BY <1>0, <2>1 DEF ClerkType
<1>5. clerk'[c] = me
  BY <1>3 DEF KVInv, KVType
<1> QED BY <1>0, <1>1, <1>2, <1>3, <1>4, <1>5

LEMMA ServerPutInv ==
  ASSUME KVInv, NEW c \in Client, ServerPut(c)
  PROVE  KVInv' /\ VersionsGrow
<1> DEFINE key == clerk[c].key
           e   == data[key]
           err == PutErr(e, clerk[c].version)
           r   == Reply(err, NoValue, 0)
           me  == [clerk[c] EXCEPT !.at = "reply", !.reply = r]
<1>1. /\ clerk[c].at = "call" /\ clerk[c].op = "Put" /\ key \in Key
      /\ e \in Entry
      /\ err \in {"OK", "ErrNoKey", "ErrVersion"}
      /\ err = "OK" <=> e.version = clerk[c].version
      /\ performed[c] => err = "ErrVersion" /\ clerk[c].retried
      /\ clerk' = [clerk EXCEPT ![c] = me]
      /\ me \in ClerkType
      /\ IF err = "OK"
           THEN /\ data' = [data EXCEPT ![key] = [value |-> clerk[c].value, version |-> e.version + 1]]
                /\ performed' = [performed EXCEPT ![c] = TRUE]
           ELSE data' = data /\ performed' = performed
  BY ServerPutFacts
<1>2. /\ me.at = "reply" /\ me.op = "Put" /\ me.key = key /\ me.version = clerk[c].version
      /\ me.retried = clerk[c].retried /\ me.reply = r /\ r.err = err
  BY <1>1, ClerkFields DEF KVInv, ClerkType, Reply
<1>3. clerk[c].version \in Nat /\ clerk[c].value \in Value \cup {NoValue} /\ e.version \in Nat
  BY <1>1, ClerkFields DEF KVInv, Entry
<1> HIDE DEF me, err, r
<1>4. CASE err = "OK"
  <2> DEFINE f == [value |-> clerk[c].value, version |-> e.version + 1]
  <2>1. f \in Entry /\ f.version = e.version + 1
    BY <1>3 DEF Entry
  <2>2. data' = [data EXCEPT ![key] = f] /\ performed' = [performed EXCEPT ![c] = TRUE]
    BY <1>1, <1>4
  <2> HIDE DEF f, e, key
  <2>3. KVType'
    BY <1>1, <2>1, <2>2 DEF KVInv, KVType
  <2>4. data'[key] = f /\ (\A k \in Key \ {key} : data'[k] = data[k])
        /\ e = data[key]
    BY <1>1, <2>2 DEF KVInv, KVType, e
  <2>5. VersionsGrow /\ NoKeyNoValue'
    <3>1. \A k \in Key : data[k].version \in Nat
      BY DEF KVInv, KVType, Entry
    <3> QED BY <1>3, <2>1, <2>4, <3>1 DEF VersionsGrow, NoKeyNoValue, KVInv
  <2>6. ASSUME NEW d \in Client
        PROVE  (Busy(d) /\ GetAnswered(d) /\ PutAnswered(d) /\ NothingYet(d))'
    <3>1. CASE d = c
      <4>1. clerk'[c] = me /\ performed'[c] = TRUE
        BY <1>1, <2>2 DEF KVInv, KVType
      <4>2. data'[me.key].version > me.version
        BY <1>1, <1>2, <1>3, <1>4, <2>1, <2>4
      <4>3. r \in {Reply(x, NoValue, 0) : x \in {"OK", "ErrNoKey", "ErrVersion"}}
        BY <1>1 DEF r
      <4> QED BY <1>1, <1>2, <1>4, <3>1, <4>1, <4>2, <4>3
             DEF Busy, GetAnswered, PutAnswered, NothingYet
    <3>2. CASE d # c
      <4>1. clerk'[d] = clerk[d] /\ performed'[d] = performed[d]
        BY <1>1, <2>2, <3>2 DEF KVInv, KVType
      <4>2. Busy(d) /\ GetAnswered(d) /\ PutAnswered(d) /\ NothingYet(d)
        BY DEF KVInv
      <4>3. performed[d] => data'[clerk[d].key].version > clerk[d].version
        <5>1. \A k \in Key : data[k].version \in Nat /\ data'[k].version \in Nat
          BY <2>3 DEF KVInv, KVType, Entry
        <5>2. clerk[d].version \in Nat
          BY ClerkFields DEF KVInv
        <5> QED BY <2>5, <4>2, <5>1, <5>2 DEF VersionsGrow, PutAnswered, Busy
      <4> QED BY <4>1, <4>2, <4>3 DEF Busy, GetAnswered, PutAnswered, NothingYet
    <3> QED BY <3>1, <3>2
  <2> QED BY <2>3, <2>5, <2>6 DEF KVInv
<1>5. CASE err # "OK"
  <2>1. UNCHANGED data /\ performed' = performed
    BY <1>1, <1>5
  <2>2. clerk'[c] = me /\ performed'[c] = performed[c] /\ performed[c] \in BOOLEAN
        /\ performed' = [performed EXCEPT ![c] = performed[c]]
    BY <1>1, <2>1 DEF KVInv, KVType
  <2>3. r \in {Reply(x, NoValue, 0) : x \in {"OK", "ErrNoKey", "ErrVersion"}}
    BY <1>1 DEF r
  <2>4. (Busy(c) /\ GetAnswered(c) /\ PutAnswered(c) /\ NothingYet(c))'
    BY <1>1, <1>2, <1>5, <2>1, <2>2, <2>3 DEF KVInv, Busy, GetAnswered, PutAnswered, NothingYet
  <2> QED BY <1>1, <2>1, <2>2, <2>4, ClerkStep
<1> QED BY <1>4, <1>5

-----------------------------------------------------------------------------
(* KV IMPLEMENTS KVSERVICE *)

LEMMA KVInitInv == KVInit => KVInv
BY DEF KVInit, KVInv, KVType, Entry, ClerkType, ReplyType, NoReply, Reply, Idle, NoKeyNoValue,
       Busy, GetAnswered, PutAnswered, NothingYet

\* What Get() and Put() return is a reply.
LEMMA ResultType ==
  ASSUME KVInv, NEW c \in Client
  PROVE  /\ ResultOf(c) \in ReplyType
         /\ ResultOf(c) = [err |-> ErrOf(c), value |-> clerk[c].reply.value,
                           version |-> clerk[c].reply.version]
<1>1. clerk[c].reply \in ReplyType
  BY ClerkFields DEF KVInv
<1>2. ErrOf(c) \in {"pending", "OK", "ErrNoKey", "ErrVersion", "ErrMaybe"}
  BY <1>1 DEF ErrOf, ReplyType
<1> QED BY <1>1, <1>2 DEF ResultOf, ReplyType

LEMMA NetworkInv ==
  ASSUME KVInv, Network
  PROVE  KVInv' /\ VersionsGrow
BY ServerGetInv, ServerPutInv, CallFailsInv DEF Network

LEMMA KVNextInv ==
  ASSUME KVInv, [KVNext]_kvVars
  PROVE  KVInv' /\ VersionsGrow
<1>1. ASSUME NEW c \in Client, NEW key \in Key, Get(c, key) PROVE KVInv' /\ VersionsGrow
  BY <1>1, SendGetInv DEF Get
<1>2. ASSUME NEW c \in Client, NEW key \in Key, NEW value \in Value,
             NEW version \in 0 .. MaxVersion, Put(c, key, value, version)
      PROVE  KVInv' /\ VersionsGrow
  BY <1>2, SendPutInv DEF Put
<1>3. ASSUME NEW c \in Client, Return(c) PROVE KVInv' /\ VersionsGrow
  BY <1>3, IdleInv, ResultType DEF Return
<1>4. CASE Network
  BY <1>4, NetworkInv
<1>5. CASE UNCHANGED kvVars
  <2>1. UNCHANGED <<data, clerk, performed>>
    BY <1>5 DEF kvVars
  <2>2. KVInv'
    BY <2>1 DEF KVInv, KVType, NoKeyNoValue, Busy, GetAnswered, PutAnswered, NothingYet
  <2>3. VersionsGrow
    BY <2>1 DEF KVInv, KVType, Entry, VersionsGrow
  <2> QED BY <2>2, <2>3
<1> QED BY <1>1, <1>2, <1>3, <1>4, <1>5 DEF KVNext

\* The refinement mapping, by name.
Op(c) == [call |-> CallOf(clerk[c]),
          outcome |-> IF performed[c] THEN Reply("OK", NoValue, 0)
                      ELSE IF clerk[c].at = "reply" THEN clerk[c].reply ELSE NoReply]
Res(c) == IF clerk[c].at = "idle" THEN clerk[c].reply ELSE NoReply
OpMap  == [c \in Client |-> Op(c)]
ResMap == [c \in Client |-> Res(c)]

\* A step of one client changes only that client's part of the mapping.
LEMMA OneClientMaps ==
  ASSUME KVInv, NEW c \in Client, NEW me \in ClerkType, NEW p,
         clerk' = [clerk EXCEPT ![c] = me],
         performed' = [performed EXCEPT ![c] = p]
  PROVE  /\ OpMap' = [OpMap EXCEPT ![c] = Op(c)']
         /\ ResMap' = [ResMap EXCEPT ![c] = Res(c)']
         /\ clerk'[c] = me /\ performed'[c] = p
<1>1. \A d \in Client \ {c} : clerk'[d] = clerk[d] /\ performed'[d] = performed[d]
  BY DEF KVInv, KVType
<1>2. \A d \in Client \ {c} : Op(d)' = Op(d) /\ Res(d)' = Res(d)
  BY <1>1 DEF Op, Res
<1>3. OpMap' = [d \in Client |-> Op(d)'] /\ ResMap' = [d \in Client |-> Res(d)']
  BY DEF OpMap, ResMap
<1>4. clerk'[c] = me /\ performed'[c] = p
  BY DEF KVInv, KVType
<1> QED BY <1>2, <1>3, <1>4 DEF OpMap, ResMap

\* The actions of KVService under the mapping.
LEMMA IsInvoke ==
  ASSUME NEW c \in Client, NEW call \in Service!Call,
         OpMap[c].call = Service!NoOp,
         OpMap'[c].call = call,
         OpMap' = [OpMap EXCEPT ![c] = [call |-> call, outcome |-> Service!Pending]],
         ResMap' = [ResMap EXCEPT ![c] = Service!Pending],
         UNCHANGED data
  PROVE  Service!Invoke(c)
BY Zenon DEF Service!Invoke, OpMap, ResMap, Op, Res

LEMMA IsPerform ==
  ASSUME NEW c \in Client, NEW call, NEW out,
         call = OpMap[c].call, out = Service!Outcome(data[call.key], call),
         call # Service!NoOp, OpMap[c].outcome = Service!Pending,
         OpMap' = [OpMap EXCEPT ![c].outcome = out],
         data' = IF Service!Changes(call, out)
                   THEN [data EXCEPT ![call.key] = [value |-> call.value, version |-> @.version + 1]]
                   ELSE data,
         ResMap' = ResMap
  PROVE  Service!Perform(c)
BY Zenon DEF Service!Perform, OpMap, ResMap, Op, Res

LEMMA IsTryAgain ==
  ASSUME NEW c \in Client,
         OpMap[c].call # Service!NoOp, OpMap[c].outcome # Service!Pending,
         ~Service!Changes(OpMap[c].call, OpMap[c].outcome),
         OpMap' = [OpMap EXCEPT ![c].outcome = Service!Pending],
         UNCHANGED data, ResMap' = ResMap
  PROVE  Service!TryAgain(c)
BY Zenon DEF Service!TryAgain, OpMap, ResMap, Op, Res

LEMMA IsReturn ==
  ASSUME NEW c \in Client, NEW call, NEW out, NEW r,
         call = OpMap[c].call, out = OpMap[c].outcome,
         call # Service!NoOp, out # Service!Pending,
         r \in {out} \cup IF call.type = "Put" /\ out.err \in {"OK", "ErrVersion"}
                            THEN {[err |-> "ErrMaybe", value |-> NoValue, version |-> 0]} ELSE {},
         ResMap' = [ResMap EXCEPT ![c] = r],
         OpMap' = [OpMap EXCEPT ![c] = [call |-> Service!NoOp, outcome |-> Service!Pending]],
         UNCHANGED data
  PROVE  Service!Return(c)
BY Zenon DEF Service!Return, OpMap, ResMap, Op, Res

\* A Get() or Put() that starts is an operation invoked.
LEMMA InvokeStep ==
  ASSUME KVInv, NEW c \in Client, clerk[c].at = "idle", UNCHANGED data,
         \/ \E key \in Key : SendGet(c, key)
         \/ \E key \in Key, value \in Value \cup {NoValue}, version \in Nat :
               SendPut(c, key, value, version)
  PROVE  Service!Invoke(c)
<1>1. OpMap[c].call = Service!NoOp
  <2>1. clerk[c].op = "none"
    BY DEF KVInv, Busy
  <2> QED BY <2>1 DEF OpMap, Op, CallOf, Service!NoOp
<1>2. ASSUME NEW me \in ClerkType, NEW call \in Service!Call,
             clerk' = [clerk EXCEPT ![c] = me], performed' = [performed EXCEPT ![c] = FALSE],
             me.at = "call", CallOf(me) = call
      PROVE  Service!Invoke(c)
  <2>1. /\ OpMap' = [OpMap EXCEPT ![c] = Op(c)']
        /\ ResMap' = [ResMap EXCEPT ![c] = Res(c)']
        /\ clerk'[c] = me /\ performed'[c] = FALSE
    BY <1>2, OneClientMaps
  <2>2. Op(c)' = [call |-> call, outcome |-> Service!Pending] /\ Res(c)' = Service!Pending
    BY <1>2, <2>1 DEF Op, Res, NoReply, Reply, Service!Pending
  <2>3. OpMap'[c] = [call |-> call, outcome |-> Service!Pending]
    BY <2>1, <2>2 DEF OpMap
  <2>4. OpMap'[c].call = call
    BY <2>3
  <2> QED BY <1>1, <2>1, <2>2, <2>4, IsInvoke
<1>3. ASSUME NEW key \in Key, SendGet(c, key) PROVE Service!Invoke(c)
  <2> DEFINE me == [Idle(NoReply) EXCEPT !.at = "call", !.op = "Get", !.key = key]
  <2>1. me \in ClerkType /\ me.at = "call" /\ me.op = "Get" /\ me.key = key
    BY DEF ClerkType, ReplyType, Idle, NoReply, Reply
  <2>2. clerk' = [clerk EXCEPT ![c] = me] /\ performed' = [performed EXCEPT ![c] = FALSE]
    BY <1>3 DEF SendGet
  <2> HIDE DEF me
  <2>3. CallOf(me) \in Service!Call
    BY <2>1 DEF CallOf, Service!Call
  <2> QED BY <1>2, <2>1, <2>2, <2>3
<1>4. ASSUME NEW key \in Key, NEW value \in Value \cup {NoValue}, NEW version \in Nat,
             SendPut(c, key, value, version)
      PROVE  Service!Invoke(c)
  <2> DEFINE me == [Idle(NoReply) EXCEPT !.at = "call", !.op = "Put", !.key = key,
                                         !.value = value, !.version = version]
  <2>1. /\ me \in ClerkType /\ me.at = "call" /\ me.op = "Put" /\ me.key = key
        /\ me.value = value /\ me.version = version
    BY DEF ClerkType, ReplyType, Idle, NoReply, Reply
  <2>2. clerk' = [clerk EXCEPT ![c] = me] /\ performed' = [performed EXCEPT ![c] = FALSE]
    BY <1>4 DEF SendPut
  <2> HIDE DEF me
  <2>3. CallOf(me) \in Service!Call
    BY <2>1 DEF CallOf, Service!Call
  <2> QED BY <1>2, <2>1, <2>2, <2>3
<1> QED BY <1>3, <1>4

\* A Get takes effect when the server answers it.
LEMMA GetPerforms ==
  ASSUME KVInv, NEW c \in Client, ServerGet(c)
  PROVE  Service!Perform(c)
<1> DEFINE key == clerk[c].key
           r   == GetReply(data[key])
           me  == [clerk[c] EXCEPT !.at = "reply", !.reply = r]
           call == [type |-> "Get", key |-> key]
<1>0. /\ clerk[c] \in ClerkType /\ clerk[c].at = "call" /\ clerk[c].op = "Get" /\ key \in Key
      /\ data[key] \in Entry /\ ~performed[c] /\ clerk[c].reply = NoReply
  BY ClerkFields DEF KVInv, KVType, Busy, ServerGet, PutAnswered, NothingYet
<1>1. clerk' = [clerk EXCEPT ![c] = me] /\ performed' = [performed EXCEPT ![c] = FALSE]
      /\ UNCHANGED data
  BY <1>0 DEF ServerGet, KVInv, KVType
<1>2. /\ me \in ClerkType /\ me.at = "reply" /\ me.op = "Get" /\ me.key = key /\ me.reply = r
  <2>1. r \in ReplyType
    BY <1>0 DEF GetReply, ReplyType, Reply, Entry
  <2> HIDE DEF r
  <2> QED BY <1>0, <2>1 DEF ClerkType
<1>3. r = Service!Outcome(data[key], call)
  BY <1>0 DEF GetReply, Reply, Service!Outcome, Entry
<1> HIDE DEF me, r
<1>4. OpMap[c] = [call |-> call, outcome |-> Service!Pending] /\ Res(c) = NoReply
  BY <1>0 DEF OpMap, Op, Res, CallOf, NoReply, Reply, Service!Pending
<1>5. /\ OpMap' = [OpMap EXCEPT ![c] = Op(c)']
      /\ ResMap' = [ResMap EXCEPT ![c] = Res(c)']
      /\ clerk'[c] = me /\ performed'[c] = FALSE
  BY <1>1, <1>2, OneClientMaps
<1>6. Op(c)' = [call |-> call, outcome |-> r] /\ Res(c)' = NoReply
  BY <1>2, <1>5 DEF Op, Res, CallOf
<1>7. OpMap' = [OpMap EXCEPT ![c].outcome = r] /\ ResMap' = ResMap
  <2>1. [OpMap[c] EXCEPT !.outcome = r] = [call |-> call, outcome |-> r]
    BY <1>4
  <2>2. ResMap[c] = NoReply
    BY <1>4 DEF ResMap
  <2> QED BY <1>5, <1>6, <2>1, <2>2 DEF OpMap, ResMap
<1>8. call # Service!NoOp /\ ~Service!Changes(call, r)
  BY DEF Service!NoOp, Service!Changes
<1>9. OpMap[c].call = call /\ OpMap[c].outcome = Service!Pending /\ call.key = key
  BY <1>4
<1> HIDE DEF call, key
<1> QED BY <1>1, <1>3, <1>7, <1>8, <1>9, IsPerform

\* A Put takes effect when the server answers it for the first time; sent again after
\* that, it changes nothing.
LEMMA PutPerforms ==
  ASSUME KVInv, NEW c \in Client, ServerPut(c)
  PROVE  Service!Perform(c) \/ (OpMap' = OpMap /\ ResMap' = ResMap /\ data' = data)
<1> DEFINE key == clerk[c].key
           e   == data[key]
           err == PutErr(e, clerk[c].version)
           r   == Reply(err, NoValue, 0)
           me  == [clerk[c] EXCEPT !.at = "reply", !.reply = r]
           call == [type |-> "Put", key |-> key, value |-> clerk[c].value,
                    version |-> clerk[c].version]
<1>1. /\ clerk[c].at = "call" /\ clerk[c].op = "Put" /\ key \in Key
      /\ e \in Entry
      /\ err \in {"OK", "ErrNoKey", "ErrVersion"}
      /\ err = "OK" <=> e.version = clerk[c].version
      /\ performed[c] => err = "ErrVersion" /\ clerk[c].retried
      /\ clerk' = [clerk EXCEPT ![c] = me]
      /\ me \in ClerkType
      /\ IF err = "OK"
           THEN /\ data' = [data EXCEPT ![key] = [value |-> clerk[c].value, version |-> e.version + 1]]
                /\ performed' = [performed EXCEPT ![c] = TRUE]
           ELSE data' = data /\ performed' = performed
  BY ServerPutFacts
<1>2. /\ me.at = "reply" /\ me.op = "Put" /\ me.key = key /\ me.version = clerk[c].version
      /\ me.value = clerk[c].value /\ me.reply = r
      /\ clerk[c].reply = NoReply /\ performed[c] \in BOOLEAN
  BY <1>1, ClerkFields DEF KVInv, ClerkType, NothingYet
<1>3. r = Service!Outcome(e, call)
  BY <1>1, ClerkFields DEF KVInv, PutErr, Reply, Service!Outcome, Entry
<1>4. r.err = err /\ call.type = "Put" /\ call.key = key /\ call.value = clerk[c].value
      /\ call # Service!NoOp
  BY DEF Reply, Service!NoOp
<1> HIDE DEF me, r, err
<1>5. Op(c) = [call |-> call, outcome |-> IF performed[c] THEN Reply("OK", NoValue, 0)
                                          ELSE Service!Pending] /\ Res(c) = NoReply
  BY <1>1, <1>2 DEF Op, Res, CallOf, NoReply, Reply, Service!Pending
<1> DEFINE q == IF err = "OK" THEN TRUE ELSE performed[c]
<1>6. performed' = [performed EXCEPT ![c] = q]
  BY <1>1 DEF KVInv, KVType
<1> HIDE DEF q
<1>7. /\ OpMap' = [OpMap EXCEPT ![c] = Op(c)']
      /\ ResMap' = [ResMap EXCEPT ![c] = Res(c)']
      /\ clerk'[c] = me /\ performed'[c] = q
  BY <1>1, <1>6, OneClientMaps
<1>8. Op(c)' = [call |-> call, outcome |-> IF q THEN Reply("OK", NoValue, 0) ELSE r]
      /\ Res(c)' = NoReply
  BY <1>2, <1>7 DEF Op, Res, CallOf
<1>9. ResMap' = ResMap
  BY <1>5, <1>7, <1>8 DEF ResMap
<1> HIDE DEF call
<1>10. CASE performed[c]
  <2>1. Op(c)' = Op(c) /\ data' = data
    BY <1>1, <1>5, <1>8, <1>10 DEF q
  <2> QED BY <1>7, <1>9, <2>1 DEF OpMap
<1>11. CASE ~performed[c]
  <2>1. Op(c) = [call |-> call, outcome |-> Service!Pending]
    BY <1>5, <1>11
  <2>2. Op(c)' = [call |-> call, outcome |-> r]
    BY <1>8, <1>11 DEF q, r
  <2>3. /\ OpMap[c].call = call /\ OpMap[c].outcome = Service!Pending
        /\ OpMap' = [OpMap EXCEPT ![c].outcome = r]
    <3>1. [OpMap[c] EXCEPT !.outcome = r] = [call |-> call, outcome |-> r]
      BY <2>1 DEF OpMap
    <3>2. OpMap[c] = [call |-> call, outcome |-> Service!Pending]
      BY <2>1 DEF OpMap
    <3>3. OpMap' = [OpMap EXCEPT ![c].outcome = r]
      BY <1>7, <2>2, <3>1
    <3> QED BY <3>2, <3>3
  <2>4. data' = IF Service!Changes(call, r)
                  THEN [data EXCEPT ![call.key] = [value |-> call.value, version |-> @.version + 1]]
                  ELSE data
    BY <1>1, <1>4 DEF Service!Changes
  <2> QED BY <1>3, <1>4, <1>9, <2>3, <2>4, IsPerform
<1> QED BY <1>10, <1>11, <1>2

\* A lost call or reply lets an operation that changed nothing be tried again.
LEMMA FailTriesAgain ==
  ASSUME KVInv, NEW c \in Client, CallFails(c)
  PROVE  Service!TryAgain(c) \/ (OpMap' = OpMap /\ ResMap' = ResMap /\ data' = data)
<1> DEFINE me == [clerk[c] EXCEPT !.at = "call", !.reply = NoReply, !.retried = clerk[c].op = "Put"]
<1>0. clerk[c] \in ClerkType /\ clerk[c].op \in {"Get", "Put"} /\ clerk[c].at \in {"call", "reply"}
      /\ performed[c] \in BOOLEAN
  BY ClerkFields DEF KVInv, Busy, CallFails
<1>1. /\ me \in ClerkType /\ me.at = "call" /\ me.op = clerk[c].op /\ me.key = clerk[c].key
      /\ me.version = clerk[c].version /\ me.value = clerk[c].value /\ me.reply = NoReply
  BY <1>0 DEF ClerkType, ReplyType, NoReply, Reply
<1>2. /\ clerk' = [clerk EXCEPT ![c] = me] /\ data' = data
      /\ performed' = [performed EXCEPT ![c] = performed[c]]
  BY DEF CallFails, KVInv, KVType
<1> HIDE DEF me
<1>3. /\ OpMap' = [OpMap EXCEPT ![c] = Op(c)']
      /\ ResMap' = [ResMap EXCEPT ![c] = Res(c)']
      /\ clerk'[c] = me /\ performed'[c] = performed[c]
  BY <1>1, <1>2, OneClientMaps, ZenonT(40)
<1>4. CallOf(me) = CallOf(clerk[c])
  BY <1>0, <1>1 DEF CallOf
<1>5. Op(c)' = [call |-> CallOf(clerk[c]),
                outcome |-> IF performed[c] THEN Reply("OK", NoValue, 0) ELSE NoReply]
  BY <1>1, <1>3, <1>4 DEF Op
<1>6. ResMap' = ResMap
  BY <1>0, <1>1, <1>3 DEF ResMap, Res
<1>7. CASE performed[c] \/ clerk[c].at = "call"
  <2>1. Op(c)' = Op(c)
    BY <1>0, <1>5, <1>7 DEF Op
  <2> QED BY <1>2, <1>3, <1>6, <2>1 DEF OpMap
<1>8. CASE ~performed[c] /\ clerk[c].at = "reply"
  <2> DEFINE call == CallOf(clerk[c])
             r    == clerk[c].reply
  <2>1. OpMap[c] = [call |-> call, outcome |-> r]
    BY <1>8 DEF OpMap, Op
  <2>2. call # Service!NoOp /\ call.type = clerk[c].op
    BY <1>0 DEF CallOf, Service!NoOp
  <2>3. r.err # "pending" /\ (clerk[c].op = "Put" => r.err # "OK")
    <3>1. CASE clerk[c].op = "Get"
      BY <1>8, <3>1 DEF KVInv, GetAnswered
    <3>2. CASE clerk[c].op = "Put"
      <4>1. PICK x \in {"OK", "ErrNoKey", "ErrVersion"} : r = Reply(x, NoValue, 0)
        BY <1>8, <3>2 DEF KVInv, PutAnswered
      <4>2. r.err # "OK"
        BY <1>8, <3>2 DEF KVInv, PutAnswered
      <4> QED BY <4>1, <4>2 DEF Reply
    <3> QED BY <1>0, <3>1, <3>2
  <2>4. r # Service!Pending /\ Service!Pending = NoReply
    BY <2>3 DEF Service!Pending, NoReply, Reply
  <2>5. ~Service!Changes(call, r)
    BY <2>2, <2>3 DEF Service!Changes
  <2> HIDE DEF call, r
  <2>6. OpMap' = [OpMap EXCEPT ![c].outcome = Service!Pending]
    <3>1. [OpMap[c] EXCEPT !.outcome = Service!Pending] = [call |-> call, outcome |-> Service!Pending]
      BY <2>1
    <3>2. Op(c)' = [call |-> call, outcome |-> Service!Pending]
      BY <1>5, <1>8, <2>4 DEF call
    <3> QED BY <1>3, <3>1, <3>2
  <2>7. OpMap[c].call = call /\ OpMap[c].outcome = r
    BY <2>1
  <2> QED BY <1>2, <1>6, <2>2, <2>4, <2>5, <2>6, <2>7, IsTryAgain
<1> QED BY <1>0, <1>7, <1>8

\* What Get() or Put() returns is the outcome, or ErrMaybe for a Put that was performed
\* or that met another version.
LEMMA ReturnReturns ==
  ASSUME KVInv, NEW c \in Client, Return(c)
  PROVE  Service!Return(c)
<1> DEFINE call == CallOf(clerk[c])
           r    == ResultOf(c)
           out  == IF performed[c] THEN Reply("OK", NoValue, 0) ELSE clerk[c].reply
           maybe == [err |-> "ErrMaybe", value |-> NoValue, version |-> 0]
<1>0. /\ clerk[c] \in ClerkType /\ clerk[c].op \in {"Get", "Put"} /\ clerk[c].at = "reply"
      /\ performed[c] \in BOOLEAN /\ clerk[c].reply \in ReplyType
  BY ClerkFields DEF KVInv, Busy, Return, Returns
<1>1. /\ clerk' = [clerk EXCEPT ![c] = Idle(r)] /\ UNCHANGED data
      /\ performed' = [performed EXCEPT ![c] = FALSE]
  BY DEF Return
<1>2. r \in ReplyType /\ r = [err |-> ErrOf(c), value |-> clerk[c].reply.value,
                              version |-> clerk[c].reply.version]
  BY ResultType
<1>3. OpMap[c] = [call |-> call, outcome |-> out]
  BY <1>0 DEF OpMap, Op
<1>4. call # Service!NoOp /\ call.type = clerk[c].op
  BY <1>0 DEF CallOf, Service!NoOp
<1>5. /\ out # Service!Pending
      /\ r \in {out} \cup IF call.type = "Put" /\ out.err \in {"OK", "ErrVersion"}
                            THEN {maybe} ELSE {}
  <2>1. CASE clerk[c].op = "Get"
    <3>1. ~performed[c] /\ clerk[c].reply.err \in {"OK", "ErrNoKey"}
      BY <1>0, <2>1 DEF KVInv, GetAnswered
    <3>2. ErrOf(c) = clerk[c].reply.err
      BY <2>1 DEF ErrOf
    <3>3. r = clerk[c].reply
      BY <1>0, <1>2, <3>2 DEF ReplyType
    <3>4. out = clerk[c].reply /\ out.err # "pending"
      BY <3>1
    <3>5. out # Service!Pending
      BY <3>4 DEF Service!Pending
    <3> QED BY <3>3, <3>4, <3>5
  <2>2. CASE clerk[c].op = "Put"
    <3>1. PICK x \in {"OK", "ErrNoKey", "ErrVersion"} : clerk[c].reply = Reply(x, NoValue, 0)
      BY <1>0, <2>2 DEF KVInv, PutAnswered
    <3>2. /\ performed[c] => x = "OK" \/ (x = "ErrVersion" /\ clerk[c].retried)
          /\ x = "OK" => performed[c]
      BY <1>0, <2>2, <3>1 DEF KVInv, PutAnswered, Reply
    <3>3. r = IF x = "ErrVersion" /\ clerk[c].retried THEN maybe ELSE Reply(x, NoValue, 0)
      BY <1>2, <2>2, <3>1 DEF ErrOf, Reply
    <3>4. out = IF performed[c] THEN Reply("OK", NoValue, 0) ELSE Reply(x, NoValue, 0)
      BY <3>1
    <3>5. out # Service!Pending
      BY <3>4 DEF Service!Pending, Reply
    <3> QED BY <1>0, <1>4, <2>2, <3>2, <3>3, <3>4, <3>5 DEF Reply
  <2> QED BY <1>0, <2>1, <2>2
<1> HIDE DEF call, r, out
<1>6. /\ OpMap' = [OpMap EXCEPT ![c] = Op(c)']
      /\ ResMap' = [ResMap EXCEPT ![c] = Res(c)']
      /\ clerk'[c] = Idle(r) /\ performed'[c] = FALSE
  <2>1. Idle(r) \in ClerkType
    BY <1>2 DEF Idle, ClerkType
  <2> QED BY <1>1, <2>1, OneClientMaps
<1>7. Op(c)' = [call |-> Service!NoOp, outcome |-> Service!Pending] /\ Res(c)' = r
  BY <1>6 DEF Op, Res, CallOf, Idle, NoReply, Reply, Service!NoOp, Service!Pending
<1>8. OpMap[c].call = call /\ OpMap[c].outcome = out
  BY <1>3
<1> QED BY <1>1, <1>4, <1>5, <1>6, <1>7, <1>8, IsReturn

\* Every step of clerks, network and server is a step of the service or changes nothing
\* of it.
LEMMA KVStepRefines ==
  ASSUME KVInv, [KVNext]_kvVars
  PROVE  [Service!Next]_(Service!vars)
<1>1. ASSUME OpMap' = OpMap, ResMap' = ResMap, data' = data PROVE UNCHANGED Service!vars
  BY <1>1, Zenon DEF Service!vars, OpMap, ResMap, Op, Res
<1>2. ASSUME NEW c \in Client, NEW key \in Key, Get(c, key) PROVE Service!Invoke(c)
  BY <1>2, InvokeStep DEF Get
<1>3. ASSUME NEW c \in Client, NEW key \in Key, NEW value \in Value,
             NEW version \in 0 .. MaxVersion, Put(c, key, value, version)
      PROVE  Service!Invoke(c)
  <2>1. version \in Nat /\ value \in Value \cup {NoValue}
    OBVIOUS
  <2> QED BY <1>3, <2>1, InvokeStep DEF Put
<1>4. ASSUME NEW c \in Client, ServerGet(c) \/ ServerPut(c) \/ CallFails(c) \/ Return(c)
      PROVE  \/ Service!Perform(c) \/ Service!TryAgain(c) \/ Service!Return(c)
             \/ UNCHANGED Service!vars
  BY <1>1, <1>4, GetPerforms, PutPerforms, FailTriesAgain, ReturnReturns
<1>5. CASE UNCHANGED kvVars
  BY <1>5, Zenon DEF kvVars, Service!vars
<1> QED BY <1>2, <1>3, <1>4, <1>5, Zenon DEF KVNext, Network, Service!Next

\* Clerk and server together are the key/value service, for any number of clerks, keys
\* and versions and however often calls and replies are lost: a Put is performed at most
\* once, and a definite answer says what really happened.
THEOREM ClerkIsService == KVSpec => ServiceImplemented
<1>1. KVInit => KVInv
  BY KVInitInv
<1>2. KVInv /\ [KVNext]_kvVars => KVInv'
  BY KVNextInv
<1>3. KVInit => Service!Init
  BY DEF KVInit, Service!Init, CallOf, Idle, NoReply, Reply, Service!NoOp, Service!Pending
<1>4. KVInv /\ [KVNext]_kvVars => [Service!Next]_(Service!vars)
  BY KVStepRefines
<1> QED BY <1>1, <1>2, <1>3, <1>4, PTL DEF KVSpec, ServiceImplemented, Service!Spec

-----------------------------------------------------------------------------
(* THE LOCK *)

Getting == {"acquireGet", "acquireCheck", "releaseGet", "releaseCheck"}
Putting == {"acquirePut", "releasePut"}

\* The operation that a client waits for, by where it is.
Waits(c) ==
    LET me == clerk[c]
    IN  /\ pc[c] \in {"out", "holding"} \cup Getting \cup Putting
        /\ pc[c] \in {"out", "holding"} => me.at = "idle"
        /\ pc[c] \in Getting => me.at # "idle" /\ me.op = "Get" /\ me.key = LockName
        /\ pc[c] \in Putting => me.at # "idle" /\ me.op = "Put" /\ me.key = LockName
        /\ pc[c] = "acquirePut" => me.value = c
        /\ pc[c] = "releasePut" => me.value = NoValue

\* Whether the server has the lock in the hands of a client, by where the client is.
\* After an ErrMaybe in Acquire() the client cannot know.
Owns(c) ==
    LET holder == data[LockName].value
    IN  /\ pc[c] \in {"out", "acquireGet", "releaseCheck"} => holder # c
        /\ pc[c] \in {"holding", "releaseGet"} => holder = c
        /\ pc[c] = "acquirePut" => (holder = c <=> performed[c])
        /\ pc[c] = "releasePut" => (holder = c <=> ~performed[c])

\* What a client has seen of the lock, and in which sense it is still true.
Seen(c) ==
    LET me == clerk[c]
        e  == data[LockName]
        answered == me.at = "reply"
    IN  /\ pc[c] = "acquireGet" /\ answered =>
              /\ me.reply.version =< e.version
              /\ me.reply.version = e.version => me.reply.value = e.value
        /\ pc[c] = "acquirePut" /\ ~performed[c] =>
              /\ me.version =< e.version
              /\ me.version = e.version => e.value = NoValue
        /\ pc[c] = "acquireCheck" /\ answered => (Mine(c, me.reply) <=> e.value = c)
        /\ pc[c] = "releaseGet" /\ answered => me.reply = Reply("OK", c, e.version)
        /\ pc[c] = "releasePut" => /\ ~performed[c] => me.version = e.version
                                   /\ answered => performed[c]
        /\ pc[c] = "releaseCheck" /\ answered => ~Mine(c, me.reply)

LockInv ==
    /\ KVInv
    /\ pc \in [Client -> {"out", "holding"} \cup Getting \cup Putting]
    /\ \A c \in Client : Waits(c) /\ Owns(c) /\ Seen(c)

\* A step of client c that leaves the server alone.
LEMMA LockClientStep ==
  ASSUME LockInv, KVInv', NEW c \in Client, NEW me, NEW p, NEW label,
         clerk' = [clerk EXCEPT ![c] = me], performed' = [performed EXCEPT ![c] = p],
         pc' = [pc EXCEPT ![c] = label], UNCHANGED data,
         (Waits(c) /\ Owns(c) /\ Seen(c))'
  PROVE  LockInv'
<1>1. \A d \in Client \ {c} : clerk'[d] = clerk[d] /\ performed'[d] = performed[d] /\ pc'[d] = pc[d]
  BY DEF LockInv, KVInv, KVType
<1>2. ASSUME NEW d \in Client PROVE (Waits(d) /\ Owns(d) /\ Seen(d))'
  <2>1. CASE d = c
    BY <2>1
  <2>2. CASE d # c
    <3>1. Waits(d)' /\ Owns(d)'
      BY <1>1, <2>2 DEF LockInv, Waits, Owns
    <3>2. Seen(d)'
      BY <1>1, <2>2 DEF LockInv, Seen, Mine
    <3> QED BY <3>1, <3>2
  <2> QED BY <2>1, <2>2
<1>3. pc' \in [Client -> {"out", "holding"} \cup Getting \cup Putting]
  BY <1>2 DEF LockInv, Waits
<1> QED BY <1>2, <1>3 DEF LockInv

\* The client goes on with a Get, with a Put, or leaves.
LEMMA ToGet ==
  ASSUME LockInv, NEW c \in Client, NEW label \in Getting, SendGet(c, LockName), Goto(c, label),
         label \in {"acquireGet", "releaseCheck"} => data[LockName].value # c,
         label = "releaseGet" => data[LockName].value = c
  PROVE  LockInv'
<1> DEFINE me == [Idle(NoReply) EXCEPT !.at = "call", !.op = "Get", !.key = LockName]
<1>1. me.at = "call" /\ me.op = "Get" /\ me.key = LockName
  BY DEF Idle
<1>2. /\ clerk' = [clerk EXCEPT ![c] = me] /\ performed' = [performed EXCEPT ![c] = FALSE]
      /\ pc' = [pc EXCEPT ![c] = label] /\ UNCHANGED data
  BY DEF SendGet, Goto
<1> HIDE DEF me
<1>3. KVInv'
  BY <1>2, SendGetInv, LockAssumption DEF LockInv
<1>4. clerk'[c] = me /\ performed'[c] = FALSE /\ pc'[c] = label
  BY <1>2 DEF LockInv, KVInv, KVType
<1>5. (Waits(c) /\ Owns(c) /\ Seen(c))'
  BY <1>1, <1>2, <1>4 DEF Waits, Owns, Seen, Getting, Putting
<1> QED BY <1>2, <1>3, <1>5, LockClientStep

LEMMA ToPut ==
  ASSUME LockInv, NEW c \in Client, NEW label \in Putting, NEW value \in Value \cup {NoValue},
         NEW version \in Nat, SendPut(c, LockName, value, version), Goto(c, label),
         label = "acquirePut" =>
            /\ value = c /\ data[LockName].value # c
            /\ version =< data[LockName].version
            /\ version = data[LockName].version => data[LockName].value = NoValue,
         label = "releasePut" =>
            value = NoValue /\ data[LockName].value = c /\ version = data[LockName].version
  PROVE  LockInv'
<1> DEFINE me == [Idle(NoReply) EXCEPT !.at = "call", !.op = "Put", !.key = LockName,
                                       !.value = value, !.version = version]
<1>1. /\ me.at = "call" /\ me.op = "Put" /\ me.key = LockName /\ me.value = value
      /\ me.version = version
  BY DEF Idle
<1>2. /\ clerk' = [clerk EXCEPT ![c] = me] /\ performed' = [performed EXCEPT ![c] = FALSE]
      /\ pc' = [pc EXCEPT ![c] = label] /\ UNCHANGED data
  BY DEF SendPut, Goto
<1> HIDE DEF me
<1>3. KVInv'
  BY <1>2, SendPutInv, LockAssumption DEF LockInv
<1>4. clerk'[c] = me /\ performed'[c] = FALSE /\ pc'[c] = label
  BY <1>2 DEF LockInv, KVInv, KVType
<1>5. (Waits(c) /\ Owns(c) /\ Seen(c))'
  BY <1>1, <1>2, <1>4 DEF Waits, Owns, Seen, Getting, Putting
<1> QED BY <1>2, <1>3, <1>5, LockClientStep

LEMMA ToIdle ==
  ASSUME LockInv, NEW c \in Client, NEW label \in {"out", "holding"}, Leave(c, label),
         label = "out" => data[LockName].value # c,
         label = "holding" => data[LockName].value = c
  PROVE  LockInv'
<1>1. Idle(NoReply).at = "idle" /\ NoReply \in ReplyType
  BY DEF Idle, NoReply, Reply, ReplyType
<1>2. /\ clerk' = [clerk EXCEPT ![c] = Idle(NoReply)] /\ performed' = [performed EXCEPT ![c] = FALSE]
      /\ pc' = [pc EXCEPT ![c] = label] /\ UNCHANGED data
  BY DEF Leave, Goto
<1>3. KVInv'
  BY <1>1, <1>2, IdleInv DEF LockInv
<1>4. clerk'[c] = Idle(NoReply) /\ performed'[c] = FALSE /\ pc'[c] = label
  BY <1>2 DEF LockInv, KVInv, KVType
<1>5. (Waits(c) /\ Owns(c) /\ Seen(c))'
  BY <1>1, <1>2, <1>4 DEF Waits, Owns, Seen, Getting, Putting
<1> QED BY <1>2, <1>3, <1>5, LockClientStep

\* What the Clerk's answer means to a client of the lock.
LEMMA LockAnswers ==
  ASSUME LockInv, NEW c \in Client, Returns(c)
  PROVE  /\ pc[c] \in Getting => /\ ResultOf(c) = clerk[c].reply
                                 /\ clerk[c].reply.err \in {"OK", "ErrNoKey"}
                                 /\ clerk[c].reply.version \in Nat
                                 /\ clerk[c].reply.err = "ErrNoKey" => clerk[c].reply.value = NoValue
         /\ pc[c] \in Putting => /\ ErrOf(c) = "OK" => performed[c]
                                 /\ performed[c] => ErrOf(c) \in {"OK", "ErrMaybe"}
<1>0. clerk[c].at = "reply" /\ KVInv /\ clerk[c].reply \in ReplyType
  BY ClerkFields DEF Returns, LockInv, KVInv
<1>1. ASSUME pc[c] \in Getting
      PROVE  /\ ResultOf(c) = clerk[c].reply
             /\ clerk[c].reply.err \in {"OK", "ErrNoKey"}
             /\ clerk[c].reply.version \in Nat
             /\ clerk[c].reply.err = "ErrNoKey" => clerk[c].reply.value = NoValue
  <2>1. clerk[c].op = "Get"
    BY <1>1 DEF LockInv, Waits
  <2>2. /\ clerk[c].reply.err \in {"OK", "ErrNoKey"}
        /\ clerk[c].reply.err = "ErrNoKey" => clerk[c].reply = Reply("ErrNoKey", NoValue, 0)
    BY <1>0, <2>1 DEF KVInv, GetAnswered
  <2>3. ErrOf(c) = clerk[c].reply.err
    BY <2>1 DEF ErrOf
  <2>4. ResultOf(c) = clerk[c].reply
    BY <1>0, <2>3, ResultType DEF ReplyType
  <2> QED BY <1>0, <2>2, <2>4 DEF Reply, ReplyType
<1>2. ASSUME pc[c] \in Putting
      PROVE  /\ ErrOf(c) = "OK" => performed[c]
             /\ performed[c] => ErrOf(c) \in {"OK", "ErrMaybe"}
  <2>1. clerk[c].op = "Put"
    BY <1>2 DEF LockInv, Waits
  <2> QED BY <1>0, <2>1 DEF KVInv, PutAnswered, ErrOf
<1> QED BY <1>1, <1>2

LEMMA ClientStepInv ==
  ASSUME LockInv, NEW c \in Client, Acquire(c) \/ ClientStep(c)
  PROVE  LockInv'
<1> DEFINE e == data[LockName]
           r == ResultOf(c)
<1>0. /\ e \in Entry /\ e.version \in Nat /\ c \in Value /\ c # NoValue
      /\ e.version = 0 => e.value = NoValue
      /\ Waits(c) /\ Owns(c) /\ Seen(c)
  BY LockAssumption, KVAssumption DEF LockInv, KVInv, KVType, Entry, NoKeyNoValue
<1>1. CASE Acquire(c)
  BY <1>0, <1>1, ToGet DEF Acquire, Owns, Getting
<1>2. CASE AcquireGot(c)
  <2>1. pc[c] = "acquireGet" /\ Returns(c) /\ clerk[c].at = "reply"
    BY <1>2 DEF AcquireGot, Returns
  <2>2. /\ r = clerk[c].reply /\ r.version \in Nat
        /\ r.err = "ErrNoKey" => r.value = NoValue
    BY <2>1, LockAnswers DEF Getting
  <2>3. e.value # c /\ r.version =< e.version /\ (r.version = e.version => r.value = e.value)
    BY <1>0, <2>1, <2>2 DEF Owns, Seen
  <2>4. CASE SendPut(c, LockName, c, r.version) /\ Goto(c, "acquirePut") /\ r.value = NoValue
    BY <1>0, <2>2, <2>3, <2>4, ToPut DEF Putting
  <2>5. CASE SendGet(c, LockName) /\ Goto(c, "acquireGet")
    BY <2>3, <2>5, ToGet DEF Getting
  <2> QED BY <1>2, <2>2, <2>4, <2>5 DEF AcquireGot
<1>3. CASE AcquirePut(c)
  <2>1. pc[c] = "acquirePut" /\ Returns(c) /\ performed[c] \in BOOLEAN
    BY <1>3, ClerkFields DEF AcquirePut, LockInv, KVInv
  <2>2. (ErrOf(c) = "OK" => e.value = c) /\ (ErrOf(c) \notin {"OK", "ErrMaybe"} => e.value # c)
    BY <1>0, <2>1, LockAnswers DEF Putting, Owns
  <2>3. CASE ErrOf(c) = "OK" /\ Leave(c, "holding")
    BY <2>2, <2>3, ToIdle
  <2>4. CASE SendGet(c, LockName) /\ Goto(c, "acquireCheck")
    BY <2>4, ToGet DEF Getting
  <2>5. CASE ErrOf(c) \notin {"OK", "ErrMaybe"} /\ SendGet(c, LockName) /\ Goto(c, "acquireGet")
    BY <2>2, <2>5, ToGet DEF Getting
  <2> QED BY <1>3, <2>3, <2>4, <2>5 DEF AcquirePut
<1>4. CASE AcquireChecked(c)
  <2>1. pc[c] = "acquireCheck" /\ Returns(c) /\ clerk[c].at = "reply"
    BY <1>4 DEF AcquireChecked, Returns
  <2>2. Mine(c, r) <=> e.value = c
    BY <1>0, <2>1, LockAnswers DEF Getting, Seen
  <2>3. CASE Mine(c, r) /\ Leave(c, "holding")
    BY <2>2, <2>3, ToIdle
  <2>4. CASE ~Mine(c, r) /\ SendGet(c, LockName) /\ Goto(c, "acquireGet")
    BY <2>2, <2>4, ToGet DEF Getting
  <2> QED BY <1>4, <2>3, <2>4 DEF AcquireChecked
<1>5. CASE Release(c)
  BY <1>0, <1>5, ToGet DEF Release, Owns, Getting
<1>6. CASE ReleaseGot(c)
  <2>1. pc[c] = "releaseGet" /\ Returns(c) /\ clerk[c].at = "reply"
    BY <1>6 DEF ReleaseGot, Returns
  <2>2. r = Reply("OK", c, e.version) /\ e.value = c
    BY <1>0, <2>1, LockAnswers DEF Getting, Seen, Owns
  <2>3. r.err = "OK" /\ r.value = c /\ r.version = e.version
    BY <2>2 DEF Reply
  <2>4. SendPut(c, LockName, NoValue, r.version) /\ Goto(c, "releasePut")
    BY <1>6, <2>3 DEF ReleaseGot
  <2> QED BY <1>0, <2>2, <2>3, <2>4, ToPut DEF Putting
<1>7. CASE ReleasePut(c)
  <2>1. pc[c] = "releasePut" /\ Returns(c) /\ clerk[c].at = "reply"
    BY <1>7 DEF ReleasePut, Returns
  <2>2. performed[c] /\ e.value # c /\ ErrOf(c) \in {"OK", "ErrMaybe"}
    BY <1>0, <2>1, LockAnswers DEF Putting, Seen, Owns
  <2>3. CASE Leave(c, "out")
    BY <2>2, <2>3, ToIdle
  <2>4. CASE SendGet(c, LockName) /\ Goto(c, "releaseCheck")
    BY <2>2, <2>4, ToGet DEF Getting
  <2> QED BY <1>7, <2>2, <2>3, <2>4 DEF ReleasePut
<1>8. CASE ReleaseChecked(c)
  <2>1. pc[c] = "releaseCheck" /\ Returns(c) /\ clerk[c].at = "reply"
    BY <1>8 DEF ReleaseChecked, Returns
  <2>2. ~Mine(c, r) /\ e.value # c
    BY <1>0, <2>1, LockAnswers DEF Getting, Seen, Owns
  <2>3. Leave(c, "out")
    BY <1>8, <2>2 DEF ReleaseChecked
  <2> QED BY <2>2, <2>3, ToIdle
<1> QED BY <1>1, <1>2, <1>3, <1>4, <1>5, <1>6, <1>7, <1>8 DEF ClientStep

\* The server performs a Put of client c on the lock only in these two cases: it takes
\* the free lock for c, or gives back c's lock.
LEMMA LockPut ==
  ASSUME LockInv, NEW c \in Client, ServerPut(c)
  PROVE  LET e == data[LockName]
         IN  /\ clerk[c].at = "call" /\ clerk[c].key = LockName /\ pc[c] \in Putting
             /\ \/ /\ data' = data /\ performed' = performed
                   /\ PutErr(e, clerk[c].version) # "OK"
                \/ /\ ~performed[c] /\ e.version = clerk[c].version
                   /\ data' = [data EXCEPT ![LockName] = [value |-> clerk[c].value,
                                                          version |-> e.version + 1]]
                   /\ data'[LockName].value = clerk[c].value
                   /\ data'[LockName].version = e.version + 1
                   /\ performed' = [performed EXCEPT ![c] = TRUE]
                   /\ PutErr(e, clerk[c].version) = "OK"
                   /\ \/ pc[c] = "acquirePut" /\ e.value = NoValue /\ clerk[c].value = c
                      \/ pc[c] = "releasePut" /\ e.value = c /\ clerk[c].value = NoValue
<1>1. KVInv /\ clerk[c].at = "call" /\ clerk[c].op = "Put"
  BY DEF LockInv, ServerPut
<1>2. pc[c] \in Putting /\ clerk[c].key = LockName
  BY <1>1 DEF LockInv, Waits, Getting
<1>3. performed[c] \in BOOLEAN /\ data \in [Key -> Entry] /\ LockName \in Key
  BY <1>1, LockAssumption, ClerkFields DEF KVInv, KVType
<1> DEFINE e == data[LockName]
           err == PutErr(e, clerk[c].version)
<1>4. /\ err = "OK" <=> e.version = clerk[c].version
      /\ performed[c] => err = "ErrVersion"
      /\ IF err = "OK"
           THEN /\ data' = [data EXCEPT ![LockName] =
                              [value |-> clerk[c].value, version |-> e.version + 1]]
                /\ performed' = [performed EXCEPT ![c] = TRUE]
           ELSE data' = data /\ performed' = performed
  BY <1>1, <1>2, ServerPutFacts
<1> HIDE DEF err
<1>5. CASE err # "OK"
  BY <1>1, <1>2, <1>4, <1>5 DEF err
<1>6. CASE err = "OK"
  <2>1. ~performed[c]
    BY <1>4, <1>6
  <2>2. \/ pc[c] = "acquirePut" /\ e.value = NoValue /\ clerk[c].value = c
        \/ pc[c] = "releasePut" /\ e.value = c /\ clerk[c].value = NoValue
    BY <1>2, <1>3, <1>4, <1>6, <2>1 DEF LockInv, Waits, Owns, Seen, Putting
  <2>3. data'[LockName] = [value |-> clerk[c].value, version |-> e.version + 1]
    BY <1>3, <1>4, <1>6
  <2> QED BY <1>1, <1>2, <1>4, <1>6, <2>1, <2>2, <2>3 DEF err
<1> QED BY <1>5, <1>6

LEMMA LockServerPut ==
  ASSUME LockInv, NEW c \in Client, ServerPut(c), UNCHANGED pc
  PROVE  LockInv'
<1> DEFINE e == data[LockName]
           err == PutErr(e, clerk[c].version)
<1>0. KVInv /\ KVInv' /\ VersionsGrow /\ c # NoValue
  BY ServerPutInv, LockAssumption, KVAssumption DEF LockInv
<1>1. /\ clerk[c].at = "call" /\ clerk[c].key = LockName /\ pc[c] \in Putting
      /\ \/ data' = data /\ performed' = performed /\ err # "OK"
         \/ /\ ~performed[c] /\ e.version = clerk[c].version
            /\ data'[LockName].value = clerk[c].value
            /\ data'[LockName].version = e.version + 1
            /\ performed' = [performed EXCEPT ![c] = TRUE]
            /\ \/ pc[c] = "acquirePut" /\ e.value = NoValue /\ clerk[c].value = c
               \/ pc[c] = "releasePut" /\ e.value = c /\ clerk[c].value = NoValue
  BY LockPut
<1>2. /\ clerk' = [clerk EXCEPT ![c] = [clerk[c] EXCEPT !.at = "reply",
                                                        !.reply = Reply(err, NoValue, 0)]]
      /\ clerk'[c] = [clerk[c] EXCEPT !.at = "reply", !.reply = Reply(err, NoValue, 0)]
      /\ clerk[c] \in ClerkType /\ e.version \in Nat
      /\ err = "OK" <=> e.version = clerk[c].version
  BY <1>0, <1>1, ServerPutFacts, ClerkFields DEF KVInv, Entry
<1>3. /\ clerk'[c].at = "reply" /\ clerk'[c].op = clerk[c].op /\ clerk'[c].key = clerk[c].key
      /\ clerk'[c].value = clerk[c].value /\ clerk'[c].version = clerk[c].version
  <2> DEFINE r == Reply(err, NoValue, 0)
             old == clerk[c]
             me == [old EXCEPT !.at = "reply", !.reply = r]
  <2>1. clerk'[c] = me /\ old \in ClerkType
    BY <1>2
  <2> HIDE DEF r, old
  <2>2. /\ me.at = "reply" /\ me.op = old.op /\ me.key = old.key
        /\ me.value = old.value /\ me.version = old.version
    BY <2>1 DEF ClerkType
  <2> HIDE DEF me
  <2> QED BY <2>1, <2>2 DEF old
<1>4. \A d \in Client \ {c} : clerk'[d] = clerk[d] /\ performed'[d] = performed[d]
  BY <1>0, <1>1, <1>2 DEF KVInv, KVType
<1>5. Waits(c)'
  BY <1>1, <1>3 DEF LockInv, Waits, Getting, Putting
<1>6. CASE data' = data /\ performed' = performed /\ err # "OK"
  <2>1. Owns(c)'
    BY <1>6 DEF LockInv, Owns
  <2>2. performed[c] \in BOOLEAN
    BY <1>0, ClerkFields DEF KVInv
  <2>3. Seen(c)'
    BY <1>1, <1>2, <1>3, <1>6, <2>2 DEF LockInv, Seen, Putting
  <2>4. ASSUME NEW d \in Client \ {c} PROVE (Waits(d) /\ Owns(d) /\ Seen(d))'
    BY <1>4, <1>6 DEF LockInv, Waits, Owns, Seen, Mine
  <2> QED BY <1>0, <1>5, <2>1, <2>3, <2>4 DEF LockInv
<1>7. CASE /\ ~performed[c] /\ e.version = clerk[c].version
           /\ data'[LockName].value = clerk[c].value
           /\ data'[LockName].version = e.version + 1
           /\ performed' = [performed EXCEPT ![c] = TRUE]
           /\ \/ pc[c] = "acquirePut" /\ e.value = NoValue /\ clerk[c].value = c
              \/ pc[c] = "releasePut" /\ e.value = c /\ clerk[c].value = NoValue
  <2>1. performed'[c] = TRUE
    BY <1>0, <1>7 DEF KVInv, KVType
  <2>2. Owns(c)'
    BY <1>0, <1>7, <2>1 DEF Owns
  <2>3. Seen(c)'
    BY <1>7, <2>1 DEF Seen
  <2>4. ASSUME NEW d \in Client \ {c} PROVE (Waits(d) /\ Owns(d) /\ Seen(d))'
    <3>0. /\ clerk'[d] = clerk[d] /\ performed'[d] = performed[d] /\ pc'[d] = pc[d]
          /\ Waits(d) /\ Owns(d) /\ Seen(d) /\ d # NoValue /\ d # c
          /\ performed[d] \in BOOLEAN /\ clerk[d].version \in Nat
      BY <1>0, <1>4, LockAssumption, KVAssumption, ClerkFields DEF LockInv, KVInv
    <3>1. e.value # d /\ data'[LockName].value # d
      BY <1>7, <3>0
    <3>2. Waits(d)' /\ Owns(d)'
      BY <3>0, <3>1 DEF Waits, Owns
    <3>3. pc[d] \notin {"releaseGet"} /\ (pc[d] = "releasePut" => performed[d])
          /\ (pc[d] = "acquirePut" => ~performed[d])
      BY <3>0, <3>1 DEF Owns
    <3>4. pc[d] = "acquireGet" /\ clerk[d].at = "reply" => clerk[d].reply.version \in Nat
      BY <1>0, ClerkFields DEF KVInv, ReplyType
    <3>5. Seen(d)'
      BY <1>2, <1>7, <3>0, <3>1, <3>3, <3>4 DEF Seen, Mine
    <3> QED BY <3>2, <3>5
  <2> QED BY <1>0, <1>5, <2>2, <2>3, <2>4 DEF LockInv
<1> QED BY <1>1, <1>6, <1>7

LEMMA LockServerGet ==
  ASSUME LockInv, NEW c \in Client, ServerGet(c), UNCHANGED pc
  PROVE  LockInv'
<1> DEFINE e  == data[LockName]
           r  == GetReply(e)
           me == [clerk[c] EXCEPT !.at = "reply", !.reply = r]
<1>0. KVInv /\ KVInv' /\ c # NoValue /\ clerk[c].at = "call" /\ clerk[c].op = "Get"
  BY ServerGetInv, LockAssumption, KVAssumption DEF LockInv, ServerGet
<1>1. /\ pc[c] \in Getting /\ clerk[c].key = LockName /\ clerk[c] \in ClerkType
      /\ e.version \in Nat /\ (e.version = 0 => e.value = NoValue)
  BY <1>0, ClerkFields, LockAssumption
     DEF LockInv, Waits, Putting, KVInv, KVType, Entry, NoKeyNoValue
<1>2. /\ clerk' = [clerk EXCEPT ![c] = me] /\ performed' = performed /\ UNCHANGED data
  BY <1>1 DEF ServerGet
<1>3. /\ me.at = "reply" /\ me.op = clerk[c].op /\ me.key = clerk[c].key /\ me.reply = r
  BY <1>1 DEF ClerkType
<1>4. /\ r.version = e.version /\ r.value = e.value
      /\ e.version # 0 => r = Reply("OK", e.value, e.version)
      /\ e.version = 0 => r.err = "ErrNoKey"
      /\ e.version # 0 => r.err = "OK"
  BY <1>1 DEF GetReply, Reply
<1> HIDE DEF me, r
<1>5. clerk'[c] = me /\ performed'[c] = performed[c] /\ pc' = [pc EXCEPT ![c] = pc[c]]
      /\ performed' = [performed EXCEPT ![c] = performed[c]]
  BY <1>0, <1>2 DEF LockInv, KVInv, KVType
<1>6. Waits(c)' /\ Owns(c)'
  BY <1>0, <1>1, <1>2, <1>3, <1>5 DEF LockInv, Waits, Owns, Getting, Putting
<1>7. Seen(c)'
  BY <1>0, <1>1, <1>2, <1>3, <1>4, <1>5 DEF LockInv, Owns, Seen, Mine, Getting
<1> QED BY <1>0, <1>2, <1>5, <1>6, <1>7, LockClientStep

LEMMA LockCallFails ==
  ASSUME LockInv, NEW c \in Client, CallFails(c), UNCHANGED pc
  PROVE  LockInv'
<1> DEFINE me == [clerk[c] EXCEPT !.at = "call", !.reply = NoReply, !.retried = clerk[c].op = "Put"]
<1>0. KVInv /\ KVInv' /\ clerk[c].at # "idle" /\ clerk[c] \in ClerkType
  BY CallFailsInv, ClerkFields DEF LockInv, CallFails, KVInv
<1>1. /\ me.at = "call" /\ me.op = clerk[c].op /\ me.key = clerk[c].key
      /\ me.version = clerk[c].version /\ me.value = clerk[c].value
  BY <1>0 DEF ClerkType
<1>2. clerk' = [clerk EXCEPT ![c] = me] /\ performed' = performed /\ UNCHANGED data
  BY DEF CallFails, LockInv, KVInv, KVType
<1> HIDE DEF me
<1>3. clerk'[c] = me /\ performed'[c] = performed[c] /\ pc' = [pc EXCEPT ![c] = pc[c]]
      /\ performed' = [performed EXCEPT ![c] = performed[c]]
  BY <1>0, <1>2 DEF LockInv, KVInv, KVType
<1>4. Waits(c)' /\ Owns(c)'
  BY <1>0, <1>1, <1>2, <1>3 DEF LockInv, Waits, Owns, Getting, Putting
<1>5. Seen(c)'
  BY <1>1, <1>2, <1>3 DEF LockInv, Seen
<1> QED BY <1>0, <1>2, <1>3, <1>4, <1>5, LockClientStep

LEMMA LockNextInv ==
  ASSUME LockInv, [Next]_vars
  PROVE  LockInv'
<1>1. CASE UNCHANGED vars
  <2>1. UNCHANGED <<data, clerk, performed, pc>>
    BY <1>1 DEF vars, kvVars
  <2>2. KVInv'
    BY <2>1 DEF LockInv, KVInv, KVType, NoKeyNoValue, Busy, GetAnswered, PutAnswered, NothingYet
  <2> QED BY <2>1, <2>2 DEF LockInv, Waits, Owns, Seen, Mine
<1>2. CASE Network /\ UNCHANGED pc
  BY <1>2, LockServerGet, LockServerPut, LockCallFails DEF Network
<1> QED BY <1>1, <1>2, ClientStepInv DEF Next

LEMMA LockInitInv == Init => LockInv
<1> SUFFICES ASSUME Init PROVE LockInv
  OBVIOUS
<1>1. KVInit /\ pc = [c \in Client |-> "out"]
  BY DEF Init
<1>2. KVInv
  BY <1>1, KVInitInv
<1>3. data[LockName].value = NoValue /\ \A c \in Client : clerk[c].at = "idle" /\ c # NoValue
  BY <1>1, LockAssumption, KVAssumption DEF KVInit, Idle
<1> QED BY <1>1, <1>2, <1>3 DEF LockInv, Waits, Owns, Seen, Getting, Putting

LEMMA LockInvariant == Spec => []LockInv
BY LockInitInv, LockNextInv, PTL DEF Spec

\* Two clients are never both between the return of Acquire() and the call of Release(),
\* and the server has the lock in the name of the one that is, for any number of
\* clients and of lost or repeated calls.
THEOREM LockExcludes == Spec => []MutualExclusion
<1>1. LockInv => MutualExclusion
  BY KVAssumption, LockAssumption DEF LockInv, KVInv, NoKeyNoValue, Owns, MutualExclusion
<1> QED BY <1>1, LockInvariant, PTL

-----------------------------------------------------------------------------
(* LOCK IMPLEMENTS MUTEXSERVICE *)

\* The refinement mapping, by name.
PhaseOf(c) ==
    CASE pc[c] \in {"acquireGet", "acquirePut", "acquireCheck"} -> "acquiring"
      [] pc[c] \in {"releaseGet", "releasePut", "releaseCheck"} -> "releasing"
      [] pc[c] \in {"out", "holding"} -> pc[c]
AtMap  == [c \in Client |-> PhaseOf(c)]
Holder == data[LockName].value

LEMMA IsMove ==
  ASSUME NEW c \in Client, Holder' = Holder,
         \/ AtMap[c] = "out" /\ AtMap' = [AtMap EXCEPT ![c] = "acquiring"]
         \/ AtMap[c] = "acquiring" /\ AtMap' = [AtMap EXCEPT ![c] = "holding"] /\ Holder = c
         \/ AtMap[c] = "holding" /\ AtMap' = [AtMap EXCEPT ![c] = "releasing"]
         \/ AtMap[c] = "releasing" /\ AtMap' = [AtMap EXCEPT ![c] = "out"] /\ Holder # c
  PROVE  Mutex!Next
BY Zenon DEF Mutex!Next, Mutex!Acquire, Mutex!Acquired, Mutex!Release, Mutex!Released, Mutex!Move,
       AtMap, Holder, PhaseOf

LEMMA IsHandover ==
  ASSUME NEW c \in Client, AtMap' = AtMap,
         \/ AtMap[c] = "acquiring" /\ Holder = NoValue /\ Holder' = c
         \/ AtMap[c] = "releasing" /\ Holder = c /\ Holder' = NoValue
  PROVE  Mutex!Next
BY Zenon DEF Mutex!Next, Mutex!Grant, Mutex!GiveBack, AtMap, Holder, PhaseOf

LEMMA IsQuiet ==
  ASSUME AtMap' = AtMap, Holder' = Holder
  PROVE  UNCHANGED Mutex!vars
BY Zenon DEF Mutex!vars, AtMap, Holder, PhaseOf

\* A client that moves from one label to another.
LEMMA LabelMoves ==
  ASSUME LockInv, NEW c \in Client, NEW label, Goto(c, label)
  PROVE  /\ AtMap' = [AtMap EXCEPT ![c] = PhaseOf(c)'] /\ Holder' = Holder
         /\ pc'[c] = label
<1>1. pc'[c] = label /\ (\A d \in Client \ {c} : pc'[d] = pc[d]) /\ UNCHANGED data
  BY DEF Goto, LockInv
<1>2. \A d \in Client \ {c} : PhaseOf(d)' = PhaseOf(d)
  BY <1>1 DEF PhaseOf
<1>3. AtMap' = [d \in Client |-> PhaseOf(d)']
  BY DEF AtMap
<1>4. AtMap' = [AtMap EXCEPT ![c] = PhaseOf(c)']
  BY <1>2, <1>3 DEF AtMap
<1> QED BY <1>1, <1>4 DEF Holder

\* What Acquire() and Release() do between two calls of the Clerk.
LEMMA ClientMoves ==
  ASSUME LockInv, LockInv', NEW c \in Client, Acquire(c) \/ ClientStep(c)
  PROVE  [Mutex!Next]_(Mutex!vars)
<1>1. \E label : Goto(c, label) /\
        \/ pc[c] = "out" /\ label = "acquireGet"
        \/ /\ pc[c] \in {"acquireGet", "acquirePut", "acquireCheck"}
           /\ label \in {"acquireGet", "acquirePut", "acquireCheck", "holding"}
        \/ pc[c] = "holding" /\ label = "releaseGet"
        \/ /\ pc[c] \in {"releaseGet", "releasePut", "releaseCheck"}
           /\ label \in {"releaseGet", "releasePut", "releaseCheck", "out"}
  BY DEF Acquire, ClientStep, AcquireGot, AcquirePut, AcquireChecked, Release, ReleaseGot,
         ReleasePut, ReleaseChecked, Leave
<1>2. PICK label : Goto(c, label) /\
        \/ pc[c] = "out" /\ label = "acquireGet"
        \/ /\ pc[c] \in {"acquireGet", "acquirePut", "acquireCheck"}
           /\ label \in {"acquireGet", "acquirePut", "acquireCheck", "holding"}
        \/ pc[c] = "holding" /\ label = "releaseGet"
        \/ /\ pc[c] \in {"releaseGet", "releasePut", "releaseCheck"}
           /\ label \in {"releaseGet", "releasePut", "releaseCheck", "out"}
  BY <1>1
<1>3. AtMap' = [AtMap EXCEPT ![c] = PhaseOf(c)'] /\ Holder' = Holder /\ pc'[c] = label
  BY <1>2, LabelMoves
<1>4. /\ label = "holding" => Holder = c
      /\ label = "out" => Holder # c
  BY <1>3 DEF LockInv, Owns, Holder
<1>5. AtMap[c] = PhaseOf(c)
  BY DEF AtMap
<1>6. CASE PhaseOf(c)' = PhaseOf(c)
  <2>1. AtMap' = AtMap
    BY <1>3, <1>5, <1>6 DEF AtMap
  <2> QED BY <1>3, <2>1, IsQuiet
<1>7. CASE PhaseOf(c)' # PhaseOf(c)
  <2>1. \/ PhaseOf(c) = "out" /\ PhaseOf(c)' = "acquiring"
        \/ PhaseOf(c) = "acquiring" /\ PhaseOf(c)' = "holding" /\ Holder = c
        \/ PhaseOf(c) = "holding" /\ PhaseOf(c)' = "releasing"
        \/ PhaseOf(c) = "releasing" /\ PhaseOf(c)' = "out" /\ Holder # c
    BY <1>2, <1>3, <1>4, <1>7 DEF PhaseOf
  <2> QED BY <1>3, <1>5, <2>1, IsMove
<1> QED BY <1>6, <1>7

\* The server hands the lock over when it performs a Put.
LEMMA NetworkHandsOver ==
  ASSUME LockInv, Network, UNCHANGED pc
  PROVE  [Mutex!Next]_(Mutex!vars)
<1>1. AtMap' = AtMap
  BY DEF AtMap, PhaseOf
<1>2. ASSUME NEW c \in Client, ServerGet(c) \/ CallFails(c) PROVE UNCHANGED Mutex!vars
  <2>1. Holder' = Holder
    BY <1>2 DEF ServerGet, CallFails, Holder
  <2> QED BY <1>1, <2>1, IsQuiet
<1>3. ASSUME NEW c \in Client, ServerPut(c) PROVE [Mutex!Next]_(Mutex!vars)
  <2>1. \/ data' = data
        \/ /\ data'[LockName].value = clerk[c].value
           /\ \/ pc[c] = "acquirePut" /\ data[LockName].value = NoValue /\ clerk[c].value = c
              \/ pc[c] = "releasePut" /\ data[LockName].value = c /\ clerk[c].value = NoValue
    BY <1>3, LockPut
  <2>2. /\ pc[c] = "acquirePut" => AtMap[c] = "acquiring"
        /\ pc[c] = "releasePut" => AtMap[c] = "releasing"
    BY DEF AtMap, PhaseOf
  <2>3. CASE data' = data
    <3>1. Holder' = Holder
      BY <2>3 DEF Holder
    <3> QED BY <1>1, <3>1, IsQuiet
  <2>4. CASE data' # data
    <3>1. \/ AtMap[c] = "acquiring" /\ Holder = NoValue /\ Holder' = c
          \/ AtMap[c] = "releasing" /\ Holder = c /\ Holder' = NoValue
      BY <2>1, <2>2, <2>4 DEF Holder
    <3> QED BY <1>1, <3>1, IsHandover
  <2> QED BY <2>3, <2>4
<1> QED BY <1>2, <1>3 DEF Network

\* Acquire() and Release() together are a lock, for any number of clients: granted only
\* while free, given back only by its holder, and each of them returns only when it has
\* done its work.
THEOREM LockIsMutex == Spec => MutexImplemented
<1>1. Init => Mutex!Init
  BY LockAssumption DEF Init, KVInit, Mutex!Init
<1>2. LockInv /\ LockInv' /\ [Next]_vars => [Mutex!Next]_(Mutex!vars)
  <2> SUFFICES ASSUME LockInv, LockInv', [Next]_vars PROVE [Mutex!Next]_(Mutex!vars)
    OBVIOUS
  <2>1. CASE UNCHANGED vars
    <3>1. data' = data /\ pc' = pc
      BY <2>1 DEF vars, kvVars
    <3>2. AtMap' = AtMap /\ Holder' = Holder
      BY <3>1 DEF AtMap, Holder, PhaseOf
    <3> QED BY <3>2, IsQuiet
  <2>2. ASSUME NEW c \in Client, Acquire(c) \/ ClientStep(c) PROVE [Mutex!Next]_(Mutex!vars)
    BY <2>2, ClientMoves
  <2>3. CASE Network /\ UNCHANGED pc
    BY <2>3, NetworkHandsOver
  <2> QED BY <2>1, <2>2, <2>3, Zenon DEF Next
<1> QED BY <1>1, <1>2, LockInvariant, PTL DEF Spec, MutexImplemented, Mutex!Spec
=============================================================================

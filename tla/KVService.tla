------------------------------ MODULE KVService ------------------------------
(***************************************************************************)
(* What the key/value service promises its clients: every operation takes  *)
(* effect at one moment between its invocation and its return, a Put at    *)
(* most once, and its result says whether it did, except for ErrMaybe.     *)
(***************************************************************************)
EXTENDS Naturals

CONSTANTS Client, Key, Value, NoValue

VARIABLES
    data,   \* per key its value and version; version 0: the key does not exist
    op,     \* per client the operation in progress, and its outcome once it has one
    result  \* per client what its last operation returned

vars == <<data, op, result>>

NoOp == [type |-> "none"]
Call == [type: {"Get"}, key: Key] \cup [type: {"Put"}, key: Key, value: Value \cup {NoValue}, version: Nat]
Pending == [err |-> "pending", value |-> NoValue, version |-> 0]

\* What an operation gives when it takes effect on entry e.
Outcome(e, call) ==
    LET plain(err) == [err |-> err, value |-> NoValue, version |-> 0]
    IN  CASE call.type = "Get" /\ e.version = 0 -> plain("ErrNoKey")
          [] call.type = "Get" /\ e.version # 0 -> [err |-> "OK", value |-> e.value, version |-> e.version]
          [] call.type = "Put" /\ e.version = call.version -> plain("OK")
          [] call.type = "Put" /\ e.version # call.version ->
                plain(IF e.version = 0 THEN "ErrNoKey" ELSE "ErrVersion")

Changes(call, outcome) == call.type = "Put" /\ outcome.err = "OK"

Init ==
    /\ data = [k \in Key |-> [value |-> NoValue, version |-> 0]]
    /\ op = [c \in Client |-> [call |-> NoOp, outcome |-> Pending]]
    /\ result = [c \in Client |-> Pending]

Invoke(c) ==
    /\ op[c].call = NoOp
    /\ op'[c].call \in Call
    /\ op' = [op EXCEPT ![c] = [call |-> op'[c].call, outcome |-> Pending]]
    /\ result' = [result EXCEPT ![c] = Pending]
    /\ UNCHANGED data

\* The operation takes effect.
Perform(c) ==
    LET call == op[c].call
        out  == Outcome(data[call.key], call)
    IN  /\ call # NoOp /\ op[c].outcome = Pending
        /\ op' = [op EXCEPT ![c].outcome = out]
        /\ data' = IF Changes(call, out)
                     THEN [data EXCEPT ![call.key] = [value |-> call.value, version |-> @.version + 1]]
                     ELSE data
        /\ UNCHANGED result

\* An outcome that changed nothing may be dropped, and the operation tried again.
TryAgain(c) ==
    /\ op[c].call # NoOp /\ op[c].outcome # Pending
    /\ ~Changes(op[c].call, op[c].outcome)
    /\ op' = [op EXCEPT ![c].outcome = Pending]
    /\ UNCHANGED <<data, result>>

\* The client learns the outcome, or that a Put was performed or met another version.
Return(c) ==
    LET call == op[c].call
        out  == op[c].outcome
        maybe == [err |-> "ErrMaybe", value |-> NoValue, version |-> 0]
    IN  /\ call # NoOp /\ out # Pending
        /\ result' \in {[result EXCEPT ![c] = r] :
                          r \in {out} \cup IF call.type = "Put" /\ out.err \in {"OK", "ErrVersion"}
                                             THEN {maybe} ELSE {}}
        /\ op' = [op EXCEPT ![c] = [call |-> NoOp, outcome |-> Pending]]
        /\ UNCHANGED data

Next == \E c \in Client : Invoke(c) \/ Perform(c) \/ TryAgain(c) \/ Return(c)

Spec == Init /\ [][Next]_vars
=============================================================================

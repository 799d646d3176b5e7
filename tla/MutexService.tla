---------------------------- MODULE MutexService ----------------------------
(***************************************************************************)
(* What Lock promises: a lock that one client at a time is granted, that   *)
(* stays with it until it gives it back, and that only it gives back.      *)
(***************************************************************************)
CONSTANTS Client, Free

VARIABLES
    holder,  \* the client the lock is granted to, or Free
    at       \* per client: "out", "acquiring", "holding" or "releasing"

vars == <<holder, at>>

Init == holder = Free /\ at = [c \in Client |-> "out"]

Move(c, from, to) == at[c] = from /\ at' = [at EXCEPT ![c] = to]

Acquire(c)  == Move(c, "out", "acquiring") /\ UNCHANGED holder
Grant(c)    == at[c] = "acquiring" /\ holder = Free /\ holder' = c /\ UNCHANGED at
Acquired(c) == Move(c, "acquiring", "holding") /\ holder = c /\ UNCHANGED holder
Release(c)  == Move(c, "holding", "releasing") /\ UNCHANGED holder
GiveBack(c) == at[c] = "releasing" /\ holder = c /\ holder' = Free /\ UNCHANGED at
Released(c) == Move(c, "releasing", "out") /\ holder # c /\ UNCHANGED holder

Next == \E c \in Client : \/ Acquire(c) \/ Grant(c) \/ Acquired(c)
                          \/ Release(c) \/ GiveBack(c) \/ Released(c)

Spec == Init /\ [][Next]_vars
=============================================================================

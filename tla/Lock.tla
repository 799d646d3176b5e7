-------------------------------- MODULE Lock --------------------------------
(***************************************************************************)
(* The lock of src/src/kvsrv1/lock, built on a Clerk: the value of one key *)
(* is the id of the client that holds the lock, or empty.  Clients acquire *)
(* and release the lock again and again, as in lock_test.go.               *)
(*                                                                         *)
(* Each action is what a client does between two calls of its Clerk, the   *)
(* return of the first and the invocation of the second included.          *)
(***************************************************************************)
EXTENDS KV

CONSTANT LockName   \* the key

ASSUME LockAssumption == LockName \in Key /\ Client \subseteq Value

VARIABLE pc         \* where in Acquire() or Release() a client waits for its Clerk

vars == <<kvVars, pc>>

Goto(c, label) == pc' = [pc EXCEPT ![c] = label] /\ UNCHANGED data

\* The client leaves Acquire() or Release(): its Clerk has nothing to do.
Leave(c, label) ==
    /\ clerk' = [clerk EXCEPT ![c] = Idle(NoReply)]
    /\ performed' = [performed EXCEPT ![c] = FALSE]
    /\ Goto(c, label)

\* The result of a Get that shows the lock in the hands of c.
MineAlways(c, result) == result.err = "OK"                        \* mutant
MineNever(c, result)  == FALSE                                    \* mutant
Mine(c, result) == result.err = "OK" /\ result.value = c

\* Acquire() is called.
Acquire(c) ==
    /\ pc[c] = "out"
    /\ data[LockName].version < MaxVersion
    /\ SendGet(c, LockName) /\ Goto(c, "acquireGet")

\* ... after the Get: try to put one's name in, or wait and look again.
AcquireGot(c) ==
    LET r == ResultOf(c)
    IN  /\ pc[c] = "acquireGet" /\ Returns(c)
        /\ IF r.err = "ErrNoKey" \/ (r.err = "OK" /\ r.value = NoValue)
             THEN SendPut(c, LockName, c, r.version) /\ Goto(c, "acquirePut")
             ELSE SendGet(c, LockName) /\ Goto(c, "acquireGet")

\* ... after the Put.
AcquirePut(c) ==
    LET err == ErrOf(c)
    IN  /\ pc[c] = "acquirePut" /\ Returns(c)
        /\ \/ err = "OK" /\ Leave(c, "holding")
           \/ err = "ErrMaybe" /\ SendGet(c, LockName) /\ Goto(c, "acquireCheck")
           \/ err \notin {"OK", "ErrMaybe"} /\ SendGet(c, LockName) /\ Goto(c, "acquireGet")

\* ... after the Get that settles an ErrMaybe.
AcquireChecked(c) ==
    /\ pc[c] = "acquireCheck" /\ Returns(c)
    /\ IF Mine(c, ResultOf(c))
         THEN Leave(c, "holding")
         ELSE SendGet(c, LockName) /\ Goto(c, "acquireGet")

\* Release() is called.
Release(c) == pc[c] = "holding" /\ SendGet(c, LockName) /\ Goto(c, "releaseGet")

\* ... after the Get: give up the lock, if it is one's own.
ReleaseGot(c) ==
    LET r == ResultOf(c)
    IN  /\ pc[c] = "releaseGet" /\ Returns(c)
        /\ IF r.err = "OK" /\ r.value = c
             THEN SendPut(c, LockName, NoValue, r.version) /\ Goto(c, "releasePut")
             ELSE Leave(c, "out")

\* ... after the Put.
ReleasePut(c) ==
    LET err == ErrOf(c)
    IN  /\ pc[c] = "releasePut" /\ Returns(c)
        /\ \/ err = "OK" /\ Leave(c, "out")
           \/ err = "ErrMaybe" /\ SendGet(c, LockName) /\ Goto(c, "releaseCheck")
           \/ err \notin {"OK", "ErrMaybe"} /\ SendGet(c, LockName) /\ Goto(c, "releaseGet")

\* ... after the Get that settles an ErrMaybe.
ReleaseChecked(c) ==
    /\ pc[c] = "releaseCheck" /\ Returns(c)
    /\ IF Mine(c, ResultOf(c))
         THEN SendGet(c, LockName) /\ Goto(c, "releaseGet")
         ELSE Leave(c, "out")

-----------------------------------------------------------------------------
(* SPECIFICATION *)

Init == KVInit /\ pc = [c \in Client |-> "out"]

ClientStep(c) ==
    \/ AcquireGot(c) \/ AcquirePut(c) \/ AcquireChecked(c)
    \/ Release(c) \/ ReleaseGot(c) \/ ReleasePut(c) \/ ReleaseChecked(c)

Next ==
    \/ \E c \in Client : Acquire(c) \/ ClientStep(c)
    \/ Network /\ UNCHANGED pc

Spec == Init /\ [][Next]_vars

(***************************************************************************)
(* Fairness.  The network loses calls and replies but not for ever, and a  *)
(* client that holds the lock releases it.                                 *)
(***************************************************************************)
FairSpec ==
    /\ Spec
    /\ \A c \in Client :
         /\ SF_vars((ServerGet(c) \/ ServerPut(c)) /\ UNCHANGED pc)
         /\ SF_vars(ClientStep(c))

-----------------------------------------------------------------------------
(* PROPERTIES *)

\* lock_test.go's "two clients acquired lock": between the return of Acquire() and the
\* call of Release() the client is alone, and the server knows it.
MutualExclusion ==
    \A c \in Client : pc[c] = "holding" =>
        /\ data[LockName].version # 0 /\ data[LockName].value = c
        /\ \A d \in Client \ {c} : pc[d] # "holding"

Mutex == INSTANCE MutexService WITH
    Free   <- NoValue,
    holder <- data[LockName].value,
    at     <- [c \in Client |->
                 CASE pc[c] \in {"acquireGet", "acquirePut", "acquireCheck"} -> "acquiring"
                   [] pc[c] \in {"releaseGet", "releasePut", "releaseCheck"} -> "releasing"
                   [] pc[c] \in {"out", "holding"} -> pc[c]]

\* Acquire() and Release() together are a lock: it is granted only while free, given
\* back only by its holder, and Acquire() and Release() return only when they have done
\* their work, although a Put that was performed may be answered with ErrMaybe.
MutexImplemented == Mutex!Spec

\* Someone who tries gets the lock, sooner or later: no lost reply makes a client wait
\* for a lock it holds itself.
SomebodyAcquires ==
    (\E c \in Client : pc[c] \in {"acquireGet", "acquirePut", "acquireCheck"})
        ~> (\E c \in Client : pc[c] = "holding")
=============================================================================

------------------------------ MODULE MapReduce ------------------------------
(***************************************************************************)
(* The MapReduce job of src/src/mr: the coordinator hands out map and then *)
(* reduce tasks, takes them back after a timeout and counts the reports;   *)
(* the workers run them over intermediate files mr-m-r, and write mr-out-r.*)
(*                                                                         *)
(* Every RPC handler is one action of the coordinator (it holds c.mu).  A  *)
(* worker waits for the answer of a call, so the call and its answer are   *)
(* one step, delayed as long as the worker is.  Files are atomic: every    *)
(* one is renamed into place.  mapf and reducef are functions of their     *)
(* input: a file is described by the map tasks whose data it holds.        *)
(***************************************************************************)
EXTENDS Integers, FiniteSets, FiniteSetsExt

CONSTANTS
    Worker,          \* the worker processes
    NMap, NReduce,   \* the numbers of tasks
    CrashPoints,     \* bound: where in its loop a worker may crash
    MaxCrashes,      \* bound: crashes of workers
    MaxFailures,     \* bound: file operations that return an error
    MaxEarly         \* bound: timeouts that hit a task whose worker is alive

MapTask    == 0 .. NMap - 1
ReduceTask == 0 .. NReduce - 1
WorkerAt   == {"idle", "map", "reduce", "remove", "report", "exited"}

ASSUME MapReduceAssumption ==
    /\ NMap \in Nat \ {0} /\ NReduce \in Nat \ {0}
    /\ CrashPoints \subseteq {"map", "reduce", "remove", "report"}
    /\ MaxCrashes \in Nat /\ MaxFailures \in Nat /\ MaxEarly \in Nat

VARIABLES
    \* struct Coordinator
    phase, mapTasks, reduceTasks, nMapDone, nReduceDone,
    up,              \* the coordinator process runs
    \* the files
    intermediate,    \* the pairs <<m, r>> for which mr-m-r exists
    output,          \* the map tasks whose data mr-out-r holds; {}: no such file
    \* the workers
    worker,          \* where each is, its task, and the local variables of its loop
    \* what the bounds count
    crashes, failures, early

coordinatorVars == <<phase, mapTasks, reduceTasks, nMapDone, nReduceDone, up>>
fileVars        == <<intermediate, output>>
boundVars       == <<crashes, failures, early>>
vars == <<coordinatorVars, fileVars, worker, boundVars>>

-----------------------------------------------------------------------------
(* THE COORDINATOR *)

IdleIn(tasks) == {i \in DOMAIN tasks : tasks[i] = "Idle"}

\* A worker in its loop, with no task.
AtLoop == [at |-> "idle", type |-> "none", id |-> 0, next |-> 0, got |-> {}, ok |-> FALSE]
Exited == [AtLoop EXCEPT !.at = "exited"]
With(type, id) == [AtLoop EXCEPT !.at = type, !.type = type, !.id = id]

Become(w, local) == worker' = [worker EXCEPT ![w] = local]

\* RequestTask() in the map phase, with a task to hand out.
RequestMap(w) ==
    /\ phase = "Map" /\ IdleIn(mapTasks) # {}
    /\ mapTasks' = [mapTasks EXCEPT ![Min(IdleIn(mapTasks))] = "Running"]
    /\ Become(w, With("map", Min(IdleIn(mapTasks))))
    /\ UNCHANGED <<phase, reduceTasks, nMapDone, nReduceDone>>

\* The reduce phase has come, or comes with this request.
Reducing == phase = "Reduce" \/ (phase = "Map" /\ IdleIn(mapTasks) = {} /\ nMapDone = NMap)

\* RequestTask() while maps are still running elsewhere: TaskWait.
WaitForMaps(w) ==
    /\ phase = "Map" /\ IdleIn(mapTasks) = {} /\ nMapDone # NMap
    /\ UNCHANGED <<phase, mapTasks, reduceTasks, nMapDone, nReduceDone, worker>>

\* RequestTask() in the reduce phase, with a task to hand out.
RequestReduce(w) ==
    /\ Reducing /\ IdleIn(reduceTasks) # {}
    /\ phase' = "Reduce"
    /\ reduceTasks' = [reduceTasks EXCEPT ![Min(IdleIn(reduceTasks))] = "Running"]
    /\ Become(w, With("reduce", Min(IdleIn(reduceTasks))))
    /\ UNCHANGED <<mapTasks, nMapDone, nReduceDone>>

\* RequestTask() once every reduce task is handed out: TaskExit if all are done, or TaskWait.
RequestExit(w) ==
    /\ Reducing /\ IdleIn(reduceTasks) = {}
    /\ IF nReduceDone = NReduce
         THEN phase' = "Done" /\ Become(w, Exited)
         ELSE phase' = "Reduce" /\ UNCHANGED worker
    /\ UNCHANGED <<mapTasks, reduceTasks, nMapDone, nReduceDone>>

\* RequestTask() after the end.
RequestDone(w) ==
    /\ phase = "Done"
    /\ Become(w, Exited)
    /\ UNCHANGED <<phase, mapTasks, reduceTasks, nMapDone, nReduceDone>>

RequestTask(w) ==
    /\ worker[w].at = "idle" /\ up
    /\ RequestMap(w) \/ WaitForMaps(w) \/ RequestReduce(w) \/ RequestExit(w) \/ RequestDone(w)
    /\ UNCHANGED <<up, fileVars, boundVars>>

AcceptsAny(tasks, id) == TRUE                                     \* mutant
\* A report counts only while the coordinator waits for one.
Accepts(tasks, id) == tasks[id] = "Running"

\* ReportTask(), of a map or of a reduce task.
ReportTask(w) ==
    LET me == worker[w]
        new == IF me.ok THEN "Finished" ELSE "Idle"
    IN  /\ me.at = "report" /\ up
        /\ \/ /\ me.type = "map" /\ Accepts(mapTasks, me.id)
              /\ mapTasks' = [mapTasks EXCEPT ![me.id] = new]
              /\ nMapDone' = nMapDone + IF me.ok THEN 1 ELSE 0
              /\ UNCHANGED <<reduceTasks, nReduceDone>>
           \/ /\ me.type = "reduce" /\ Accepts(reduceTasks, me.id)
              /\ reduceTasks' = [reduceTasks EXCEPT ![me.id] = new]
              /\ nReduceDone' = nReduceDone + IF me.ok THEN 1 ELSE 0
              /\ UNCHANGED <<mapTasks, nMapDone>>
           \/ /\ ~Accepts(IF me.type = "map" THEN mapTasks ELSE reduceTasks, me.id)
              /\ UNCHANGED <<mapTasks, reduceTasks, nMapDone, nReduceDone>>
        /\ Become(w, AtLoop)
        /\ UNCHANGED <<phase, up, fileVars, boundVars>>

\* Whether some worker is still at work on a task.
Alive(type, id) ==
    \E w \in Worker : /\ worker[w].at \in {"map", "reduce", "remove", "report"}
                      /\ worker[w].type = type /\ worker[w].id = id

\* mutant: only map tasks are looked at.
OverdueMaps(kind) == IF kind = "map" THEN {m \in MapTask : mapTasks[m] = "Running"} ELSE {}
\* The tasks checkTimeout() looks at in this phase.
Overdue(kind) ==
    IF kind = "map" THEN {m \in MapTask : mapTasks[m] = "Running"}
                    ELSE {r \in ReduceTask : reduceTasks[r] = "Running"}

\* One pass of checkTimeout(): the tasks running for more than 10 s are handed out again.
CheckTimeout(late) ==
    LET kind == IF phase = "Map" THEN "map" ELSE "reduce"
        reset(tasks) == [i \in DOMAIN tasks |-> IF i \in late THEN "Idle" ELSE tasks[i]]
        hitsAlive == \E i \in late : Alive(kind, i)
    IN  /\ up /\ phase # "Done"
        /\ late # {} /\ late \subseteq Overdue(kind)
        /\ hitsAlive => early < MaxEarly
        /\ early' = early + IF hitsAlive THEN 1 ELSE 0
        /\ mapTasks' = IF kind = "map" THEN reset(mapTasks) ELSE mapTasks
        /\ reduceTasks' = IF kind = "reduce" THEN reset(reduceTasks) ELSE reduceTasks
        /\ UNCHANGED <<phase, nMapDone, nReduceDone, up, fileVars, worker, crashes, failures>>

\* main() of mrcoordinator.go returns once Done() does.
CoordinatorExits ==
    /\ up /\ phase = "Done"
    /\ up' = FALSE
    /\ UNCHANGED <<phase, mapTasks, reduceTasks, nMapDone, nReduceDone, fileVars, worker, boundVars>>

-----------------------------------------------------------------------------
(* THE WORKERS *)

\* call() cannot reach the coordinator any more: the worker process ends.
CallFails(w) ==
    /\ worker[w].at \in {"idle", "report"} /\ ~up
    /\ Become(w, Exited)
    /\ UNCHANGED <<coordinatorVars, fileVars, boundVars>>

\* mutant: one file too many is written.
WriteBucketTooMany(w) ==
    LET me == worker[w]
    IN  /\ me.at = "map"
        /\ intermediate' = intermediate \cup {<<me.id, me.next>>}
        /\ Become(w, IF me.next = NReduce THEN [me EXCEPT !.at = "report", !.ok = TRUE]
                                          ELSE [me EXCEPT !.next = @ + 1])
        /\ UNCHANGED <<coordinatorVars, output, boundVars>>

\* executeMapTask(): mapf, and then one intermediate file after the other.
WriteBucket(w) ==
    LET me == worker[w]
    IN  /\ me.at = "map"
        /\ intermediate' = intermediate \cup {<<me.id, me.next>>}
        /\ Become(w, IF me.next + 1 = NReduce THEN [me EXCEPT !.at = "report", !.ok = TRUE]
                                              ELSE [me EXCEPT !.next = @ + 1])
        /\ UNCHANGED <<coordinatorVars, output, boundVars>>

\* mutant: a missing file is taken for an empty one.
ReadBucketOrNothing(w) ==
    LET me == worker[w]
    IN  /\ me.at = "reduce" /\ me.next < NMap
        /\ Become(w, [me EXCEPT !.next = @ + 1,
                                !.got = @ \cup {m \in {me.next} : <<m, me.id>> \in intermediate}])
        /\ UNCHANGED <<coordinatorVars, fileVars, boundVars>>

\* mutant: a file is removed as soon as it is read.
ReadAndRemoveBucket(w) ==
    LET me == worker[w]
    IN  /\ me.at = "reduce" /\ me.next < NMap
        /\ intermediate' = intermediate \ {<<me.next, me.id>>}
        /\ Become(w, IF <<me.next, me.id>> \in intermediate
                       THEN [me EXCEPT !.next = @ + 1, !.got = @ \cup {me.next}]
                       ELSE [me EXCEPT !.at = "report", !.ok = FALSE])
        /\ UNCHANGED <<coordinatorVars, output, boundVars>>

\* executeReduceTask(): the intermediate files of this task, one after the other.
ReadBucket(w) ==
    LET me == worker[w]
    IN  /\ me.at = "reduce" /\ me.next < NMap
        /\ Become(w, IF <<me.next, me.id>> \in intermediate
                       THEN [me EXCEPT !.next = @ + 1, !.got = @ \cup {me.next}]
                       ELSE [me EXCEPT !.at = "report", !.ok = FALSE])
        /\ UNCHANGED <<coordinatorVars, fileVars, boundVars>>

\* executeReduceTask(): reducef on everything read, and the output file.
WriteOutput(w) ==
    LET me == worker[w]
    IN  /\ me.at = "reduce" /\ me.next = NMap
        /\ output' = [output EXCEPT ![me.id] = me.got]
        /\ Become(w, [me EXCEPT !.at = "remove", !.next = 0])
        /\ UNCHANGED <<coordinatorVars, intermediate, boundVars>>

\* executeReduceTask(): the inputs are removed, one after the other.
RemoveBucket(w) ==
    LET me == worker[w]
    IN  /\ me.at = "remove"
        /\ intermediate' = intermediate \ {<<me.next, me.id>>}
        /\ Become(w, IF me.next + 1 = NMap THEN [me EXCEPT !.at = "report", !.ok = TRUE]
                                           ELSE [me EXCEPT !.next = @ + 1])
        /\ UNCHANGED <<coordinatorVars, output, boundVars>>

\* ReadFile or atomicWrite returns an error: the task is reported as failed.
FileFails(w) ==
    /\ worker[w].at \in {"map", "reduce"}
    /\ failures < MaxFailures
    /\ failures' = failures + 1
    /\ Become(w, [worker[w] EXCEPT !.at = "report", !.ok = FALSE])
    /\ UNCHANGED <<coordinatorVars, fileVars, crashes, early>>

\* A worker process dies and another one is started in its place.
Crash(w) ==
    /\ worker[w].at \in CrashPoints
    /\ crashes < MaxCrashes
    /\ crashes' = crashes + 1
    /\ Become(w, AtLoop)
    /\ UNCHANGED <<coordinatorVars, fileVars, failures, early>>

-----------------------------------------------------------------------------
(* SPECIFICATION *)

\* MakeCoordinator(), and workers that have just been started.
Init ==
    /\ phase = "Map"
    /\ mapTasks = [m \in MapTask |-> "Idle"]
    /\ reduceTasks = [r \in ReduceTask |-> "Idle"]
    /\ nMapDone = 0 /\ nReduceDone = 0
    /\ up = TRUE
    /\ intermediate = {}
    /\ output = [r \in ReduceTask |-> {}]
    /\ worker = [w \in Worker |-> AtLoop]
    /\ crashes = 0 /\ failures = 0 /\ early = 0

WorkerStep(w) ==
    \/ RequestTask(w) \/ ReportTask(w) \/ CallFails(w)
    \/ WriteBucket(w) \/ ReadBucket(w) \/ WriteOutput(w) \/ RemoveBucket(w)

Next ==
    \/ \E w \in Worker : WorkerStep(w) \/ FileFails(w) \/ Crash(w)
    \/ \E late \in SUBSET (MapTask \cup ReduceTask) : CheckTimeout(late)
    \/ CoordinatorExits

Spec == Init /\ [][Next]_vars

(***************************************************************************)
(* Fairness.  Workers that do not crash keep running, checkTimeout() runs  *)
(* every five seconds and finds the tasks nobody is working on, and main() *)
(* asks Done() once a second.                                              *)
(***************************************************************************)
FairSpec ==
    /\ Spec
    /\ \A w \in Worker : WF_vars(WorkerStep(w))
    /\ WF_vars(\E late \in SUBSET (MapTask \cup ReduceTask) :
                  early' = early /\ CheckTimeout(late))
    /\ WF_vars(CoordinatorExits)

-----------------------------------------------------------------------------
(* PROPERTIES *)

TaskState == {"Idle", "Running", "Finished"}
Local == [at: WorkerAt, type: {"none", "map", "reduce"}, id: Nat, next: Nat,
          got: SUBSET MapTask, ok: BOOLEAN]

\* The values the coordinator's fields, the files and a worker's locals may hold.
TypeOK ==
    /\ phase \in {"Map", "Reduce", "Done"}
    /\ mapTasks \in [MapTask -> TaskState]
    /\ reduceTasks \in [ReduceTask -> TaskState]
    /\ nMapDone \in Nat /\ nReduceDone \in Nat
    /\ up \in BOOLEAN
    /\ intermediate \subseteq MapTask \X ReduceTask
    /\ output \in [ReduceTask -> SUBSET MapTask]
    /\ worker \in [Worker -> Local]
    /\ crashes \in Nat /\ failures \in Nat /\ early \in Nat

\* Done() is true only when every output file is there and holds the data of every map
\* task, whoever ran a task twice, removed its inputs meanwhile or died over it.
OutputComplete == phase = "Done" => \A r \in ReduceTask : output[r] = MapTask

\* Every report that counts is counted once, although a task that was handed out twice
\* is reported twice.
DoneCounted ==
    /\ nMapDone = Cardinality({m \in MapTask : mapTasks[m] = "Finished"})
    /\ nReduceDone = Cardinality({r \in ReduceTask : reduceTasks[r] = "Finished"})

\* The result of a finished map task is never lost: for every reduce task it is in the
\* intermediate file or already in the output file.
ResultsKept ==
    \A m \in MapTask, r \in ReduceTask :
        mapTasks[m] = "Finished" => <<m, r>> \in intermediate \/ output[r] = MapTask

\* What has been finished stays finished: no late report and no timeout takes it back,
\* and an output file once complete is never replaced by less.
FinishedIsFinal ==
    [][/\ \A m \in MapTask : mapTasks[m] = "Finished" => mapTasks'[m] = "Finished"
       /\ \A r \in ReduceTask : reduceTasks[r] = "Finished" => reduceTasks'[r] = "Finished"
       /\ \A r \in ReduceTask : output[r] = MapTask => output'[r] = MapTask]_vars

\* A reduce task that cannot be done any more: some of its inputs are gone.
Orphaned(r) ==
    /\ phase = "Reduce" /\ reduceTasks[r] # "Finished"
    /\ \E m \in MapTask : <<m, r>> \notin intermediate

\* The job ends: Done() becomes true and every worker is sent home, whatever crashes,
\* fails or is handed out twice.  There is one exception: a worker removes the inputs of
\* its reduce task and the task is not counted as finished, since the worker crashes
\* before its report or the task was taken back from it.
JobEnds ==
    \/ <>(~up /\ \A w \in Worker : worker[w].at = "exited")
    \/ <>[](\E r \in ReduceTask : Orphaned(r))

\* A reduce task that is waiting to be handed out again gets done (README.md: a task
\* can be run again without side effects).
RerunsSucceed ==
    \A r \in ReduceTask :
        (phase = "Reduce" /\ reduceTasks[r] = "Idle") ~> (reduceTasks[r] = "Finished")
=============================================================================

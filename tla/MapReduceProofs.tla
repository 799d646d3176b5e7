--------------------------- MODULE MapReduceProofs ---------------------------
(***************************************************************************)
(* Proofs about the MapReduce job, for any numbers of workers, of tasks, of *)
(* crashes, of file errors and of tasks handed out twice.                  *)
(***************************************************************************)
EXTENDS MapReduce, FiniteSetTheorems, WellFoundedInduction, TLAPS

-----------------------------------------------------------------------------
(* THE INDUCTIVE INVARIANT *)

\* Between the files mr-m-r in inter and the outputs out, nothing of map task m is lost
\* to reduce task r.
Kept(inter, out, m, r) == <<m, r>> \in inter \/ out[r] = MapTask

\* What a worker has done for its task, by where it is in its loop: every bucket before the
\* one it writes, every input before the one it reads, its output before it removes an
\* input, and all of it before it reports success.
WorkDone(me, inter, out) ==
    /\ me.at = "map" =>
          /\ me.type = "map" /\ me.id \in MapTask /\ me.next \in ReduceTask
          /\ \A r \in ReduceTask : r < me.next => Kept(inter, out, me.id, r)
    /\ me.at = "reduce" =>
          me.type = "reduce" /\ me.id \in ReduceTask /\ me.next <= NMap /\ me.got = 0 .. me.next - 1
    /\ me.at = "remove" =>
          /\ me.type = "reduce" /\ me.id \in ReduceTask /\ me.next \in MapTask
          /\ out[me.id] = MapTask
    /\ me.at = "report" =>
          \/ /\ me.type = "map" /\ me.id \in MapTask
             /\ me.ok => \A r \in ReduceTask : Kept(inter, out, me.id, r)
          \/ /\ me.type = "reduce" /\ me.id \in ReduceTask
             /\ me.ok => out[me.id] = MapTask

\* A reduce task is finished only with its output in place.
ReducesDone == \A r \in ReduceTask : reduceTasks[r] = "Finished" => output[r] = MapTask

\* The job is over only with every reduce task finished.
AllReduced == phase = "Done" => \A r \in ReduceTask : reduceTasks[r] = "Finished"

\* The invariant the theorems rest on.
JobInv ==
    /\ TypeOK
    /\ \A w \in Worker : WorkDone(worker[w], intermediate, output)
    /\ DoneCounted
    /\ ResultsKept
    /\ ReducesDone
    /\ AllReduced

-----------------------------------------------------------------------------
(* TASKS AND THEIR COUNTS *)

\* A nonempty set of naturals has a least element, which Min returns.
LEMMA MinIsMember ==
  ASSUME NEW T, T \subseteq Nat, T # {}
  PROVE  Min(T) \in T
<1> DEFINE R == OpToRel(<, Nat)
<1>1. IsWellFoundedOn(R, Nat)
  BY Zenon, NatLessThanWellFounded
<1>2. \A x, y \in Nat : y < x => <<y, x>> \in R
  BY DEF OpToRel
<1> HIDE DEF R
<1>3. PICK x \in T : \A y \in T : ~ (<<y, x>> \in R)
  BY <1>1, WFMin
<1>4. ASSUME NEW y \in T PROVE x =< y
  <2>1. ~ (y < x)
    BY <1>2, <1>3
  <2> QED BY <2>1
<1> QED BY <1>4 DEF Min

\* The finished tasks of the table tasks.
FinishedIn(S, tasks) == {i \in S : tasks[i] = "Finished"}

\* The tasks are finitely many, as many as the files of the job.
LEMMA TaskSets ==
  /\ MapTask \subseteq Nat /\ IsFiniteSet(MapTask) /\ Cardinality(MapTask) = NMap
  /\ ReduceTask \subseteq Nat /\ IsFiniteSet(ReduceTask) /\ Cardinality(ReduceTask) = NReduce
<1>1. NMap \in Nat \ {0} /\ NReduce \in Nat \ {0}
  BY MapReduceAssumption
<1>2. MapTask = 0 .. NMap - 1 /\ ReduceTask = 0 .. NReduce - 1
  BY DEF MapTask, ReduceTask
<1>3. NMap - 1 \in Int /\ NReduce - 1 \in Int /\ 0 \in Int
  BY <1>1
<1>4. /\ IsFiniteSet(0 .. NMap - 1)
      /\ Cardinality(0 .. NMap - 1) = IF 0 > NMap - 1 THEN 0 ELSE (NMap - 1) - 0 + 1
  BY <1>3, FS_Interval
<1>5. /\ IsFiniteSet(0 .. NReduce - 1)
      /\ Cardinality(0 .. NReduce - 1) = IF 0 > NReduce - 1 THEN 0 ELSE (NReduce - 1) - 0 + 1
  BY <1>3, FS_Interval
<1> QED BY <1>1, <1>2, <1>4, <1>5

\* Finishing a task that was not finished adds one to the count; any other change that
\* finishes none and takes none back leaves it.
LEMMA CountFinished ==
  ASSUME NEW S, IsFiniteSet(S), NEW tasks \in [S -> TaskState], NEW i \in S,
         tasks[i] # "Finished"
  PROVE  LET after == [tasks EXCEPT ![i] = "Finished"]
         IN  Cardinality(FinishedIn(S, after)) = Cardinality(FinishedIn(S, tasks)) + 1
<1> DEFINE F == FinishedIn(S, tasks)
<1>1. F \in SUBSET S /\ i \notin F
  BY DEF FinishedIn
<1>2. FinishedIn(S, [tasks EXCEPT ![i] = "Finished"]) = F \cup {i}
  BY DEF FinishedIn
<1>3. IsFiniteSet(F)
  BY <1>1, FS_Subset
<1> HIDE DEF F
<1>4. Cardinality(F \cup {i}) = Cardinality(F) + 1
  BY <1>1, <1>3, FS_AddElement
<1> QED BY <1>2, <1>4 DEF F

\* As many finished tasks as there are tasks: all of them.
LEMMA AllFinished ==
  ASSUME NEW S, IsFiniteSet(S), NEW tasks,
         Cardinality(FinishedIn(S, tasks)) = Cardinality(S)
  PROVE  \A i \in S : tasks[i] = "Finished"
<1> DEFINE F == FinishedIn(S, tasks)
<1>1. F \in SUBSET S /\ Cardinality(F) = Cardinality(S)
  BY DEF FinishedIn
<1> HIDE DEF F
<1>2. F = S
  BY <1>1, FS_Subset
<1> QED BY <1>2 DEF F, FinishedIn

\* DoneCounted in terms of FinishedIn.
LEMMA DoneCountedMeans ==
  /\ DoneCounted <=> /\ nMapDone = Cardinality(FinishedIn(MapTask, mapTasks))
                     /\ nReduceDone = Cardinality(FinishedIn(ReduceTask, reduceTasks))
  /\ DoneCounted' <=> /\ nMapDone' = Cardinality(FinishedIn(MapTask, mapTasks'))
                      /\ nReduceDone' = Cardinality(FinishedIn(ReduceTask, reduceTasks'))
BY DEF DoneCounted, FinishedIn

-----------------------------------------------------------------------------
(* THE WORKERS *)

\* What a step may do to the files: nothing kept is lost.
FilesKept ==
    /\ intermediate' \subseteq MapTask \X ReduceTask
    /\ output' \in [ReduceTask -> SUBSET MapTask]
    /\ \A m \in MapTask, r \in ReduceTask :
          Kept(intermediate, output, m, r) => Kept(intermediate', output', m, r)
    /\ \A r \in ReduceTask : output[r] = MapTask => output'[r] = MapTask

\* What a worker has done stays done.
LEMMA WorkStaysDone ==
  ASSUME FilesKept, NEW me \in Local, WorkDone(me, intermediate, output)
  PROVE  WorkDone(me, intermediate', output')
BY DEF FilesKept, WorkDone, Local

LEMMA FilesUntouched ==
  ASSUME TypeOK, UNCHANGED fileVars
  PROVE  FilesKept
BY DEF TypeOK, FilesKept, fileVars, Kept

\* One worker moves, to local variables that describe what it has done.
LEMMA OneWorkerMoves ==
  ASSUME JobInv, NEW w \in Worker, NEW local \in Local, FilesKept,
         WorkDone(local, intermediate', output'), worker' = [worker EXCEPT ![w] = local]
  PROVE  /\ worker' \in [Worker -> Local]
         /\ \A v \in Worker : WorkDone(worker'[v], intermediate', output')
<1>1. worker \in [Worker -> Local] /\ worker' \in [Worker -> Local]
  BY DEF JobInv, TypeOK
<1>2. worker'[w] = local /\ \A v \in Worker \ {w} : worker'[v] = worker[v]
  BY <1>1
<1>3. \A v \in Worker : worker[v] \in Local /\ WorkDone(worker[v], intermediate, output)
  BY <1>1 DEF JobInv
<1>4. \A v \in Worker \ {w} : WorkDone(worker'[v], intermediate', output')
  BY <1>2, <1>3, WorkStaysDone
<1> QED BY <1>1, <1>2, <1>4

\* ... or none does.
LEMMA NoWorkerMoves ==
  ASSUME JobInv, FilesKept, UNCHANGED worker
  PROVE  /\ worker' \in [Worker -> Local]
         /\ \A v \in Worker : WorkDone(worker'[v], intermediate', output')
BY WorkStaysDone DEF JobInv, TypeOK

\* A worker with no task, or with one it has just been given, has nothing to show.
LEMMA FreshWorker ==
  ASSUME NEW inter, NEW out
  PROVE  /\ AtLoop \in Local /\ WorkDone(AtLoop, inter, out)
         /\ Exited \in Local /\ WorkDone(Exited, inter, out)
         /\ \A m \in MapTask : /\ With("map", m) \in Local
                               /\ WorkDone(With("map", m), inter, out)
         /\ \A r \in ReduceTask : /\ With("reduce", r) \in Local
                                  /\ WorkDone(With("reduce", r), inter, out)
<1>1. NMap \in Nat \ {0} /\ NReduce \in Nat \ {0} /\ MapTask \subseteq Nat /\ ReduceTask \subseteq Nat
  BY MapReduceAssumption, TaskSets
<1>2. AtLoop \in Local /\ WorkDone(AtLoop, inter, out)
  BY DEF AtLoop, Local, WorkDone, WorkerAt
<1>3. Exited \in Local /\ WorkDone(Exited, inter, out)
  BY DEF Exited, AtLoop, Local, WorkDone, WorkerAt
<1>4. ASSUME NEW type \in {"map", "reduce"}, NEW i \in Nat
      PROVE  /\ With(type, i) \in Local
             /\ With(type, i).at = type /\ With(type, i).type = type /\ With(type, i).id = i
             /\ With(type, i).next = 0 /\ With(type, i).got = {}
  <2>1. AtLoop.next = 0 /\ AtLoop.got = {}
    BY DEF AtLoop
  <2> DEFINE new == With(type, i)
  <2>2. new = [AtLoop EXCEPT !.at = type, !.type = type, !.id = i]
    BY DEF With
  <2> HIDE DEF new
  <2>3. /\ new \in Local /\ new.at = type /\ new.type = type /\ new.id = i
        /\ new.next = AtLoop.next /\ new.got = AtLoop.got
    BY <1>2, <2>2 DEF Local, WorkerAt
  <2> QED BY <2>1, <2>3 DEF new
<1>5. ASSUME NEW m \in MapTask
      PROVE  With("map", m) \in Local /\ WorkDone(With("map", m), inter, out)
  <2> DEFINE new == With("map", m)
  <2>1. /\ new \in Local /\ new.at = "map" /\ new.type = "map" /\ new.id = m /\ new.next = 0
    BY <1>1, <1>4
  <2> HIDE DEF new
  <2>2. 0 \in ReduceTask
    BY <1>1 DEF ReduceTask
  <2>3. WorkDone(new, inter, out)
    BY <1>1, <2>1, <2>2 DEF WorkDone
  <2> QED BY <2>1, <2>3 DEF new
<1>6. ASSUME NEW r \in ReduceTask
      PROVE  With("reduce", r) \in Local /\ WorkDone(With("reduce", r), inter, out)
  <2> DEFINE new == With("reduce", r)
  <2>1. /\ new \in Local /\ new.at = "reduce" /\ new.type = "reduce" /\ new.id = r
        /\ new.next = 0 /\ new.got = {}
    BY <1>1, <1>4
  <2> HIDE DEF new
  <2>2. WorkDone(new, inter, out)
    BY <1>1, <2>1 DEF WorkDone
  <2> QED BY <2>1, <2>2 DEF new
<1> QED BY <1>2, <1>3, <1>5, <1>6

\* A step that leaves the coordinator alone and loses nothing preserves the invariant.
LEMMA WorkerOnly ==
  ASSUME JobInv, NEW w \in Worker, NEW local \in Local, FilesKept, UNCHANGED coordinatorVars,
         WorkDone(local, intermediate', output'), Become(w, local),
         crashes' \in Nat, failures' \in Nat, early' \in Nat
  PROVE  JobInv'
<1>1. /\ worker' \in [Worker -> Local]
      /\ \A v \in Worker : WorkDone(worker'[v], intermediate', output')
  BY OneWorkerMoves DEF Become
<1>2. /\ phase' = phase /\ mapTasks' = mapTasks /\ reduceTasks' = reduceTasks
      /\ nMapDone' = nMapDone /\ nReduceDone' = nReduceDone /\ up' = up
  BY DEF coordinatorVars
<1>3. TypeOK'
  BY <1>1, <1>2 DEF JobInv, TypeOK, FilesKept
<1>4. DoneCounted' /\ AllReduced'
  BY <1>2 DEF JobInv, DoneCounted, AllReduced
<1>5. ResultsKept' /\ ReducesDone'
  BY <1>2 DEF JobInv, ResultsKept, ReducesDone, FilesKept, Kept
<1> QED BY <1>1, <1>3, <1>4, <1>5 DEF JobInv

\* The parts of a worker's local variables.
LEMMA LocalParts ==
  ASSUME JobInv, NEW w \in Worker
  PROVE  /\ worker[w] \in Local /\ WorkDone(worker[w], intermediate, output)
         /\ worker[w].at \in WorkerAt /\ worker[w].type \in {"none", "map", "reduce"}
         /\ worker[w].id \in Nat /\ worker[w].next \in Nat /\ worker[w].got \in SUBSET MapTask
         /\ worker[w].ok \in BOOLEAN
BY DEF JobInv, TypeOK, Local

\* The local variables after an assignment to where the worker is and to ok, or to next and got.
LEMMA LocalReports ==
  ASSUME NEW me \in Local, NEW ok \in BOOLEAN
  PROVE  LET new == [me EXCEPT !.at = "report", !.ok = ok]
         IN  /\ new \in Local /\ new.at = "report" /\ new.ok = ok
             /\ new.type = me.type /\ new.id = me.id
BY DEF Local, WorkerAt

LEMMA LocalGoesOn ==
  ASSUME NEW me \in Local
  PROVE  LET new == [me EXCEPT !.next = @ + 1]
         IN  /\ new \in Local /\ new.at = me.at /\ new.next = me.next + 1
             /\ new.type = me.type /\ new.id = me.id
BY DEF Local

LEMMA LocalRemoves ==
  ASSUME NEW me \in Local
  PROVE  LET new == [me EXCEPT !.at = "remove", !.next = 0]
         IN  /\ new \in Local /\ new.at = "remove" /\ new.next = 0
             /\ new.type = me.type /\ new.id = me.id
BY DEF Local, WorkerAt

LEMMA WriteBucketInv ==
  ASSUME JobInv, NEW w \in Worker, WriteBucket(w)
  PROVE  JobInv'
<1> DEFINE me == worker[w]
           more == [me EXCEPT !.next = @ + 1]
           done == [me EXCEPT !.at = "report", !.ok = TRUE]
<1>1. /\ me \in Local /\ me.at = "map" /\ me.type = "map" /\ me.id \in MapTask /\ me.next \in ReduceTask
      /\ me.next \in Nat /\ \A r \in ReduceTask : r < me.next => Kept(intermediate, output, me.id, r)
  BY LocalParts DEF WriteBucket, WorkDone
<1>2. /\ intermediate' = intermediate \cup {<<me.id, me.next>>}
      /\ Become(w, IF me.next + 1 = NReduce THEN done ELSE more)
      /\ UNCHANGED coordinatorVars /\ output' = output /\ UNCHANGED boundVars
  BY DEF WriteBucket
<1>3. FilesKept
  BY <1>1, <1>2 DEF FilesKept, JobInv, TypeOK, Kept
<1>4. crashes' \in Nat /\ failures' \in Nat /\ early' \in Nat
  BY <1>2 DEF boundVars, JobInv, TypeOK
<1>5. /\ done \in Local /\ done.at = "report" /\ done.ok = TRUE /\ done.type = "map" /\ done.id = me.id
  BY <1>1, LocalReports
<1>6. /\ more \in Local /\ more.at = "map" /\ more.next = me.next + 1 /\ more.type = "map" /\ more.id = me.id
  BY <1>1, LocalGoesOn
<1> HIDE DEF me, more, done
<1>7. \A r \in ReduceTask : r < me.next + 1 => Kept(intermediate', output', me.id, r)
  <2> SUFFICES ASSUME NEW r \in ReduceTask, r < me.next + 1
               PROVE  Kept(intermediate', output', me.id, r)
    OBVIOUS
  <2>1. CASE r = me.next
    BY <1>2, <2>1 DEF Kept
  <2>2. CASE r # me.next
    <3>1. r < me.next
      BY <1>1, <2>2, TaskSets
    <3> QED BY <1>1, <1>3, <3>1 DEF FilesKept
  <2> QED BY <2>1, <2>2
<1>8. CASE me.next + 1 = NReduce
  <2>1. \A r \in ReduceTask : r < me.next + 1
    BY <1>8, MapReduceAssumption DEF ReduceTask
  <2>2. WorkDone(done, intermediate', output')
    BY <1>1, <1>5, <1>7, <2>1 DEF WorkDone
  <2> QED BY <1>2, <1>3, <1>4, <1>5, <1>8, <2>2, WorkerOnly
<1>9. CASE me.next + 1 # NReduce
  <2>1. me.next + 1 \in ReduceTask
    BY <1>1, <1>9, MapReduceAssumption DEF ReduceTask
  <2>2. WorkDone(more, intermediate', output')
    BY <1>1, <1>6, <1>7, <2>1 DEF WorkDone
  <2> QED BY <1>2, <1>3, <1>4, <1>6, <1>9, <2>2, WorkerOnly
<1> QED BY <1>8, <1>9

LEMMA ReadBucketInv ==
  ASSUME JobInv, NEW w \in Worker, ReadBucket(w)
  PROVE  JobInv'
<1> DEFINE me == worker[w]
           more == [me EXCEPT !.next = @ + 1, !.got = @ \cup {me.next}]
           failed == [me EXCEPT !.at = "report", !.ok = FALSE]
<1>1. /\ me \in Local /\ me.at = "reduce" /\ me.type = "reduce" /\ me.id \in ReduceTask
      /\ me.next \in Nat /\ me.next < NMap /\ me.got = 0 .. me.next - 1
  BY LocalParts DEF ReadBucket, WorkDone
<1>2. /\ Become(w, IF <<me.next, me.id>> \in intermediate THEN more ELSE failed)
      /\ UNCHANGED coordinatorVars /\ UNCHANGED fileVars /\ UNCHANGED boundVars
  BY DEF ReadBucket
<1>3. FilesKept /\ crashes' \in Nat /\ failures' \in Nat /\ early' \in Nat
  BY <1>2, FilesUntouched DEF boundVars, JobInv, TypeOK
<1>4. me.next \in MapTask
  BY <1>1, MapReduceAssumption DEF MapTask
<1>5. /\ failed \in Local /\ failed.at = "report" /\ failed.ok = FALSE
      /\ failed.type = "reduce" /\ failed.id = me.id
  BY <1>1, LocalReports
<1>6. /\ more \in Local /\ more.at = "reduce" /\ more.next = me.next + 1
      /\ more.type = "reduce" /\ more.id = me.id /\ more.got = me.got \cup {me.next}
  <2> DEFINE got == me.got \cup {me.next}
  <2>1. got \in SUBSET MapTask
    BY <1>1, <1>4 DEF Local
  <2>2. more = [me EXCEPT !.next = me.next + 1, !.got = got] /\ me.next + 1 \in Nat
    BY <1>1
  <2> HIDE DEF got, more, me
  <2>3. /\ more \in Local /\ more.at = me.at /\ more.next = me.next + 1
        /\ more.type = me.type /\ more.id = me.id /\ more.got = got
    BY <1>1, <2>1, <2>2 DEF Local
  <2> QED BY <1>1, <2>3 DEF got
<1> HIDE DEF me, more, failed
<1>7. more.got = 0 .. more.next - 1 /\ more.next <= NMap
  BY <1>1, <1>6, MapReduceAssumption
<1>8. WorkDone(more, intermediate', output') /\ WorkDone(failed, intermediate', output')
  BY <1>1, <1>5, <1>6, <1>7 DEF WorkDone
<1> QED BY <1>2, <1>3, <1>5, <1>6, <1>8, WorkerOnly

LEMMA WriteOutputInv ==
  ASSUME JobInv, NEW w \in Worker, WriteOutput(w)
  PROVE  JobInv'
<1> DEFINE me == worker[w]
           new == [me EXCEPT !.at = "remove", !.next = 0]
<1>1. /\ me \in Local /\ me.type = "reduce" /\ me.id \in ReduceTask /\ me.got = MapTask
  BY LocalParts DEF WriteOutput, WorkDone, MapTask
<1>2. /\ output' = [output EXCEPT ![me.id] = MapTask] /\ intermediate' = intermediate
      /\ Become(w, new) /\ UNCHANGED coordinatorVars /\ UNCHANGED boundVars
  BY <1>1 DEF WriteOutput
<1>3. FilesKept /\ crashes' \in Nat /\ failures' \in Nat /\ early' \in Nat
  BY <1>1, <1>2 DEF FilesKept, JobInv, TypeOK, Kept, boundVars
<1>4. new \in Local /\ new.at = "remove" /\ new.next = 0 /\ new.type = "reduce" /\ new.id = me.id
  BY <1>1, LocalRemoves
<1>5. output'[me.id] = MapTask /\ 0 \in MapTask
  BY <1>1, <1>2, MapReduceAssumption DEF JobInv, TypeOK, MapTask
<1> HIDE DEF me, new
<1>6. WorkDone(new, intermediate', output')
  BY <1>1, <1>4, <1>5 DEF WorkDone
<1> QED BY <1>2, <1>3, <1>4, <1>6, WorkerOnly

LEMMA RemoveBucketInv ==
  ASSUME JobInv, NEW w \in Worker, RemoveBucket(w)
  PROVE  JobInv'
<1> DEFINE me == worker[w]
           more == [me EXCEPT !.next = @ + 1]
           done == [me EXCEPT !.at = "report", !.ok = TRUE]
<1>1. /\ me \in Local /\ me.at = "remove" /\ me.type = "reduce" /\ me.id \in ReduceTask
      /\ me.next \in MapTask /\ output[me.id] = MapTask
  BY LocalParts DEF RemoveBucket, WorkDone
<1>2. /\ intermediate' = intermediate \ {<<me.next, me.id>>}
      /\ Become(w, IF me.next + 1 = NMap THEN done ELSE more)
      /\ UNCHANGED coordinatorVars /\ output' = output /\ UNCHANGED boundVars
  BY DEF RemoveBucket
<1>3. /\ done \in Local /\ done.at = "report" /\ done.type = "reduce" /\ done.id = me.id
  BY <1>1, LocalReports
<1>4. more \in Local /\ more.at = "remove" /\ more.next = me.next + 1 /\ more.type = "reduce" /\ more.id = me.id
  BY <1>1, LocalGoesOn
<1> HIDE DEF me, more, done
<1>5. FilesKept
  BY <1>1, <1>2 DEF FilesKept, JobInv, TypeOK, Kept
<1>6. crashes' \in Nat /\ failures' \in Nat /\ early' \in Nat
  BY <1>2 DEF boundVars, JobInv, TypeOK
<1>7. me.next + 1 # NMap => me.next + 1 \in MapTask
  BY <1>1, MapReduceAssumption DEF MapTask
<1>8. WorkDone(done, intermediate', output')
  BY <1>1, <1>2, <1>3 DEF WorkDone
<1>9. me.next + 1 # NMap => WorkDone(more, intermediate', output')
  BY <1>1, <1>2, <1>4, <1>7 DEF WorkDone
<1> QED BY <1>2, <1>3, <1>4, <1>5, <1>6, <1>8, <1>9, WorkerOnly

\* A worker fails its task, dies, or finds the coordinator gone.
LEMMA WorkerFailsInv ==
  ASSUME JobInv, NEW w \in Worker, FileFails(w) \/ Crash(w) \/ CallFails(w)
  PROVE  JobInv'
<1> DEFINE me == worker[w]
           failed == [me EXCEPT !.at = "report", !.ok = FALSE]
<1>1. UNCHANGED coordinatorVars /\ UNCHANGED fileVars
  BY DEF FileFails, Crash, CallFails
<1>2. FilesKept
  BY <1>1, FilesUntouched DEF JobInv
<1>3. crashes' \in Nat /\ failures' \in Nat /\ early' \in Nat
  BY DEF FileFails, Crash, CallFails, boundVars, JobInv, TypeOK
<1>4. CASE FileFails(w)
  <2>1. me \in Local /\ WorkDone(me, intermediate, output) /\ me.at \in {"map", "reduce"} /\ Become(w, failed)
    BY <1>4, LocalParts DEF FileFails
  <2>2. /\ failed \in Local /\ failed.at = "report" /\ failed.ok = FALSE
        /\ failed.type = me.type /\ failed.id = me.id
    BY <2>1, LocalReports
  <2> HIDE DEF me, failed
  <2>3. WorkDone(failed, intermediate', output')
    BY <2>1, <2>2 DEF WorkDone
  <2> QED BY <1>1, <1>2, <1>3, <2>1, <2>2, <2>3, WorkerOnly
<1>5. CASE Crash(w)
  BY <1>1, <1>2, <1>3, <1>5, FreshWorker, WorkerOnly DEF Crash
<1>6. CASE CallFails(w)
  BY <1>1, <1>2, <1>3, <1>6, FreshWorker, WorkerOnly DEF CallFails
<1> QED BY <1>4, <1>5, <1>6

-----------------------------------------------------------------------------
(* THE COORDINATOR *)

\* What RequestTask(), ReportTask() and checkTimeout() may do to a table of tasks without
\* finishing one: the finished tasks are the same.
LEMMA NoneFinishes ==
  ASSUME JobInv, UNCHANGED fileVars,
         mapTasks' \in [MapTask -> TaskState], reduceTasks' \in [ReduceTask -> TaskState],
         \A m \in MapTask : mapTasks'[m] = "Finished" <=> mapTasks[m] = "Finished",
         \A r \in ReduceTask : reduceTasks'[r] = "Finished" <=> reduceTasks[r] = "Finished",
         nMapDone' = nMapDone, nReduceDone' = nReduceDone
  PROVE  DoneCounted' /\ ResultsKept' /\ ReducesDone' /\ (phase' = phase => AllReduced')
<1>1. /\ FinishedIn(MapTask, mapTasks') = FinishedIn(MapTask, mapTasks)
      /\ FinishedIn(ReduceTask, reduceTasks') = FinishedIn(ReduceTask, reduceTasks)
  BY DEF FinishedIn
<1>2. DoneCounted'
  BY <1>1, DoneCountedMeans DEF JobInv
<1>3. intermediate' = intermediate /\ output' = output
  BY DEF fileVars
<1>4. ResultsKept' /\ ReducesDone' /\ (phase' = phase => AllReduced')
  BY <1>3 DEF JobInv, ResultsKept, ReducesDone, AllReduced
<1> QED BY <1>2, <1>4

\* A table of tasks after one idle task is handed out.
LEMMA HandOut ==
  ASSUME NEW S, S \subseteq Nat, NEW tasks \in [S -> TaskState], IdleIn(tasks) # {}
  PROVE  /\ Min(IdleIn(tasks)) \in S
         /\ [tasks EXCEPT ![Min(IdleIn(tasks))] = "Running"] \in [S -> TaskState]
         /\ \A i \in S : [tasks EXCEPT ![Min(IdleIn(tasks))] = "Running"][i] = "Finished"
                            <=> tasks[i] = "Finished"
<1> DEFINE i == Min(IdleIn(tasks))
<1>1. IdleIn(tasks) \subseteq S
  BY DEF IdleIn
<1>2. i \in IdleIn(tasks)
  BY <1>1, MinIsMember
<1>3. i \in S /\ tasks[i] = "Idle"
  BY <1>1, <1>2 DEF IdleIn
<1> HIDE DEF i
<1>4. /\ [tasks EXCEPT ![i] = "Running"] \in [S -> TaskState]
      /\ \A j \in S : [tasks EXCEPT ![i] = "Running"][j] = "Finished" <=> tasks[j] = "Finished"
  BY <1>3 DEF TaskState
<1> QED BY <1>3, <1>4 DEF i

\* All reduce tasks are finished when as many reports were counted.
LEMMA CountReached ==
  ASSUME JobInv, nReduceDone = NReduce
  PROVE  \A r \in ReduceTask : reduceTasks[r] = "Finished"
<1>1. nReduceDone = Cardinality(FinishedIn(ReduceTask, reduceTasks))
  BY DoneCountedMeans DEF JobInv
<1> QED BY <1>1, TaskSets, AllFinished

LEMMA RequestTaskInv ==
  ASSUME JobInv, NEW w \in Worker, RequestTask(w)
  PROVE  JobInv'
<1>1. UNCHANGED fileVars /\ up' = up /\ crashes' = crashes /\ failures' = failures /\ early' = early
  BY DEF RequestTask, boundVars
<1>2. FilesKept /\ TypeOK
  BY <1>1, FilesUntouched DEF JobInv
<1>3. ASSUME phase' \in {"Map", "Reduce", "Done"},
             mapTasks' \in [MapTask -> TaskState], reduceTasks' \in [ReduceTask -> TaskState],
             \A m \in MapTask : mapTasks'[m] = "Finished" <=> mapTasks[m] = "Finished",
             \A r \in ReduceTask : reduceTasks'[r] = "Finished" <=> reduceTasks[r] = "Finished",
             nMapDone' = nMapDone, nReduceDone' = nReduceDone, AllReduced',
             /\ worker' \in [Worker -> Local]
             /\ \A v \in Worker : WorkDone(worker'[v], intermediate', output')
      PROVE  JobInv'
  <2>1. DoneCounted' /\ ResultsKept' /\ ReducesDone'
    BY <1>1, <1>3, NoneFinishes
  <2>2. TypeOK'
    BY <1>1, <1>2, <1>3 DEF TypeOK, FilesKept
  <2> QED BY <1>3, <2>1, <2>2 DEF JobInv
<1>4. /\ mapTasks \in [MapTask -> TaskState] /\ MapTask \subseteq Nat
      /\ reduceTasks \in [ReduceTask -> TaskState] /\ ReduceTask \subseteq Nat
      /\ phase \in {"Map", "Reduce", "Done"} /\ AllReduced
  BY TaskSets DEF JobInv, TypeOK
<1>5. ASSUME NEW local \in Local, WorkDone(local, intermediate', output'), Become(w, local)
      PROVE  /\ worker' \in [Worker -> Local]
             /\ \A v \in Worker : WorkDone(worker'[v], intermediate', output')
  BY <1>2, <1>5, OneWorkerMoves DEF Become
<1>6. CASE RequestMap(w)
  <2>1. /\ Min(IdleIn(mapTasks)) \in MapTask
        /\ mapTasks' \in [MapTask -> TaskState]
        /\ \A m \in MapTask : mapTasks'[m] = "Finished" <=> mapTasks[m] = "Finished"
    BY <1>4, <1>6, HandOut DEF RequestMap
  <2>2. /\ Become(w, With("map", Min(IdleIn(mapTasks))))
        /\ UNCHANGED <<phase, reduceTasks, nMapDone, nReduceDone>>
    BY <1>6 DEF RequestMap
  <2>3. AllReduced'
    BY <1>4, <2>2 DEF AllReduced
  <2>4. /\ worker' \in [Worker -> Local]
        /\ \A v \in Worker : WorkDone(worker'[v], intermediate', output')
    BY <1>5, <2>1, <2>2, FreshWorker
  <2> QED BY <1>3, <1>4, <2>1, <2>2, <2>3, <2>4
<1>7. CASE WaitForMaps(w)
  <2>1. UNCHANGED <<phase, mapTasks, reduceTasks, nMapDone, nReduceDone, worker>>
    BY <1>7 DEF WaitForMaps
  <2>2. AllReduced'
    BY <1>4, <2>1 DEF AllReduced
  <2> QED BY <1>2, <1>3, <1>4, <2>1, <2>2, NoWorkerMoves
<1>8. CASE RequestReduce(w)
  <2>1. /\ Min(IdleIn(reduceTasks)) \in ReduceTask
        /\ reduceTasks' \in [ReduceTask -> TaskState]
        /\ \A r \in ReduceTask : reduceTasks'[r] = "Finished" <=> reduceTasks[r] = "Finished"
    BY <1>4, <1>8, HandOut DEF RequestReduce
  <2>2. /\ Become(w, With("reduce", Min(IdleIn(reduceTasks))))
        /\ phase' = "Reduce" /\ UNCHANGED <<mapTasks, nMapDone, nReduceDone>>
    BY <1>8 DEF RequestReduce
  <2>3. AllReduced'
    BY <2>2 DEF AllReduced
  <2>4. /\ worker' \in [Worker -> Local]
        /\ \A v \in Worker : WorkDone(worker'[v], intermediate', output')
    BY <1>5, <2>1, <2>2, FreshWorker
  <2> QED BY <1>3, <1>4, <2>1, <2>2, <2>3, <2>4
<1>9. CASE RequestExit(w)
  <2>1. UNCHANGED <<mapTasks, reduceTasks, nMapDone, nReduceDone>>
    BY <1>9 DEF RequestExit
  <2>2. CASE nReduceDone = NReduce
    <3>1. phase' = "Done" /\ Become(w, Exited)
      BY <1>9, <2>2 DEF RequestExit
    <3>2. AllReduced'
      BY <2>1, <2>2, CountReached DEF AllReduced
    <3> QED BY <1>3, <1>4, <1>5, <2>1, <3>1, <3>2, FreshWorker
  <2>3. CASE nReduceDone # NReduce
    <3>1. phase' = "Reduce" /\ UNCHANGED worker
      BY <1>9, <2>3 DEF RequestExit
    <3>2. AllReduced'
      BY <3>1 DEF AllReduced
    <3> QED BY <1>2, <1>3, <1>4, <2>1, <3>1, <3>2, NoWorkerMoves
  <2> QED BY <2>2, <2>3
<1>10. CASE RequestDone(w)
  <2>1. Become(w, Exited) /\ UNCHANGED <<phase, mapTasks, reduceTasks, nMapDone, nReduceDone>>
    BY <1>10 DEF RequestDone
  <2>2. AllReduced'
    BY <1>4, <2>1 DEF AllReduced
  <2> QED BY <1>3, <1>4, <1>5, <2>1, <2>2, FreshWorker
<1> QED BY <1>6, <1>7, <1>8, <1>9, <1>10 DEF RequestTask

\* A report of success finishes a task whose work is done, and is counted once: the
\* coordinator accepts it from a running task only.
LEMMA ReportTaskInv ==
  ASSUME JobInv, NEW w \in Worker, ReportTask(w)
  PROVE  JobInv'
<1> DEFINE me == worker[w]
           new == IF me.ok THEN "Finished" ELSE "Idle"
<1>1. /\ UNCHANGED fileVars /\ UNCHANGED <<phase, up>> /\ UNCHANGED boundVars
      /\ Become(w, AtLoop) /\ me.at = "report"
      /\ \/ /\ me.type = "map" /\ mapTasks[me.id] = "Running"
            /\ mapTasks' = [mapTasks EXCEPT ![me.id] = new]
            /\ nMapDone' = nMapDone + IF me.ok THEN 1 ELSE 0
            /\ UNCHANGED <<reduceTasks, nReduceDone>>
         \/ /\ me.type = "reduce" /\ reduceTasks[me.id] = "Running"
            /\ reduceTasks' = [reduceTasks EXCEPT ![me.id] = new]
            /\ nReduceDone' = nReduceDone + IF me.ok THEN 1 ELSE 0
            /\ UNCHANGED <<mapTasks, nMapDone>>
         \/ UNCHANGED <<mapTasks, reduceTasks, nMapDone, nReduceDone>>
  BY DEF ReportTask, Accepts
<1>2. FilesKept /\ TypeOK /\ me.ok \in BOOLEAN
  BY <1>1, FilesUntouched, LocalParts DEF JobInv
<1>3. \/ /\ me.type = "map" /\ me.id \in MapTask
         /\ me.ok => \A r \in ReduceTask : Kept(intermediate, output, me.id, r)
      \/ /\ me.type = "reduce" /\ me.id \in ReduceTask
         /\ me.ok => output[me.id] = MapTask
  BY <1>1, LocalParts DEF WorkDone
<1>4. /\ worker' \in [Worker -> Local]
      /\ \A v \in Worker : WorkDone(worker'[v], intermediate', output')
  BY <1>1, <1>2, FreshWorker, OneWorkerMoves DEF Become
<1>5. intermediate' = intermediate /\ output' = output
  BY <1>1 DEF fileVars
<1> HIDE DEF me
<1>6. /\ mapTasks \in [MapTask -> TaskState] /\ reduceTasks \in [ReduceTask -> TaskState]
      /\ nMapDone \in Nat /\ nReduceDone \in Nat /\ new \in TaskState
  BY <1>2 DEF TypeOK, TaskState
<1>7. TypeOK'
  <2>1. /\ mapTasks' \in [MapTask -> TaskState] /\ reduceTasks' \in [ReduceTask -> TaskState]
        /\ nMapDone' \in Nat /\ nReduceDone' \in Nat
    <3> HIDE DEF new
    <3> QED BY <1>1, <1>6
  <2> QED BY <1>1, <1>2, <1>4, <1>5, <2>1 DEF TypeOK, boundVars
<1>8. ASSUME me.type = "map", mapTasks[me.id] = "Running", me.ok,
             mapTasks' = [mapTasks EXCEPT ![me.id] = new],
             nMapDone' = nMapDone + 1, UNCHANGED <<reduceTasks, nReduceDone>>
      PROVE  DoneCounted' /\ ResultsKept' /\ ReducesDone' /\ AllReduced'
  <2>1. me.id \in MapTask /\ \A r \in ReduceTask : Kept(intermediate, output, me.id, r)
    BY <1>3, <1>8
  <2>2. mapTasks' = [mapTasks EXCEPT ![me.id] = "Finished"] /\ mapTasks[me.id] # "Finished"
    BY <1>8
  <2>3. Cardinality(FinishedIn(MapTask, mapTasks')) = Cardinality(FinishedIn(MapTask, mapTasks)) + 1
    BY <1>6, <2>1, <2>2, TaskSets, CountFinished
  <2>4. DoneCounted'
    BY <1>8, <2>3, DoneCountedMeans DEF JobInv
  <2>5. ResultsKept'
    BY <1>5, <1>6, <2>1, <2>2 DEF JobInv, ResultsKept, Kept
  <2> QED BY <1>1, <1>5, <1>8, <2>4, <2>5 DEF JobInv, ReducesDone, AllReduced
<1>9. ASSUME me.type = "reduce", reduceTasks[me.id] = "Running", me.ok,
             reduceTasks' = [reduceTasks EXCEPT ![me.id] = new],
             nReduceDone' = nReduceDone + 1, UNCHANGED <<mapTasks, nMapDone>>
      PROVE  DoneCounted' /\ ResultsKept' /\ ReducesDone' /\ AllReduced'
  <2>1. me.id \in ReduceTask /\ output[me.id] = MapTask
    BY <1>3, <1>9
  <2>2. reduceTasks' = [reduceTasks EXCEPT ![me.id] = "Finished"] /\ reduceTasks[me.id] # "Finished"
    BY <1>9
  <2>3. Cardinality(FinishedIn(ReduceTask, reduceTasks'))
          = Cardinality(FinishedIn(ReduceTask, reduceTasks)) + 1
    BY <1>6, <2>1, <2>2, TaskSets, CountFinished
  <2>4. DoneCounted'
    BY <1>9, <2>3, DoneCountedMeans DEF JobInv
  <2>5. ReducesDone' /\ AllReduced'
    BY <1>1, <1>5, <1>6, <2>1, <2>2 DEF JobInv, ReducesDone, AllReduced
  <2> QED BY <1>5, <1>9, <2>4, <2>5 DEF JobInv, ResultsKept
<1>10. ASSUME nMapDone' = nMapDone, nReduceDone' = nReduceDone,
              \A m \in MapTask : mapTasks'[m] = "Finished" <=> mapTasks[m] = "Finished",
              \A r \in ReduceTask : reduceTasks'[r] = "Finished" <=> reduceTasks[r] = "Finished"
       PROVE  DoneCounted' /\ ResultsKept' /\ ReducesDone' /\ AllReduced'
  BY <1>1, <1>7, <1>10, NoneFinishes DEF TypeOK
<1>11. CASE ~me.ok
  <2>1. /\ nMapDone' = nMapDone /\ nReduceDone' = nReduceDone
        /\ \A m \in MapTask : mapTasks'[m] = "Finished" <=> mapTasks[m] = "Finished"
        /\ \A r \in ReduceTask : reduceTasks'[r] = "Finished" <=> reduceTasks[r] = "Finished"
    BY <1>1, <1>6, <1>11
  <2> QED BY <1>4, <1>7, <1>10, <2>1 DEF JobInv
<1>12. CASE me.ok
  <2>1. DoneCounted' /\ ResultsKept' /\ ReducesDone' /\ AllReduced'
    BY <1>1, <1>8, <1>9, <1>10, <1>12
  <2> QED BY <1>4, <1>7, <2>1 DEF JobInv
<1> QED BY <1>2, <1>11, <1>12

\* checkTimeout() takes back running tasks only.
LEMMA CheckTimeoutInv ==
  ASSUME JobInv, NEW late \in SUBSET (MapTask \cup ReduceTask), CheckTimeout(late)
  PROVE  JobInv'
<1> DEFINE reset(tasks) == [i \in DOMAIN tasks |-> IF i \in late THEN "Idle" ELSE tasks[i]]
<1>1. /\ UNCHANGED fileVars /\ UNCHANGED <<phase, nMapDone, nReduceDone, up, worker, crashes, failures>>
      /\ \/ /\ mapTasks' = reset(mapTasks) /\ reduceTasks' = reduceTasks
            /\ late \subseteq {m \in MapTask : mapTasks[m] = "Running"}
         \/ /\ reduceTasks' = reset(reduceTasks) /\ mapTasks' = mapTasks
            /\ late \subseteq {r \in ReduceTask : reduceTasks[r] = "Running"}
  BY DEF CheckTimeout, Overdue
<1>2. early' \in Nat
  BY DEF CheckTimeout, JobInv, TypeOK
<1>3. FilesKept /\ TypeOK
  BY <1>1, FilesUntouched DEF JobInv
<1>4. mapTasks \in [MapTask -> TaskState] /\ reduceTasks \in [ReduceTask -> TaskState]
  BY <1>3 DEF TypeOK
<1>5. /\ mapTasks' \in [MapTask -> TaskState] /\ reduceTasks' \in [ReduceTask -> TaskState]
      /\ \A m \in MapTask : mapTasks'[m] = "Finished" <=> mapTasks[m] = "Finished"
      /\ \A r \in ReduceTask : reduceTasks'[r] = "Finished" <=> reduceTasks[r] = "Finished"
  BY <1>1, <1>4 DEF TaskState
<1>6. DoneCounted' /\ ResultsKept' /\ ReducesDone' /\ AllReduced'
  BY <1>1, <1>5, NoneFinishes
<1>7. /\ worker' \in [Worker -> Local]
      /\ \A v \in Worker : WorkDone(worker'[v], intermediate', output')
  BY <1>1, <1>3, NoWorkerMoves
<1>8. TypeOK'
  BY <1>1, <1>2, <1>3, <1>5, <1>7 DEF TypeOK, FilesKept
<1> QED BY <1>6, <1>7, <1>8 DEF JobInv

-----------------------------------------------------------------------------
(* THE THEOREMS *)

LEMMA NextJobInv == JobInv /\ [Next]_vars => JobInv'
<1> SUFFICES ASSUME JobInv, [Next]_vars PROVE JobInv'
  OBVIOUS
<1>1. CASE UNCHANGED vars
  BY <1>1 DEF vars, coordinatorVars, fileVars, boundVars, JobInv, TypeOK, DoneCounted, ResultsKept,
              ReducesDone, AllReduced
<1>2. ASSUME NEW w \in Worker, WorkerStep(w) \/ FileFails(w) \/ Crash(w) PROVE JobInv'
  BY <1>2, RequestTaskInv, ReportTaskInv, WorkerFailsInv, WriteBucketInv, ReadBucketInv,
     WriteOutputInv, RemoveBucketInv DEF WorkerStep
<1>3. ASSUME NEW late \in SUBSET (MapTask \cup ReduceTask), CheckTimeout(late) PROVE JobInv'
  BY <1>3, CheckTimeoutInv
<1>4. CASE CoordinatorExits
  <2>1. UNCHANGED <<phase, mapTasks, reduceTasks, nMapDone, nReduceDone, fileVars, worker, boundVars>>
        /\ up' = FALSE
    BY <1>4 DEF CoordinatorExits
  <2> QED BY <2>1 DEF fileVars, boundVars, JobInv, TypeOK, DoneCounted, ResultsKept,
                      ReducesDone, AllReduced
<1> QED BY <1>1, <1>2, <1>3, <1>4 DEF Next

LEMMA InitJobInv == Init => JobInv
<1> SUFFICES ASSUME Init PROVE JobInv
  OBVIOUS
<1>1. TypeOK
  BY FreshWorker DEF Init, TypeOK, TaskState
<1>2. \A w \in Worker : WorkDone(worker[w], intermediate, output)
  BY FreshWorker DEF Init
<1>3. FinishedIn(MapTask, mapTasks) = {} /\ FinishedIn(ReduceTask, reduceTasks) = {}
  BY DEF Init, FinishedIn
<1>4. DoneCounted
  BY <1>3, DoneCountedMeans, FS_EmptySet DEF Init
<1> QED BY <1>1, <1>2, <1>4 DEF Init, JobInv, ResultsKept, ReducesDone, AllReduced

LEMMA JobInvariant == Spec => []JobInv
BY InitJobInv, NextJobInv, PTL DEF Spec

\* The coordinator's fields, the files and the workers' locals keep their types.
THEOREM JobTypes == Spec => []TypeOK
<1>1. JobInv => TypeOK
  BY DEF JobInv
<1> QED BY <1>1, JobInvariant, PTL

\* Every counted report is counted once: nMapDone and nReduceDone are the numbers of
\* finished tasks, however often a task is handed out and reported.
THEOREM ReportsCountOnce == Spec => []DoneCounted
<1>1. JobInv => DoneCounted
  BY DEF JobInv
<1> QED BY <1>1, JobInvariant, PTL

\* No result of a finished map task is ever lost, although reduce workers remove the
\* intermediate files.
THEOREM NoResultIsLost == Spec => []ResultsKept
<1>1. JobInv => ResultsKept
  BY DEF JobInv
<1> QED BY <1>1, JobInvariant, PTL

\* Done() answers true only when every output file is there and complete.
THEOREM DoneMeansComplete == Spec => []OutputComplete
<1>1. JobInv => OutputComplete
  BY DEF JobInv, AllReduced, ReducesDone, OutputComplete
<1> QED BY <1>1, JobInvariant, PTL

\* No late report, timeout or repeated task takes back a finished task or a complete
\* output file.
THEOREM FinishedStays == Spec => FinishedIsFinal
<1> DEFINE Stays == /\ \A m \in MapTask : mapTasks[m] = "Finished" => mapTasks'[m] = "Finished"
                    /\ \A r \in ReduceTask : reduceTasks[r] = "Finished" => reduceTasks'[r] = "Finished"
                    /\ \A r \in ReduceTask : output[r] = MapTask => output'[r] = MapTask
<1>1. JobInv /\ [Next]_vars => [Stays]_vars
  <2> SUFFICES ASSUME JobInv, Next PROVE Stays
    OBVIOUS
  <2>1. /\ mapTasks \in [MapTask -> TaskState] /\ reduceTasks \in [ReduceTask -> TaskState]
        /\ output \in [ReduceTask -> SUBSET MapTask]
    BY DEF JobInv, TypeOK
  <2>2. ASSUME NEW w \in Worker, RequestTask(w) PROVE Stays
    <3>1. output' = output
      BY <2>2 DEF RequestTask, fileVars
    <3>2. CASE RequestMap(w)
      BY <2>1, <3>1, <3>2, HandOut, TaskSets DEF RequestMap
    <3>3. CASE RequestReduce(w)
      BY <2>1, <3>1, <3>3, HandOut, TaskSets DEF RequestReduce
    <3>4. CASE UNCHANGED <<mapTasks, reduceTasks>>
      BY <3>1, <3>4
    <3> QED BY <2>2, <3>2, <3>3, <3>4 DEF RequestTask, WaitForMaps, RequestExit, RequestDone
  <2>3. ASSUME NEW w \in Worker, ReportTask(w) PROVE Stays
    <3>1. output' = output
      BY <2>3 DEF ReportTask, fileVars
    <3> QED BY <2>1, <2>3, <3>1 DEF ReportTask, Accepts
  <2>4. ASSUME NEW w \in Worker, WriteOutput(w) PROVE Stays
    <3>1. worker[w].got = MapTask
      BY <2>4, LocalParts DEF WriteOutput, WorkDone, MapTask
    <3> QED BY <2>1, <2>4, <3>1 DEF WriteOutput, coordinatorVars
  <2>5. ASSUME NEW w \in Worker,
               \/ CallFails(w) \/ WriteBucket(w) \/ ReadBucket(w) \/ RemoveBucket(w)
               \/ FileFails(w) \/ Crash(w)
        PROVE Stays
    BY <2>5 DEF CallFails, WriteBucket, ReadBucket, RemoveBucket, FileFails, Crash, coordinatorVars,
                fileVars
  <2>6. ASSUME NEW late \in SUBSET (MapTask \cup ReduceTask), CheckTimeout(late) PROVE Stays
    BY <2>1, <2>6 DEF CheckTimeout, Overdue, fileVars
  <2>7. CASE CoordinatorExits
    BY <2>7 DEF CoordinatorExits, fileVars
  <2> QED BY <2>2, <2>3, <2>4, <2>5, <2>6, <2>7 DEF Next, WorkerStep
<1> QED BY <1>1, JobInvariant, PTL DEF Spec, FinishedIsFinal

=============================================================================

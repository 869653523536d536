-------------------------- MODULE ScanTasks_proofs --------------------------
(***************************************************************************)
(* Proofs about ScanTasks, for every number of detectors, chunks and tasks *)
(* and every Concurrency: the type invariant, the semaphore bound, the     *)
(* absence of goroutines that outlive the call, and that the report is     *)
(* complete and the same whatever order the goroutines ran in.             *)
(***************************************************************************)
EXTENDS ScanTasks, FiniteSetTheorems, TLAPS

\* Where the caller is, and what that says of the goroutines: a goroutine
\* exists for exactly the tasks the dispatch loop has passed, and none is
\* alive once the WaitGroup has let the caller through.
ControlInv ==
    /\ tasks \in Seq(TasksIn(world))
    /\ pc = "call" => next = 1 /\ tasks = <<>>
    /\ next <= Len(tasks) + 1
    /\ pc \in {"acquire", "results"} => next <= Len(tasks)
    /\ pc = "wait" => next = Len(tasks) + 1
    /\ pc \in {"call", "loop", "acquire", "wait"} =>
          \A i \in Slots : g[i] # "none" <=> i < next
    /\ pc \in {"assemble", "results", "done", "panicked"} =>
          \A i \in Slots : IF i <= Len(tasks) THEN g[i] = "exited" ELSE g[i] = "none"

\* The channel holds one token for each goroutine that has not released its
\* slot, the WaitGroup counts those alive and the one about to be started.
CountInv ==
    /\ sem = Cardinality(Holding)
    /\ sem <= Concurrency
    /\ wg = Cardinality(Alive) + (IF pc = "acquire" THEN 1 ELSE 0)

IInv == TypeOK /\ ControlInv /\ CountInv

-----------------------------------------------------------------------------
(* Counting.                                                               *)

\* The sets of goroutines that are counted are finite.
LEMMA CountedAreFinite == IsFiniteSet(Holding) /\ IsFiniteSet(Alive)
<1>1. IsFiniteSet(Slots)
  BY SizesAssumption, FS_Interval DEF Slots
<1>2. Holding \in SUBSET Slots /\ Alive \in SUBSET Slots
  BY DEF Holding, Alive
<1> QED BY <1>1, <1>2, FS_Subset

\* Adding a goroutine to a counted set, or taking one out, changes its count
\* by one; with no member added or removed the count stays.
LEMMA CountAdd ==
  ASSUME NEW S, NEW T, NEW x, IsFiniteSet(S), x \notin S, T = S \cup {x}
  PROVE  Cardinality(T) = Cardinality(S) + 1 /\ Cardinality(T) \in Nat
BY FS_AddElement, FS_CardinalityType

\* Removing an element lowers a count by one.
LEMMA CountRemove ==
  ASSUME NEW S, NEW T, NEW x, IsFiniteSet(S), x \in S, T = S \ {x}
  PROVE  Cardinality(T) = Cardinality(S) - 1 /\ Cardinality(T) \in Nat
BY FS_RemoveElement, FS_CardinalityType

\* What a detector can do with the chunk of a listed task.
LEMMA OutcomeType ==
  ASSUME TypeOK, NEW t \in TasksIn(world)
  PROVE  OutcomeOf(t) \in [kind : {"ok", "error", "panic"}, res : Seq(Results)]
<1>1. t[1] \in Detectors /\ t[2] \in 1 .. MaxChunks /\ t[2] <= Len(world[t[1]])
  BY DEF TasksIn, Task
<1>2. PICK k \in 0 .. MaxChunks : world[t[1]] \in [1 .. k -> Outcomes]
  <2>1. world[t[1]] \in Chunks(MaxChunks)
    BY <1>1 DEF TypeOK, Worlds
  <2> QED BY <2>1 DEF Chunks
<1>3. world[t[1]] \in Seq(Outcomes) /\ Len(world[t[1]]) = k
  BY <1>2, SizesAssumption
<1>4. t[2] \in 1 .. k
  BY <1>1, <1>3, SizesAssumption
<1>5. world[t[1]][t[2]] \in Outcomes
  BY <1>2, <1>4
<1> QED BY <1>5, OutcomesAssumption DEF OutcomeOf

\* The updates the caller makes to its report keep its type.
LEMMA TruncatedUpdate ==
  ASSUME NEW rep \in Reports, NEW b \in BOOLEAN, NEW new, new = [rep EXCEPT !.truncated = b]
  PROVE  new \in Reports
BY DEF Reports

\* A report with one more error is a report.
LEMMA ErrorsUpdate ==
  ASSUME NEW rep \in Reports, NEW t \in Task, NEW new,
         new = [rep EXCEPT !.errors = Append(@, t)] \/ new = [rep EXCEPT !.errors = @]
  PROVE  new \in Reports
<1>1. rep.errors \in Seq(Task)
  BY DEF Reports
<1>2. Append(rep.errors, t) \in Seq(Task)
  BY <1>1
<1>3. \A e \in Seq(Task) : [rep EXCEPT !.errors = e] \in Reports
  BY DEF Reports
<1> QED BY <1>1, <1>2, <1>3

\* A report with more findings is a report.
LEMMA FindingsUpdate ==
  ASSUME NEW rep \in Reports, NEW f \in Found, NEW new,
         new = [rep EXCEPT !.findings = Append(@, f)] \/ new = [rep EXCEPT !.findings = @]
  PROVE  new \in Reports
<1>1. rep.findings \in Seq(Found)
  BY DEF Reports
<1>2. Append(rep.findings, f) \in Seq(Found)
  BY <1>1
<1>3. \A e \in Seq(Found) : [rep EXCEPT !.findings = e] \in Reports
  BY DEF Reports
<1> QED BY <1>1, <1>2, <1>3

-----------------------------------------------------------------------------
(* The inductive invariant.                                                *)

\* Before the call nothing is running and every count is zero.
LEMMA InitInv == Init => IInv
<1> SUFFICES ASSUME Init PROVE IInv
  OBVIOUS
<1>1. TypeOK
  BY SizesAssumption, DefaultsAssumption
  DEF Init, TypeOK, PCs, Phases, EmptyReport, Reports
<1>2. ControlInv
  BY SizesAssumption DEF Init, ControlInv, Slots
<1>3. Holding = {} /\ Alive = {}
  BY DEF Init, Holding, Alive
<1>4. CountInv
  BY <1>3, FS_EmptySet, DefaultsAssumption DEF Init, CountInv
<1> QED BY <1>1, <1>2, <1>4 DEF IInv

\* The caller's steps that leave the goroutines and their counts alone.
LEMMA QuietStepInv ==
  ASSUME IInv,
         Prefilter \/ LoopExit \/ WaitReturns \/ ReportTaskError \/ BuildFinding
            \/ FalsePositiveCheckPanics \/ NextTask \/ ReturnReport
  PROVE  IInv'
<1> USE DEF IInv
<1>a. Holding' = Holding /\ Alive' = Alive /\ sem' = sem /\ wg' = wg
  BY DEF Prefilter, LoopExit, WaitReturns, ReportTaskError, BuildFinding,
     FalsePositiveCheckPanics, NextTask, ReturnReport, Holding, Alive
<1>b. pc # "acquire" /\ pc' # "acquire"
  BY DEF Prefilter, LoopExit, WaitReturns, ReportTaskError, BuildFinding,
     FalsePositiveCheckPanics, NextTask, ReturnReport
<1>c. CountInv'
  BY <1>a, <1>b DEF CountInv
<1>1. CASE Prefilter
  <2>0. report' \in Reports
    <3>1. TooLong \in BOOLEAN /\ report' = [report EXCEPT !.truncated = TooLong]
      BY <1>1 DEF Prefilter, TooLong
    <3>2. report \in Reports
      BY DEF TypeOK
    <3> QED BY <3>1, <3>2, TruncatedUpdate
  <2>1. CASE ScannedBytes = 0 /\ pc' = "done" /\ tasks' = tasks
    <3>1. TypeOK'
      BY <1>1, <2>0, <2>1 DEF Prefilter, TypeOK, PCs, env
    <3>2. ControlInv'
      BY <1>1, <2>1, SizesAssumption DEF Prefilter, ControlInv, TypeOK, Slots, env, TasksIn
    <3> QED BY <3>1, <3>2, <1>c
  <2>2. ASSUME NEW n \in 0 .. MaxTasks, NEW s \in [1 .. n -> TasksIn(world)],
               tasks' = s, pc' = IF n = 0 THEN "done" ELSE "loop"
        PROVE  IInv'
    <3>1. tasks' \in Seq(TasksIn(world)) /\ Len(tasks') = n
      BY <2>2, SizesAssumption
    <3>2. tasks' \in Seq(Task)
      BY <3>1 DEF TasksIn, Task
    <3>3. TypeOK'
      BY <1>1, <2>0, <2>2, <3>1, <3>2 DEF Prefilter, TypeOK, PCs, env
    <3>4. ControlInv'
      BY <1>1, <2>2, <3>1, SizesAssumption
      DEF Prefilter, ControlInv, TypeOK, Slots, env, TasksIn
    <3> QED BY <3>3, <3>4, <1>c
  <2> QED BY <1>1, <2>1, <2>2 DEF Prefilter
<1>2. CASE LoopExit
  <2>1. TypeOK'
    BY <1>2 DEF LoopExit, TypeOK, PCs, env
  <2>2. ControlInv'
    BY <1>2 DEF LoopExit, ControlInv, TypeOK, env, TasksIn
  <2> QED BY <2>1, <2>2, <1>c
<1>3. CASE WaitReturns
  <2>1. TypeOK'
    BY <1>3, SizesAssumption DEF WaitReturns, TypeOK, PCs, env
  <2>2. Alive = {}
    <3>1. Cardinality(Alive) \in Nat
      BY CountedAreFinite, FS_CardinalityType
    <3>2. Cardinality(Alive) = 0
      BY <1>3, <3>1 DEF WaitReturns, BarrierOpen, CountInv
    <3> QED BY <3>2, CountedAreFinite, FS_EmptySet
  <2>3. \A i \in Slots : g[i] \in {"none", "exited"}
    BY <2>2 DEF Alive, TypeOK, Phases
  <2>4. ControlInv'
    BY <1>3, <2>3, SizesAssumption DEF WaitReturns, ControlInv, TypeOK, Slots, env, TasksIn
  <2> QED BY <2>1, <2>4, <1>c
<1>4. CASE ReportTaskError
  <2>1. TypeOK'
    <3>1. tasks[next] \in Task
      BY <1>4 DEF ReportTaskError, TypeOK
    <3>2. report' = [report EXCEPT !.errors = IF errs[next] THEN Append(@, tasks[next]) ELSE @]
      BY <1>4 DEF ReportTaskError
    <3>3. report' \in Reports
      <4>1. report \in Reports
        BY DEF TypeOK
      <4>2. report' = [report EXCEPT !.errors = Append(@, tasks[next])]
              \/ report' = [report EXCEPT !.errors = @]
        BY <3>2
      <4> QED BY <3>1, <4>1, <4>2, ErrorsUpdate
    <3> QED BY <1>4, <3>3 DEF ReportTaskError, TypeOK, PCs, env
  <2>2. ControlInv'
    BY <1>4 DEF ReportTaskError, ControlInv, TypeOK, env, TasksIn
  <2> QED BY <2>1, <2>2, <1>c
<1>5. CASE BuildFinding
  <2>1. next \in Slots /\ tasks[next][1] \in Detectors
    <3>1. next \in 1 .. Len(tasks) /\ Len(tasks) <= MaxTasks
      BY <1>5 DEF BuildFinding, TypeOK, ControlInv
    <3>2. tasks[next] \in Task
      BY <3>1 DEF TypeOK
    <3> QED BY <3>1, <3>2, SizesAssumption DEF Slots, Task
  <2>2. results[next] \in Seq(Results) /\ r \in 1 .. Len(results[next])
    BY <1>5, <2>1 DEF BuildFinding, TypeOK
  <2>3. results[next][r] \in Results
    BY <2>2
  <2>4. results[next][r].id \in STRING /\ results[next][r].at \in Nat \cup {NoSpan}
    BY <2>3 DEF Results
  <2> DEFINE f == <<tasks[next][1], results[next][r].id, results[next][r].at>>
  <2>5. f \in Found
    BY <2>1, <2>4 DEF Found
  <2>6. seen' \subseteq Found
    BY <1>5, <2>5 DEF BuildFinding, DedupeKey, TypeOK
  <2>7. report' = [report EXCEPT !.findings = Append(@, f)]
          \/ report' = [report EXCEPT !.findings = @]
    BY <1>5 DEF BuildFinding, DedupeKey
  <2>8. report' \in Reports
    <3>1. report \in Reports
      BY DEF TypeOK
    <3> HIDE DEF f
    <3> QED BY <2>5, <2>7, <3>1, FindingsUpdate
  <2>9. r' \in Nat \ {0} /\ UNCHANGED <<env, pc, tasks, next, sem, wg, g, results, errs>>
    BY <1>5 DEF BuildFinding, TypeOK
  <2>10. TypeOK'
    BY <2>6, <2>8, <2>9 DEF TypeOK, env
  <2>11. ControlInv'
    BY <1>5 DEF BuildFinding, ControlInv, TypeOK, env, TasksIn
  <2> QED BY <2>10, <2>11, <1>c
<1>6. CASE FalsePositiveCheckPanics
  <2>1. TypeOK'
    BY <1>6 DEF FalsePositiveCheckPanics, TypeOK, PCs, env
  <2>2. ControlInv'
    BY <1>6 DEF FalsePositiveCheckPanics, ControlInv, TypeOK, env, TasksIn
  <2> QED BY <2>1, <2>2, <1>c
<1>7. CASE NextTask
  <2>1. TypeOK'
    BY <1>7, SizesAssumption DEF NextTask, TypeOK, ControlInv, PCs, env
  <2>2. ControlInv'
    BY <1>7 DEF NextTask, ControlInv, TypeOK, env, TasksIn
  <2> QED BY <2>1, <2>2, <1>c
<1>8. CASE ReturnReport
  <2>1. TypeOK'
    BY <1>8 DEF ReturnReport, TypeOK, PCs, env
  <2>2. ControlInv'
    BY <1>8 DEF ReturnReport, ControlInv, TypeOK, env, TasksIn
  <2> QED BY <2>1, <2>2, <1>c
<1> QED BY <1>1, <1>2, <1>3, <1>4, <1>5, <1>6, <1>7, <1>8

\* The caller's steps that count: wg.Add, and the send on the semaphore with
\* the goroutine it starts.
LEMMA DispatchStepInv ==
  ASSUME IInv, WgAdd \/ AcquireAndSpawn
  PROVE  IInv'
<1> USE DEF IInv
<1>1. CASE WgAdd
  <2>1. TypeOK'
    BY <1>1 DEF WgAdd, WgAddAmount, TypeOK, PCs, env
  <2>2. ControlInv'
    BY <1>1 DEF WgAdd, ControlInv, TypeOK, env, TasksIn
  <2>3. Holding' = Holding /\ Alive' = Alive
    BY <1>1 DEF WgAdd, Holding, Alive
  <2>4. Cardinality(Alive) \in Nat
    BY CountedAreFinite, FS_CardinalityType
  <2>5. CountInv'
    BY <1>1, <2>3, <2>4 DEF WgAdd, WgAddAmount, CountInv
  <2> QED BY <2>1, <2>2, <2>5
<1>2. CASE AcquireAndSpawn
  <2>1. next \in Slots /\ next <= Len(tasks) /\ next \in Nat
    BY <1>2, SizesAssumption DEF AcquireAndSpawn, ControlInv, TypeOK, Slots
  <2>2. g[next] = "none"
    BY <1>2, <2>1 DEF AcquireAndSpawn, ControlInv
  <2>3. TypeOK'
    BY <1>2, <2>1, SizesAssumption DEF AcquireAndSpawn, TypeOK, PCs, Phases, Slots, env
  <2>4. ControlInv'
    BY <1>2, <2>1, <2>2, SizesAssumption
    DEF AcquireAndSpawn, ControlInv, TypeOK, Slots, env, TasksIn
  <2>5. Holding' = Holding \cup {next} /\ Alive' = Alive \cup {next}
    BY <1>2, <2>1, <2>2 DEF AcquireAndSpawn, Holding, Alive, TypeOK
  <2>6. next \notin Holding /\ next \notin Alive
    BY <2>2 DEF Holding, Alive
  <2>7. /\ Cardinality(Holding') = Cardinality(Holding) + 1
        /\ Cardinality(Alive') = Cardinality(Alive) + 1
    BY <2>5, <2>6, CountedAreFinite, CountAdd
  <2>8. Cardinality(Alive) \in Nat
    BY CountedAreFinite, FS_CardinalityType
  <2>9. CountInv'
    BY <1>2, <2>7, <2>8, DefaultsAssumption
    DEF AcquireAndSpawn, SlotFree, CountInv, TypeOK
  <2> QED BY <2>3, <2>4, <2>9
<1> QED BY <1>1, <1>2

\* The steps of a detector goroutine.
LEMMA GoroutineStepInv ==
  ASSUME IInv, NEW i \in Slots, Goroutine(i)
  PROVE  IInv'
<1> USE DEF IInv
<1>a. i \in 1 .. Len(tasks) /\ g[i] \in {"running", "recorded", "released"}
  BY SizesAssumption
  DEF Goroutine, DetectorReturns, DetectorPanics, ReleaseSlot, WgDone,
      ControlInv, TypeOK, PCs, Slots
<1>b. pc \in {"call", "loop", "acquire", "wait"} /\ g[i] # "none" /\ pc' = pc
  BY <1>a
  DEF Goroutine, DetectorReturns, DetectorPanics, ReleaseSlot, WgDone,
      ControlInv, TypeOK, PCs
<1>c. ASSUME NEW phase \in Phases \ {"none"}, g' = [g EXCEPT ![i] = phase],
             UNCHANGED <<env, pc, tasks, next>>
      PROVE  ControlInv'
  BY <1>a, <1>b, <1>c DEF ControlInv, TypeOK, env, TasksIn
<1>d. tasks[i] \in TasksIn(world)
  BY <1>a DEF ControlInv
<1>e. IsFiniteSet(Holding) /\ IsFiniteSet(Alive)
  BY CountedAreFinite
<1>f. Cardinality(Holding) \in Nat /\ Cardinality(Alive) \in Nat
  BY <1>e, FS_CardinalityType
<1>1. CASE DetectorReturns(i)
  <2> DEFINE o == OutcomeOf(tasks[i])
  <2>1. o.res \in Seq(Results) /\ (o.kind = "error") \in BOOLEAN
    BY <1>d, OutcomeType
  <2>2. /\ results' = [results EXCEPT ![i] = o.res]
        /\ errs' = [errs EXCEPT ![i] = (o.kind = "error")]
        /\ g' = [g EXCEPT ![i] = "recorded"]
        /\ UNCHANGED <<env, pc, tasks, next, r, sem, wg, seen, report>>
    BY <1>1 DEF DetectorReturns, KeptResults
  <2> HIDE DEF o
  <2>3. TypeOK'
    BY <2>1, <2>2 DEF TypeOK, Phases, env
  <2>4. ControlInv'
    BY <2>2, <1>c DEF Phases
  <2>5. Holding' = Holding /\ Alive' = Alive
    BY <1>1, <2>2 DEF DetectorReturns, Holding, Alive, TypeOK
  <2>6. CountInv'
    BY <2>2, <2>5 DEF CountInv
  <2> QED BY <2>3, <2>4, <2>6
<1>2. CASE DetectorPanics(i)
  <2>1. TypeOK'
    BY <1>2 DEF DetectorPanics, PanicRecorded, TypeOK, Phases, env
  <2>2. ControlInv'
    BY <1>2, <1>c DEF DetectorPanics, Phases
  <2>3. Holding' = Holding /\ Alive' = Alive
    BY <1>2 DEF DetectorPanics, Holding, Alive, TypeOK
  <2>4. CountInv'
    BY <1>2, <2>3 DEF DetectorPanics, CountInv
  <2> QED BY <2>1, <2>2, <2>4
<1>3. CASE ReleaseSlot(i)
  <2>1. i \in Holding /\ Holding' = Holding \ {i} /\ Alive' = Alive
    BY <1>3 DEF ReleaseSlot, Holding, Alive, TypeOK
  <2>2. Cardinality(Holding') = Cardinality(Holding) - 1 /\ Cardinality(Holding') \in Nat
    BY <1>e, <2>1, CountRemove
  <2>3. sem' = sem - 1 /\ sem' \in Nat
    BY <1>3, <2>2 DEF ReleaseSlot, SlotReturned, CountInv
  <2>4. TypeOK'
    BY <1>3, <2>3 DEF ReleaseSlot, TypeOK, Phases, env
  <2>5. ControlInv'
    BY <1>3, <1>c DEF ReleaseSlot, Phases
  <2>6. CountInv'
    BY <1>3, <2>1, <2>2, <2>3, DefaultsAssumption DEF ReleaseSlot, CountInv, TypeOK
  <2> QED BY <2>4, <2>5, <2>6
<1>4. CASE WgDone(i)
  <2>1. i \in Alive /\ Alive' = Alive \ {i} /\ Holding' = Holding
    BY <1>4 DEF WgDone, Holding, Alive, TypeOK
  <2>2. Cardinality(Alive') = Cardinality(Alive) - 1 /\ Cardinality(Alive') \in Nat
    BY <1>e, <2>1, CountRemove
  <2>3. wg' = wg - 1 /\ wg' \in Nat
    BY <1>4, <1>f, <2>2 DEF WgDone, CountInv
  <2>4. TypeOK'
    BY <1>4, <2>3 DEF WgDone, TypeOK, Phases, env
  <2>5. ControlInv'
    BY <1>4, <1>c DEF WgDone, Phases
  <2>6. CountInv'
    BY <1>4, <1>f, <2>1, <2>2, <2>3 DEF WgDone, CountInv
  <2> QED BY <2>4, <2>5, <2>6
<1> QED BY <1>1, <1>2, <1>3, <1>4 DEF Goroutine

\* Every step of the specification keeps the inductive invariant.
LEMMA StepInv == IInv /\ [Next]_vars => IInv'
<1> SUFFICES ASSUME IInv, [Next]_vars PROVE IInv'
  OBVIOUS
<1>1. CASE Caller
  BY <1>1, QuietStepInv, DispatchStepInv DEF Caller
<1>2. CASE \E i \in Slots : Goroutine(i)
  BY <1>2, GoroutineStepInv
<1>3. CASE UNCHANGED vars
  BY <1>3 DEF vars, IInv, TypeOK, ControlInv, CountInv, Holding, Alive, TasksIn
<1> QED BY <1>1, <1>2, <1>3 DEF Next

\* The inductive invariant holds in every reachable state.
LEMMA Inductive == Spec => []IInv
BY InitInv, StepInv, PTL DEF Spec

-----------------------------------------------------------------------------
(* The results.                                                            *)

\* Every reachable state of a Scan call is well typed.
THEOREM TypeCorrect == Spec => []TypeOK
<1>1. IInv => TypeOK
  BY DEF IInv
<1> QED BY <1>1, Inductive, PTL

\* Config.Concurrency bounds the detectors that run at once, and no token of
\* the semaphore is lost or made up, whatever the detectors do.
THEOREM SlotsAreBounded == Spec => []SlotBound
<1>1. IInv => SlotBound
  BY DEF IInv, CountInv, SlotBound
<1> QED BY <1>1, Inductive, PTL

\* No detector goroutine outlives the wait: the report is assembled, and Scan
\* left, only after every goroutine made its last write.
THEOREM GoroutinesAreJoined == Spec => []NoGoroutineOutlives
<1>1. IInv => NoGoroutineOutlives
  <2> SUFFICES ASSUME IInv, pc \in {"assemble", "results", "done", "panicked"}
               PROVE  Alive = {} /\ \A i \in DOMAIN tasks : g[i] = "exited"
    BY DEF NoGoroutineOutlives
  <2>1. \A i \in Slots : IF i <= Len(tasks) THEN g[i] = "exited" ELSE g[i] = "none"
    BY DEF IInv, ControlInv
  <2>2. Alive = {}
    BY <2>1 DEF Alive
  <2>3. DOMAIN tasks \subseteq Slots /\ \A i \in DOMAIN tasks : i <= Len(tasks)
    BY SizesAssumption DEF IInv, TypeOK, Slots
  <2> QED BY <2>1, <2>2, <2>3
<1> QED BY <1>1, Inductive, PTL

-----------------------------------------------------------------------------
(* The report.                                                             *)

Reporting == pc \in {"assemble", "results", "done", "panicked"}

\* The error of task i has been looked at, and its result k been built.
Checked(i) == i < next \/ (i = next /\ pc \in {"results", "panicked"})
Built(i, k) == i < next \/ (i = next /\ pc \in {"results", "panicked"} /\ k < r)

Entries(s) == {s[k] : k \in DOMAIN s}

\* A goroutine that has recorded wrote what its detector did with its task.
WrittenInv ==
    \A i \in Slots :
        /\ g[i] \in {"none", "running"} => results[i] = <<>>
        /\ g[i] \in {"recorded", "released", "exited"} =>
              /\ results[i] = Delivered(tasks[i])
              /\ errs[i] = (OutcomeOf(tasks[i]).kind # "ok")

\* The list holds every task, sorted, and a finished call has passed them all.
TasksInv ==
    /\ InTaskOrder(tasks)
    /\ pc # "call" => Entries(tasks) = Ran
    /\ pc = "done" => next = Len(tasks) + 1

\* The errors are those of the tasks looked at so far.
ErrorsInv ==
    IF Reporting
    THEN Entries(report.errors) = {tasks[i] : i \in {j \in DOMAIN tasks : Checked(j) /\ errs[j]}}
    ELSE report.errors = <<>>

\* Result k of task i is a finding.
Yields(i, k, f) ==
    /\ i \in DOMAIN tasks /\ k \in DOMAIN results[i]
    /\ results[i][k].id # NoId /\ results[i][k].verdict = "keep"
    /\ f = <<tasks[i][1], results[i][k].id, results[i][k].at>>

\* The findings are the dedupe keys, those of the results built so far.
FindingsInv ==
    /\ Entries(report.findings) = seen
    /\ \A f \in Found : f \in seen <=> Reporting /\ \E i, k : Built(i, k) /\ Yields(i, k, f)

\* Result k of task i is looked at before result l of task j.
Sooner(i, k, j, l) == i < j \/ (i = j /\ k < l)

\* Errors follow the list; a finding comes of a result looked at before every
\* result that yields a later finding.
OrderInv ==
    /\ \A i, j \in DOMAIN report.errors :
          i < j => Before(report.errors[i], report.errors[j])
    /\ \A m, n \in DOMAIN report.findings :
          m < n => \E i, k :
             /\ Built(i, k) /\ Yields(i, k, report.findings[m])
             /\ \A j, l : Yields(j, l, report.findings[n]) => Sooner(i, k, j, l)

RInv == IInv /\ WrittenInv /\ TasksInv /\ ErrorsInv /\ FindingsInv /\ OrderInv

\* What appending does to a sequence.
LEMMA AppendFacts ==
  ASSUME NEW S, NEW s \in Seq(S), NEW e \in S
  PROVE  /\ Append(s, e) \in Seq(S) /\ Len(Append(s, e)) = Len(s) + 1
         /\ \A k \in 1 .. Len(s) : Append(s, e)[k] = s[k]
         /\ Append(s, e)[Len(s) + 1] = e
         /\ Entries(Append(s, e)) = Entries(s) \cup {e}
<1>1. /\ Append(s, e) \in Seq(S) /\ Len(Append(s, e)) = Len(s) + 1
      /\ \A k \in 1 .. Len(s) : Append(s, e)[k] = s[k]
      /\ Append(s, e)[Len(s) + 1] = e
  OBVIOUS
<1>2. DOMAIN Append(s, e) = 1 .. Len(s) + 1 /\ DOMAIN s = 1 .. Len(s) /\ Len(s) \in Nat
  OBVIOUS
<1> DEFINE t == Append(s, e)
<1>3. /\ Len(s) \in Nat /\ DOMAIN t = 1 .. Len(s) + 1 /\ DOMAIN s = 1 .. Len(s)
      /\ \A k \in 1 .. Len(s) : t[k] = s[k]
      /\ t[Len(s) + 1] = e
  BY <1>1, <1>2
<1> HIDE DEF t
<1>4. \A x : x \in Entries(t) <=> x \in Entries(s) \/ x = e
  <2> SUFFICES ASSUME NEW x PROVE x \in Entries(t) <=> x \in Entries(s) \/ x = e
    OBVIOUS
  <2>1. x \in Entries(t) <=> \E k \in 1 .. Len(s) + 1 : x = t[k]
    BY <1>3 DEF Entries
  <2>2. x \in Entries(s) <=> \E k \in 1 .. Len(s) : x = s[k]
    BY <1>3 DEF Entries
  <2>3. \A k \in 1 .. Len(s) + 1 : k \in 1 .. Len(s) \/ k = Len(s) + 1
    BY <1>3
  <2>4. \A k \in 1 .. Len(s) : k \in 1 .. Len(s) + 1
    BY <1>3
  <2>5. Len(s) + 1 \in 1 .. Len(s) + 1
    BY <1>3
  <2> QED BY <1>3, <2>1, <2>2, <2>3, <2>4, <2>5
<1>5. Entries(t) = Entries(s) \cup {e}
  BY <1>4
<1> QED BY <1>1, <1>5 DEF t

\* A sequence without entries is empty.
LEMMA NoEntries ==
  ASSUME NEW S, NEW s \in Seq(S), Entries(s) = {}
  PROVE  s = <<>>
<1>1. Len(s) \in Nat /\ DOMAIN s = 1 .. Len(s)
  OBVIOUS
<1>2. CASE Len(s) > 0
  <2>1. 1 \in DOMAIN s
    BY <1>1, <1>2
  <2>2. s[1] \in Entries(s)
    BY <2>1 DEF Entries
  <2> QED BY <2>2
<1>3. CASE Len(s) = 0
  BY <1>3
<1> QED BY <1>1, <1>2, <1>3

\* The parts of a report, and what an update of one part leaves of the others.
LEMMA ReportParts ==
  ASSUME NEW rep \in Reports
  PROVE  /\ rep.errors \in Seq(Task) /\ rep.findings \in Seq(Found)
         /\ \A b : /\ [rep EXCEPT !.truncated = b].errors = rep.errors
                   /\ [rep EXCEPT !.truncated = b].findings = rep.findings
         /\ \A e : /\ [rep EXCEPT !.errors = e].errors = e
                   /\ [rep EXCEPT !.errors = e].findings = rep.findings
         /\ \A e : /\ [rep EXCEPT !.findings = e].findings = e
                   /\ [rep EXCEPT !.findings = e].errors = rep.errors
BY DEF Reports

\* Nothing is reported before the call.
LEMMA RInitInv == Init => RInv
<1> SUFFICES ASSUME Init PROVE RInv
  OBVIOUS
<1>1. IInv
  BY InitInv
<1>2. WrittenInv
  BY DEF Init, WrittenInv
<1>3. TasksInv
  BY DEF Init, TasksInv, InTaskOrder
<1>4. report.errors = <<>> /\ report.findings = <<>> /\ seen = {} /\ ~Reporting
  BY DEF Init, EmptyReport, Reporting
<1>5. ErrorsInv
  BY <1>4 DEF ErrorsInv
<1>6. FindingsInv
  BY <1>4 DEF FindingsInv, Entries
<1>7. OrderInv
  BY <1>4 DEF OrderInv
<1> QED BY <1>1, <1>2, <1>3, <1>5, <1>6, <1>7 DEF RInv

\* A goroutine records what its detector did, and never changes it.
LEMMA WrittenStep == RInv /\ Next => WrittenInv'
<1> SUFFICES ASSUME RInv, Next PROVE WrittenInv'
  OBVIOUS
<1>0. /\ g \in [Slots -> Phases] /\ results \in [Slots -> Seq(Results)] /\ errs \in [Slots -> BOOLEAN]
      /\ WrittenInv /\ world' = world
  BY DEF RInv, IInv, TypeOK, Next, Caller, Goroutine, Prefilter, WgAdd, AcquireAndSpawn, LoopExit,
     WaitReturns, ReportTaskError, BuildFinding, FalsePositiveCheckPanics, NextTask, ReturnReport,
     DetectorReturns, DetectorPanics, ReleaseSlot, WgDone, env
<1>1. CASE Prefilter
  <2>1. \A i \in Slots : g[i] = "none"
    BY <1>0, <1>1, SizesAssumption DEF Prefilter, RInv, IInv, ControlInv, Slots
  <2> QED BY <1>0, <1>1, <2>1 DEF Prefilter, WrittenInv
<1>2. CASE AcquireAndSpawn
  <2>1. g[next] = "none" \/ next \notin Slots
    BY <1>2, SizesAssumption DEF AcquireAndSpawn, RInv, IInv, ControlInv, TypeOK, Slots
  <2>2. tasks' = tasks /\ results' = results /\ errs' = errs /\ g' = [g EXCEPT ![next] = "running"]
    BY <1>2 DEF AcquireAndSpawn
  <2> QED BY <1>0, <2>1, <2>2 DEF WrittenInv, Delivered, OutcomeOf
<1>3. CASE \/ WgAdd \/ LoopExit \/ WaitReturns \/ ReportTaskError \/ BuildFinding
           \/ FalsePositiveCheckPanics \/ NextTask \/ ReturnReport
  <2>1. tasks' = tasks /\ results' = results /\ errs' = errs /\ g' = g
    BY <1>3 DEF WgAdd, LoopExit, WaitReturns, ReportTaskError, BuildFinding,
       FalsePositiveCheckPanics, NextTask, ReturnReport
  <2> QED BY <1>0, <2>1 DEF WrittenInv, Delivered, OutcomeOf
<1>4. ASSUME NEW i \in Slots, DetectorReturns(i) PROVE WrittenInv'
  <2>1. /\ g[i] = "running" /\ OutcomeOf(tasks[i]).kind # "panic" /\ tasks' = tasks
        /\ results' = [results EXCEPT ![i] = OutcomeOf(tasks[i]).res]
        /\ errs' = [errs EXCEPT ![i] = (OutcomeOf(tasks[i]).kind = "error")]
        /\ g' = [g EXCEPT ![i] = "recorded"]
    BY <1>4 DEF DetectorReturns, KeptResults
  <2>2. i \in 1 .. Len(tasks) /\ tasks[i] \in TasksIn(world)
    BY <2>1, SizesAssumption DEF RInv, IInv, ControlInv, TypeOK, PCs, Slots
  <2>3. OutcomeOf(tasks[i]).kind \in {"ok", "error", "panic"}
    BY <2>2, OutcomeType DEF RInv, IInv
  <2>4. (OutcomeOf(tasks[i]).kind = "error") = (OutcomeOf(tasks[i]).kind # "ok")
    BY <2>1, <2>3
  <2>5. OutcomeOf(tasks[i])' = OutcomeOf(tasks[i]) /\ Delivered(tasks[i]) = OutcomeOf(tasks[i]).res
    BY <1>0, <2>1 DEF OutcomeOf, Delivered
  <2>6. \A j \in Slots : Delivered(tasks[j])' = Delivered(tasks[j])
                         /\ OutcomeOf(tasks[j])' = OutcomeOf(tasks[j])
    BY <1>0, <2>1 DEF OutcomeOf, Delivered
  <2> QED BY <1>0, <2>1, <2>4, <2>5, <2>6 DEF WrittenInv
<1>5. ASSUME NEW i \in Slots, DetectorPanics(i) PROVE WrittenInv'
  <2>1. /\ g[i] = "running" /\ OutcomeOf(tasks[i]).kind = "panic" /\ tasks' = tasks
        /\ results' = results /\ errs' = [errs EXCEPT ![i] = TRUE]
        /\ g' = [g EXCEPT ![i] = "recorded"]
    BY <1>5 DEF DetectorPanics, PanicRecorded
  <2>2. \A j \in Slots : Delivered(tasks[j])' = Delivered(tasks[j])
                         /\ OutcomeOf(tasks[j])' = OutcomeOf(tasks[j])
    BY <1>0, <2>1 DEF OutcomeOf, Delivered
  <2>3. Delivered(tasks[i]) = <<>> /\ results[i] = <<>>
    BY <1>0, <2>1 DEF Delivered, WrittenInv
  <2> QED BY <1>0, <2>1, <2>2, <2>3 DEF WrittenInv
<1>6. ASSUME NEW i \in Slots, ReleaseSlot(i) \/ WgDone(i) PROVE WrittenInv'
  <2>1. tasks' = tasks /\ results' = results /\ errs' = errs
    BY <1>6 DEF ReleaseSlot, WgDone
  <2>2. \/ g[i] = "recorded" /\ g' = [g EXCEPT ![i] = "released"]
        \/ g[i] = "released" /\ g' = [g EXCEPT ![i] = "exited"]
    BY <1>6 DEF ReleaseSlot, WgDone
  <2>3. \A j \in Slots : Delivered(tasks[j])' = Delivered(tasks[j])
                         /\ OutcomeOf(tasks[j])' = OutcomeOf(tasks[j])
    BY <1>0, <2>1 DEF OutcomeOf, Delivered
  <2> QED BY <1>0, <2>1, <2>2, <2>3 DEF WrittenInv
<1> QED BY <1>1, <1>2, <1>3, <1>4, <1>5, <1>6 DEF Next, Caller, Goroutine

\* The list is made once, of all tasks there are.
LEMMA TasksStep == RInv /\ Next => TasksInv'
<1> SUFFICES ASSUME RInv, Next PROVE TasksInv'
  OBVIOUS
<1>1. CASE Prefilter
  <2>1. tasks = <<>> /\ next = 1 /\ next' = 1 /\ Ran' = Ran
    BY <1>1 DEF Prefilter, RInv, IInv, ControlInv, env, Ran, ScannedBytes, TooLong, TasksIn
  <2>2. CASE ScannedBytes = 0 /\ pc' = "done" /\ tasks' = tasks
    BY <2>1, <2>2 DEF TasksInv, InTaskOrder, Ran, Entries
  <2>3. ASSUME NEW n \in 0 .. MaxTasks, NEW s \in [1 .. n -> TasksIn(world)], ScannedBytes > 0,
               {s[i] : i \in 1 .. n} = TasksIn(world), InTaskOrder(s),
               tasks' = s, pc' = IF n = 0 THEN "done" ELSE "loop"
        PROVE  TasksInv'
    <3>1. DOMAIN s = 1 .. n /\ Len(s) = n
      BY <2>3, SizesAssumption
    <3>2. Ran = TasksIn(world)
      BY <2>3 DEF Ran
    <3>3. Entries(s) = Ran
      BY <2>3, <3>1, <3>2 DEF Entries
    <3> QED BY <2>1, <2>3, <3>1, <3>3 DEF TasksInv
  <2> QED BY <1>1, <2>2, <2>3 DEF Prefilter
<1>2. CASE ~Prefilter
  <2>1. tasks' = tasks /\ UNCHANGED env /\ pc # "call"
        /\ (pc' = "done" => pc = "assemble" /\ next > Len(tasks) /\ next' = next)
    <3>1. CASE Caller
      BY <1>2, <3>1 DEF Caller, WgAdd, AcquireAndSpawn, LoopExit, WaitReturns, ReportTaskError,
         BuildFinding, FalsePositiveCheckPanics, NextTask, ReturnReport
    <3>2. ASSUME NEW i \in Slots, Goroutine(i)
          PROVE  tasks' = tasks /\ UNCHANGED env /\ pc' = pc /\ pc \in {"loop", "acquire", "wait"}
      <4>1. g[i] # "none" /\ g[i] # "exited" /\ UNCHANGED <<tasks, env, pc>>
        BY <3>2 DEF Goroutine, DetectorReturns, DetectorPanics, ReleaseSlot, WgDone
      <4> QED BY <4>1, SizesAssumption DEF RInv, IInv, ControlInv, TypeOK, PCs, Slots
    <3> QED BY <3>1, <3>2 DEF Next
  <2>2. Ran' = Ran
    BY <2>1 DEF env, Ran, ScannedBytes, TooLong, TasksIn
  <2>3. next <= Len(tasks) + 1 /\ next \in Nat /\ Len(tasks) \in Nat
    BY SizesAssumption DEF RInv, IInv, ControlInv, TypeOK
  <2>4. Entries(tasks) = Ran /\ InTaskOrder(tasks)
    BY <2>1 DEF RInv, TasksInv
  <2> QED BY <2>1, <2>2, <2>3, <2>4 DEF TasksInv
<1> QED BY <1>1, <1>2

\* While goroutines run, or the caller waits for them, nothing is reported.
LEMMA QuietReport ==
  ASSUME RInv, ~Reporting, ~Reporting', UNCHANGED <<report, seen>>
  PROVE  ErrorsInv' /\ FindingsInv' /\ OrderInv'
<1>1. report' = report /\ seen' = seen /\ ErrorsInv /\ FindingsInv /\ OrderInv
  BY DEF RInv
<1>2. ErrorsInv'
  BY <1>1 DEF ErrorsInv
<1>3. FindingsInv'
  BY <1>1 DEF FindingsInv, Entries
<1>4. OrderInv'
  <2>1. DOMAIN report.findings = {}
    BY <1>1 DEF FindingsInv, RInv, IInv, TypeOK, Entries
  <2> QED BY <1>1, <2>1 DEF OrderInv
<1> QED BY <1>2, <1>3, <1>4

\* A step of the assembly that builds nothing and looks at no error.
LEMMA IdleReport ==
  ASSUME RInv, Reporting, Reporting', UNCHANGED <<report, seen, tasks, results, errs>>,
         \A i \in DOMAIN tasks : Checked(i)' <=> Checked(i),
         \A i \in DOMAIN tasks : \A k \in DOMAIN results[i] : Built(i, k)' <=> Built(i, k)
  PROVE  ErrorsInv' /\ FindingsInv' /\ OrderInv'
<1>1. /\ report' = report /\ seen' = seen /\ tasks' = tasks /\ results' = results /\ errs' = errs
      /\ ErrorsInv /\ FindingsInv /\ OrderInv
  BY DEF RInv
<1>2. ErrorsInv'
  BY <1>1 DEF ErrorsInv
<1>3. FindingsInv'
  <2>1. Entries(report.findings)' = Entries(report.findings)
    BY <1>1 DEF Entries
  <2>2. \A i, k, f : Yields(i, k, f)' <=> Yields(i, k, f)
    BY <1>1 DEF Yields
  <2>3. \A i, k, f : Yields(i, k, f) => (Built(i, k)' <=> Built(i, k))
    BY DEF Yields
  <2> QED BY <1>1, <2>1, <2>2, <2>3 DEF FindingsInv
<1>4. OrderInv'
  <2>1. \A i, k, f : Yields(i, k, f)' <=> Yields(i, k, f)
    BY <1>1 DEF Yields
  <2>2. \A i, k, f : Yields(i, k, f) => (Built(i, k)' <=> Built(i, k))
    BY DEF Yields
  <2> QED BY <1>1, <2>1, <2>2 DEF OrderInv
<1> QED BY <1>2, <1>3, <1>4

\* Where the caller is inside the list, with the types its steps need.
LEMMA Position ==
  ASSUME RInv
  PROVE  /\ next \in Nat \ {0} /\ r \in Nat \ {0} /\ Len(tasks) \in Nat
         /\ DOMAIN tasks = 1 .. Len(tasks) /\ DOMAIN tasks \subseteq Slots
         /\ report \in Reports
         /\ \A i \in DOMAIN tasks : tasks[i] \in Task /\ tasks[i][1] \in Detectors
         /\ \A i \in DOMAIN tasks : results[i] \in Seq(Results)
<1>1. TypeOK
  BY DEF RInv, IInv
<1>2. next \in Nat \ {0} /\ r \in Nat \ {0} /\ report \in Reports
  BY <1>1 DEF TypeOK, Slots
<1>3. /\ Len(tasks) \in Nat /\ DOMAIN tasks = 1 .. Len(tasks)
      /\ \A i \in DOMAIN tasks : tasks[i] \in Task
  BY <1>1 DEF TypeOK
<1>4. DOMAIN tasks \subseteq Slots
  BY <1>1, <1>3, SizesAssumption DEF TypeOK, Slots
<1>5. \A i \in DOMAIN tasks : tasks[i][1] \in Detectors
  BY <1>3 DEF Task
<1>6. \A i \in DOMAIN tasks : results[i] \in Seq(Results)
  BY <1>1, <1>4 DEF TypeOK
<1> QED BY <1>2, <1>3, <1>4, <1>5, <1>6

\* The assembly starts with nothing looked at.
LEMMA StartReport ==
  ASSUME RInv, ~Reporting, Reporting', next' = 1, r' \in Nat, pc' \in {"assemble", "done"},
         report'.errors = <<>>, report'.findings = <<>>, seen' = {}, DOMAIN tasks' \subseteq Nat \ {0}
  PROVE  ErrorsInv' /\ FindingsInv' /\ OrderInv'
<1>1. \A i \in Nat \ {0} : ~Checked(i)' /\ \A k : ~Built(i, k)'
  BY DEF Checked, Built
<1>2. ErrorsInv'
  BY <1>1 DEF ErrorsInv, Entries
<1>3. FindingsInv'
  <2>1. \A i, k, f : Yields(i, k, f)' => i \in Nat \ {0}
    BY DEF Yields
  <2>2. Entries(report.findings)' = {}
    BY DEF Entries
  <2> QED BY <1>1, <2>1, <2>2 DEF FindingsInv
<1>4. OrderInv'
  BY DEF OrderInv
<1> QED BY <1>2, <1>3, <1>4

\* The error of the next task joins those of the tasks before it, which are of
\* earlier detectors or chunks.
LEMMA ErrorStep ==
  ASSUME RInv, ReportTaskError
  PROVE  ErrorsInv' /\ FindingsInv' /\ OrderInv'
<1>1. /\ pc = "assemble" /\ next <= Len(tasks) /\ r' = 1 /\ pc' = "results"
      /\ report' = [report EXCEPT !.errors = IF errs[next] THEN Append(@, tasks[next]) ELSE @]
      /\ tasks' = tasks /\ next' = next /\ results' = results /\ errs' = errs /\ seen' = seen
  BY DEF ReportTaskError
<1>2. /\ next \in DOMAIN tasks /\ report \in Reports /\ tasks[next] \in Task
      /\ report.errors \in Seq(Task) /\ next \in Nat \ {0}
      /\ \A i \in DOMAIN tasks : i \in Nat /\ results[i] \in Seq(Results)
  BY <1>1, Position, ReportParts
<1>3. /\ report'.errors = IF errs[next] THEN Append(report.errors, tasks[next]) ELSE report.errors
      /\ report'.findings = report.findings
  BY <1>1, <1>2, ReportParts
<1>4. /\ ErrorsInv /\ FindingsInv /\ OrderInv /\ InTaskOrder(tasks)
      /\ Reporting /\ Reporting'
  BY <1>1 DEF RInv, TasksInv, Reporting
<1>5. Entries(report.errors) = {tasks[i] : i \in {j \in DOMAIN tasks : Checked(j) /\ errs[j]}}
  BY <1>4 DEF ErrorsInv
<1>6. \A i \in DOMAIN tasks : Checked(i)' <=> Checked(i) \/ i = next
  BY <1>1, <1>2 DEF Checked
<1>7. \A i \in DOMAIN tasks : Checked(i) => i < next
  BY <1>1 DEF Checked
<1>8. Entries(report'.errors) = {tasks[i] : i \in {j \in DOMAIN tasks : Checked(j)' /\ errs[j]}}
  <2>1. CASE errs[next]
    <3>1. Entries(report'.errors) = Entries(report.errors) \cup {tasks[next]}
      BY <1>2, <1>3, <2>1, AppendFacts
    <3> QED BY <1>2, <1>5, <1>6, <2>1, <3>1
  <2>2. CASE ~errs[next]
    BY <1>3, <1>5, <1>6, <2>2
  <2> QED BY <2>1, <2>2
<1>9. ErrorsInv'
  BY <1>1, <1>4, <1>8 DEF ErrorsInv, Entries
<1>10. FindingsInv'
  <2>1. \A i, k, f : Yields(i, k, f) => i \in DOMAIN tasks /\ k \in DOMAIN results[i]
    BY DEF Yields
  <2>2. \A i \in DOMAIN tasks : \A k \in DOMAIN results[i] : Built(i, k)' <=> Built(i, k)
    <3>1. \A i \in DOMAIN tasks : \A k \in DOMAIN results[i] : k \in Nat \ {0}
      BY <1>2
    <3> QED BY <1>1, <1>2, <3>1 DEF Built
  <2>3. \A i, k, f : Yields(i, k, f)' <=> Yields(i, k, f)
    BY <1>1 DEF Yields
  <2>4. Entries(report.findings)' = Entries(report.findings)
    BY <1>3 DEF Entries
  <2> QED BY <1>1, <1>4, <2>1, <2>2, <2>3, <2>4 DEF FindingsInv
<1>11. OrderInv'
  <2>1. ASSUME NEW i \in DOMAIN report'.errors, NEW j \in DOMAIN report'.errors, i < j
        PROVE  Before(report'.errors[i], report'.errors[j])
    <3>1. CASE ~errs[next]
      BY <1>3, <1>4, <2>1, <3>1 DEF OrderInv
    <3>2. CASE errs[next]
      <4> DEFINE e == report.errors
                 f == report'.errors
      <4>1. /\ Len(e) \in Nat /\ DOMAIN e = 1 .. Len(e) /\ DOMAIN f = 1 .. Len(e) + 1
            /\ \A k \in 1 .. Len(e) : f[k] = e[k]
            /\ f[Len(e) + 1] = tasks[next]
        <5>1. f \in Seq(Task) /\ f = Append(e, tasks[next])
          BY <1>2, <1>3, <3>2, AppendFacts
        <5>2. /\ Len(f) = Len(e) + 1 /\ \A k \in 1 .. Len(e) : f[k] = e[k]
              /\ f[Len(e) + 1] = tasks[next]
          BY <1>2, <5>1, AppendFacts
        <5> QED BY <1>2, <5>1, <5>2
      <4>2. \A k, l \in DOMAIN e : k < l => Before(e[k], e[l])
        BY <1>4 DEF OrderInv
      <4>3. \A k \in DOMAIN e : e[k] \in Entries(e)
        BY DEF Entries
      <4>4. \A k \in DOMAIN e : Before(e[k], tasks[next])
        BY <1>2, <1>4, <1>5, <1>7, <4>3 DEF InTaskOrder
      <4> HIDE DEF e, f
      <4>5. i \in 1 .. Len(e) /\ (j \in 1 .. Len(e) \/ j = Len(e) + 1)
        BY <2>1, <4>1 DEF f
      <4>6. Before(f[i], f[j])
        BY <2>1, <4>1, <4>2, <4>4, <4>5
      <4> QED BY <4>6 DEF f
    <3> QED BY <3>1, <3>2
  <2>2. \A i, k, f : Yields(i, k, f) => i \in DOMAIN tasks /\ k \in DOMAIN results[i]
    BY DEF Yields
  <2>3. \A i \in DOMAIN tasks : \A k \in DOMAIN results[i] : Built(i, k)' <=> Built(i, k)
    <3>1. \A i \in DOMAIN tasks : \A k \in DOMAIN results[i] : k \in Nat \ {0}
      BY <1>2
    <3> QED BY <1>1, <1>2, <3>1 DEF Built
  <2>4. \A i, k, f : Yields(i, k, f)' <=> Yields(i, k, f)
    BY <1>1 DEF Yields
  <2>5. report'.findings = report.findings
    BY <1>3
  <2> QED BY <1>4, <2>1, <2>2, <2>3, <2>4, <2>5 DEF OrderInv
<1> QED BY <1>9, <1>10, <1>11

\* A finding joins those before it unless its key is known; a known key has been
\* yielded by a result built before, a new one only by results not yet built.
LEMMA FindingStep ==
  ASSUME RInv, BuildFinding
  PROVE  ErrorsInv' /\ FindingsInv' /\ OrderInv'
<1> DEFINE res == results[next][r]
           key == <<tasks[next][1], res.id, res.at>>
           skipped == res.id = NoId \/ res.verdict = "drop" \/ key \in seen
<1>1. /\ pc = "results" /\ r <= Len(results[next]) /\ r' = r + 1 /\ pc' = pc
      /\ res.id = NoId \/ res.verdict # "panic"
      /\ seen' = IF skipped THEN seen ELSE seen \cup {key}
      /\ report' = [report EXCEPT !.findings = IF skipped THEN @ ELSE Append(@, key)]
      /\ tasks' = tasks /\ next' = next /\ results' = results /\ errs' = errs
  BY DEF BuildFinding, DedupeKey
<1>2. /\ next \in Nat \ {0} /\ r \in Nat \ {0} /\ next \in DOMAIN tasks
      /\ report \in Reports /\ report.findings \in Seq(Found)
      /\ \A i \in DOMAIN tasks : i \in Nat /\ results[i] \in Seq(Results) /\ tasks[i][1] \in Detectors
  <2>1. next <= Len(tasks)
    BY <1>1 DEF RInv, IInv, ControlInv
  <2> QED BY <2>1, Position, ReportParts
<1>3. r \in DOMAIN results[next] /\ res \in Results
  BY <1>1, <1>2
<1>4. res.id \in STRING /\ res.verdict \in {"keep", "drop", "panic"} /\ key \in Found
  BY <1>2, <1>3 DEF Results, Verdicts, Found
<1>5. ErrorsInv /\ FindingsInv /\ OrderInv /\ InTaskOrder(tasks) /\ Reporting /\ Reporting'
  BY <1>1 DEF RInv, TasksInv, Reporting
<1>6. /\ report'.findings = IF skipped THEN report.findings ELSE Append(report.findings, key)
      /\ report'.errors = report.errors
  <2> HIDE DEF skipped, key
  <2> QED BY <1>1, <1>2, ReportParts
<1>7. ErrorsInv'
  <2>1. \A i : Checked(i)' <=> Checked(i)
    BY <1>1 DEF Checked
  <2>2. {tasks[i] : i \in {j \in DOMAIN tasks : Checked(j) /\ errs[j]}}'
           = {tasks[i] : i \in {j \in DOMAIN tasks : Checked(j) /\ errs[j]}}
    BY <1>1, <2>1
  <2>3. Entries(report.errors)' = Entries(report.errors)
    BY <1>6 DEF Entries
  <2> QED BY <1>5, <2>2, <2>3 DEF ErrorsInv
<1>8. seen' = Entries(report'.findings)
  <2>1. seen = Entries(report.findings)
    BY <1>5 DEF FindingsInv
  <2> HIDE DEF skipped, key
  <2>2. Entries(Append(report.findings, key)) = Entries(report.findings) \cup {key}
    BY <1>2, <1>4, AppendFacts
  <2> QED BY <1>1, <1>6, <2>1, <2>2
<1>9. FindingsInv'
  <2>1. \A i, k, f : Yields(i, k, f)' <=> Yields(i, k, f)
    BY <1>1 DEF Yields
  <2>2. \A i \in DOMAIN tasks : \A k \in DOMAIN results[i] :
           Built(i, k)' <=> Built(i, k) \/ (i = next /\ k = r)
    <3>1. \A i \in DOMAIN tasks : \A k \in DOMAIN results[i] : k \in Nat
      BY <1>2
    <3> QED BY <1>1, <1>2, <3>1 DEF Built
  <2>3. ~Built(next, r)
    BY <1>1, <1>2 DEF Built
  <2>4. \A f : Yields(next, r, f) <=> res.id # NoId /\ res.verdict = "keep" /\ f = key
    BY <1>2, <1>3 DEF Yields
  <2>5. ASSUME NEW f \in Found
        PROVE  f \in seen' <=> \E i, k : Built(i, k)' /\ Yields(i, k, f)
    <3>1. f \in seen <=> \E i, k : Built(i, k) /\ Yields(i, k, f)
      BY <1>5 DEF FindingsInv
    <3>2. (\E i, k : Built(i, k)' /\ Yields(i, k, f))
             <=> (\E i, k : Built(i, k) /\ Yields(i, k, f)) \/ Yields(next, r, f)
      <4>1. \A i, k : Yields(i, k, f) => i \in DOMAIN tasks /\ k \in DOMAIN results[i]
        BY DEF Yields
      <4>2. \A i, k : Yields(i, k, f) =>
               (Built(i, k)' <=> Built(i, k) \/ (i = next /\ k = r))
        BY <2>2, <4>1
      <4> QED BY <4>2
    <3>3. f \in seen' <=> f \in seen \/ (f = key /\ ~skipped)
      BY <1>1
    <3>4. Yields(next, r, f) <=> f = key /\ res.id # NoId /\ res.verdict = "keep"
      BY <2>4
    <3>5. (res.id # NoId /\ res.verdict = "keep") <=> ~(res.id = NoId \/ res.verdict = "drop")
      BY <1>1, <1>4
    <3> QED BY <3>1, <3>2, <3>3, <3>4, <3>5
  <2> HIDE DEF key, skipped, res
  <2> QED BY <1>5, <1>8, <2>1, <2>5 DEF FindingsInv, Entries
<1>10. OrderInv'
  <2>1. \A i, j \in DOMAIN report'.errors :
           i < j => Before(report'.errors[i], report'.errors[j])
    BY <1>5, <1>6 DEF OrderInv
  <2>2. \A i, k, f : Yields(i, k, f)' <=> Yields(i, k, f)
    BY <1>1 DEF Yields
  <2>3. \A i, k, f : Built(i, k) /\ Yields(i, k, f) => Built(i, k)'
    <3>1. \A i, k, f : Yields(i, k, f) => k \in Nat
      BY <1>2 DEF Yields
    <3> QED BY <1>1, <1>2, <3>1 DEF Built
  <2>4. ASSUME NEW m \in DOMAIN report'.findings, NEW n \in DOMAIN report'.findings, m < n
        PROVE  \E i, k :
                  /\ Built(i, k) /\ Yields(i, k, report'.findings[m])
                  /\ \A j, l : Yields(j, l, report'.findings[n]) => Sooner(i, k, j, l)
    <3>1. CASE skipped
      BY <1>5, <1>6, <2>4, <3>1 DEF OrderInv
    <3>2. CASE ~skipped
      <4> DEFINE e == report.findings
                 h == report'.findings
      <4>1. /\ Len(e) \in Nat /\ DOMAIN e = 1 .. Len(e) /\ DOMAIN h = 1 .. Len(e) + 1
            /\ \A k \in 1 .. Len(e) : h[k] = e[k]
            /\ h[Len(e) + 1] = key
        <5> HIDE DEF key
        <5>1. h = Append(e, key)
          BY <1>6, <3>2
        <5>2. /\ h \in Seq(Found) /\ Len(h) = Len(e) + 1 /\ \A k \in 1 .. Len(e) : h[k] = e[k]
              /\ h[Len(e) + 1] = key
          BY <1>2, <1>4, <5>1, AppendFacts
        <5> QED BY <1>2, <5>1, <5>2
      <4>2. m \in 1 .. Len(e) /\ h[m] = e[m]
        BY <2>4, <4>1
      <4>3. CASE n \in 1 .. Len(e)
        BY <1>5, <2>4, <4>1, <4>2, <4>3 DEF OrderInv
      <4>4. CASE n = Len(e) + 1
        <5>1. e[m] \in seen /\ e[m] \in Found
          BY <1>2, <1>5, <4>1, <4>2 DEF FindingsInv, Entries
        <5>2. PICK i, k : Built(i, k) /\ Yields(i, k, e[m])
          BY <1>5, <5>1 DEF FindingsInv
        <5>3. ASSUME NEW j, NEW l, Yields(j, l, key)
              PROVE  Sooner(i, k, j, l)
          <6>1. key \notin seen
            BY <3>2
          <6>2. ~Built(j, l)
            BY <1>4, <1>5, <5>3, <6>1 DEF FindingsInv
          <6>3. /\ i \in DOMAIN tasks /\ k \in DOMAIN results[i]
                /\ j \in DOMAIN tasks /\ l \in DOMAIN results[j]
            BY <5>2, <5>3 DEF Yields
          <6>4. i \in Nat /\ j \in Nat /\ k \in Nat /\ l \in Nat
            BY <1>2, <6>3
          <6>5. i < next \/ (i = next /\ k < r)
            BY <5>2 DEF Built
          <6>6. ~(j < next) /\ ~(j = next /\ l < r)
            BY <1>1, <6>2 DEF Built
          <6> QED BY <1>2, <6>4, <6>5, <6>6 DEF Sooner
        <5> HIDE DEF key
        <5> QED BY <4>1, <4>2, <4>4, <5>2, <5>3
      <4> QED BY <2>4, <4>1, <4>3, <4>4
    <3> QED BY <3>1, <3>2
  <2> HIDE DEF key, skipped, res
  <2> QED BY <2>1, <2>2, <2>3, <2>4 DEF OrderInv
<1> QED BY <1>7, <1>9, <1>10

\* Every step keeps what is known of the report.
LEMMA RStepInv == RInv /\ [Next]_vars => RInv'
<1> SUFFICES ASSUME RInv, [Next]_vars PROVE RInv'
  OBVIOUS
<1>0. IInv'
  BY StepInv DEF RInv
<1>1. CASE UNCHANGED vars
  <2>1. /\ world' = world /\ length' = length /\ pc' = pc /\ tasks' = tasks /\ next' = next
        /\ r' = r /\ g' = g /\ results' = results /\ errs' = errs /\ seen' = seen
        /\ report' = report
    BY <1>1 DEF vars, env
  <2>2. WrittenInv'
    BY <2>1 DEF RInv, WrittenInv, Delivered, OutcomeOf
  <2>3. TasksInv'
    BY <2>1 DEF RInv, TasksInv, Entries, Ran, ScannedBytes, TooLong, TasksIn
  <2>4. Reporting' <=> Reporting
    BY <2>1 DEF Reporting
  <2>5. ErrorsInv' /\ FindingsInv' /\ OrderInv'
    <3>1. CASE Reporting
      <4>1. /\ \A i \in DOMAIN tasks : Checked(i)' <=> Checked(i)
            /\ \A i \in DOMAIN tasks : \A k \in DOMAIN results[i] : Built(i, k)' <=> Built(i, k)
        BY <2>1 DEF Checked, Built
      <4> QED BY <2>1, <2>4, <3>1, <4>1, IdleReport
    <3>2. CASE ~Reporting
      BY <2>1, <2>4, <3>2, QuietReport
    <3> QED BY <3>1, <3>2
  <2> QED BY <1>0, <2>2, <2>3, <2>5 DEF RInv
<1>2. ASSUME Next PROVE WrittenInv' /\ TasksInv'
  BY <1>2, WrittenStep, TasksStep
<1>3. CASE WgAdd \/ AcquireAndSpawn \/ LoopExit
  <2>1. ~Reporting /\ ~Reporting' /\ UNCHANGED <<report, seen>>
    BY <1>3 DEF WgAdd, AcquireAndSpawn, LoopExit, Reporting
  <2>2. Next
    BY <1>3 DEF Next, Caller
  <2> QED BY <1>0, <1>2, <2>1, <2>2, QuietReport DEF RInv
<1>4. ASSUME NEW i \in Slots, Goroutine(i)
      PROVE  RInv'
  <2>1. g[i] # "none" /\ g[i] # "exited" /\ UNCHANGED <<pc, report, seen>>
    BY <1>4 DEF Goroutine, DetectorReturns, DetectorPanics, ReleaseSlot, WgDone
  <2>2. ~Reporting /\ ~Reporting'
    BY <2>1 DEF RInv, IInv, ControlInv, Reporting
  <2> QED BY <1>0, <1>2, <1>4, <2>1, <2>2, QuietReport DEF RInv, Next
<1>5. CASE Prefilter
  <2>1. /\ pc = "call" /\ next' = next /\ r' = r /\ seen' = seen /\ next = 1
        /\ report' = [report EXCEPT !.truncated = TooLong] /\ pc' \in {"done", "loop"}
    BY <1>5 DEF Prefilter, RInv, IInv, ControlInv
  <2>2. ~Reporting /\ report.errors = <<>> /\ seen = {} /\ report \in Reports
    <3>1. ~Reporting /\ FindingsInv /\ ErrorsInv
      BY <2>1 DEF Reporting, RInv
    <3>2. report \in Reports /\ seen \subseteq Found
      BY DEF RInv, IInv, TypeOK
    <3> QED BY <3>1, <3>2 DEF FindingsInv, ErrorsInv
  <2>3. report.findings = <<>>
    <3>1. Entries(report.findings) = {} /\ report.findings \in Seq(Found)
      BY <2>2, ReportParts DEF RInv, FindingsInv
    <3> QED BY <3>1, NoEntries
  <2>4. report'.errors = <<>> /\ report'.findings = <<>> /\ seen' = {}
    BY <2>1, <2>2, <2>3, ReportParts
  <2>5. CASE pc' = "done"
    <3>1. Reporting' /\ next' = 1 /\ r' \in Nat /\ DOMAIN tasks' \subseteq Nat \ {0}
      BY <1>0, <2>1, <2>5 DEF Reporting, RInv, IInv, TypeOK
    <3> QED BY <1>0, <1>2, <1>5, <2>2, <2>4, <2>5, <3>1, StartReport DEF RInv, Next, Caller
  <2>6. CASE pc' = "loop"
    <3>1. ~Reporting'
      BY <2>6 DEF Reporting
    <3>2. ErrorsInv' /\ FindingsInv' /\ OrderInv'
      BY <2>4, <3>1 DEF ErrorsInv, FindingsInv, OrderInv, Entries
    <3> QED BY <1>0, <1>2, <1>5, <3>2 DEF RInv, Next, Caller
  <2> QED BY <2>1, <2>5, <2>6
<1>6. CASE WaitReturns
  <2>1. /\ pc = "wait" /\ pc' = "assemble" /\ next' = 1
        /\ report' = report /\ seen' = seen /\ tasks' = tasks /\ r' = r
    BY <1>6 DEF WaitReturns
  <2>2. ~Reporting /\ Reporting' /\ report.errors = <<>> /\ seen = {} /\ report \in Reports
    <3>1. ~Reporting /\ Reporting' /\ FindingsInv /\ ErrorsInv
      BY <2>1 DEF Reporting, RInv
    <3>2. report \in Reports /\ seen \subseteq Found
      BY DEF RInv, IInv, TypeOK
    <3> QED BY <3>1, <3>2 DEF FindingsInv, ErrorsInv
  <2>3. report.findings = <<>>
    <3>1. Entries(report.findings) = {} /\ report.findings \in Seq(Found)
      BY <2>2, ReportParts DEF RInv, FindingsInv
    <3> QED BY <3>1, NoEntries
  <2>4. r \in Nat /\ DOMAIN tasks \subseteq Nat \ {0}
    BY Position
  <2> QED BY <1>0, <1>2, <1>6, <2>1, <2>2, <2>3, <2>4, StartReport DEF RInv, Next, Caller
<1>7. CASE ReportTaskError
  BY <1>0, <1>2, <1>7, ErrorStep DEF RInv, Next, Caller
<1>8. CASE BuildFinding
  BY <1>0, <1>2, <1>8, FindingStep DEF RInv, Next, Caller
<1>9. CASE FalsePositiveCheckPanics \/ NextTask \/ ReturnReport
  <2>1. Reporting /\ Reporting' /\ UNCHANGED <<report, seen, tasks, results, errs>>
    BY <1>9 DEF FalsePositiveCheckPanics, NextTask, ReturnReport, Reporting
  <2>2. \A i \in DOMAIN tasks : i \in Nat /\ \A k \in DOMAIN results[i] : k \in Nat
    BY Position
  <2>3. /\ \A i \in DOMAIN tasks : Checked(i)' <=> Checked(i)
        /\ \A i \in DOMAIN tasks : \A k \in DOMAIN results[i] : Built(i, k)' <=> Built(i, k)
    <3>1. CASE FalsePositiveCheckPanics
      BY <3>1 DEF FalsePositiveCheckPanics, Checked, Built
    <3>2. CASE NextTask
      <4>1. /\ pc = "results" /\ pc' = "assemble" /\ r > Len(results[next]) /\ next' = next + 1
            /\ next \in Nat /\ r \in Nat
        BY <3>2, Position DEF NextTask
      <4>2. \A k \in DOMAIN results[next] : next \in DOMAIN tasks => k < r
        <5>1. next \in DOMAIN tasks => results[next] \in Seq(Results)
          BY Position
        <5> QED BY <4>1, <5>1
      <4> QED BY <2>2, <4>1, <4>2 DEF Checked, Built
    <3>3. CASE ReturnReport
      BY <3>3 DEF ReturnReport, Checked, Built
    <3> QED BY <1>9, <3>1, <3>2, <3>3
  <2> QED BY <1>0, <1>2, <1>9, <2>1, <2>3, IdleReport DEF RInv, Next, Caller
<1> QED BY <1>1, <1>3, <1>4, <1>5, <1>6, <1>7, <1>8, <1>9 DEF Next, Caller

\* What is known of the report holds in every reachable state.
LEMMA RInductive == Spec => []RInv
BY RInitInv, RStepInv, PTL DEF Spec

\* Once the assembly runs, what a goroutine recorded is what its detector did,
\* so that a result of the list yields a finding in just the places of the finding.
LEMMA YieldsArePlaces ==
  ASSUME RInv, Reporting
  PROVE  /\ \A i \in DOMAIN tasks :
               results[i] = Delivered(tasks[i]) /\ errs[i] = (OutcomeOf(tasks[i]).kind # "ok")
         /\ \A i, k, f : Yields(i, k, f) <=>
               /\ i \in DOMAIN tasks /\ Worthwhile(tasks[i], k) /\ KeyAt(tasks[i], k) = f
<1>1. \A i \in DOMAIN tasks : i \in Slots /\ i <= Len(tasks)
  BY Position
<1>2. \A i \in Slots : i <= Len(tasks) => g[i] = "exited"
  BY DEF RInv, IInv, ControlInv, Reporting
<1>3. \A i \in DOMAIN tasks :
         results[i] = Delivered(tasks[i]) /\ errs[i] = (OutcomeOf(tasks[i]).kind # "ok")
  BY <1>1, <1>2 DEF RInv, WrittenInv
<1>4. \A i, k, f : Yields(i, k, f) <=>
         /\ i \in DOMAIN tasks /\ Worthwhile(tasks[i], k) /\ KeyAt(tasks[i], k) = f
  BY <1>3 DEF Yields, Worthwhile, KeyAt
<1> QED BY <1>3, <1>4

\* The errors come in the order of the sorted list, and each finding stands where
\* the first result that gives it stands, whatever order the goroutines ran in.
THEOREM ReportsAreDeterministic == Spec => []ReportDeterministic
<1>1. RInv => ReportDeterministic
  <2> SUFFICES ASSUME RInv PROVE ReportDeterministic
    OBVIOUS
  <2>1. \A i, j \in DOMAIN report.errors : i < j => Before(report.errors[i], report.errors[j])
    BY DEF RInv, OrderInv
  <2>2. ASSUME NEW m \in DOMAIN report.findings, NEW n \in DOMAIN report.findings, m < n
        PROVE  \E p \in Places(report.findings[m]) :
                  \A q \in Places(report.findings[n]) : PlacedBefore(p, q)
    <3> DEFINE e == report.findings[m]
               f == report.findings[n]
    <3>1. PICK i, k : /\ Built(i, k) /\ Yields(i, k, e)
                      /\ \A j, l : Yields(j, l, f) => Sooner(i, k, j, l)
      BY <2>2 DEF RInv, OrderInv
    <3> HIDE DEF e, f
    <3>2. Reporting
      BY <2>2 DEF RInv, FindingsInv, IInv, TypeOK, Entries
    <3>3. pc # "call" /\ InTaskOrder(tasks) /\ Entries(tasks) = Ran
      BY <3>2 DEF Reporting, RInv, TasksInv
    <3>4. i \in DOMAIN tasks /\ Worthwhile(tasks[i], k) /\ KeyAt(tasks[i], k) = e
      BY <3>1, <3>2, YieldsArePlaces
    <3>5. <<tasks[i], k>> \in Places(e)
      BY <3>3, <3>4 DEF Places, Entries, Worthwhile
    <3>6. ASSUME NEW q \in Places(f)
          PROVE  PlacedBefore(<<tasks[i], k>>, q)
      <4>1. PICK t \in Ran : \E l : q = <<t, l>> /\ Worthwhile(t, l) /\ KeyAt(t, l) = f
        BY <3>6 DEF Places
      <4>2. PICK j \in DOMAIN tasks : t = tasks[j]
        BY <3>3, <4>1 DEF Entries
      <4>3. Sooner(i, k, j, q[2])
        BY <3>1, <3>2, <4>1, <4>2, YieldsArePlaces
      <4>4. i < j => Before(tasks[i], tasks[j])
        BY <3>3, <3>4, <4>2 DEF InTaskOrder
      <4> QED BY <4>1, <4>2, <4>3, <4>4 DEF PlacedBefore, Sooner
    <3> QED BY <3>5, <3>6 DEF e, f
  <2> QED BY <2>1, <2>2 DEF ReportDeterministic
<1> QED BY <1>1, RInductive, PTL

\* A finished report accounts for every task, error for error and result for
\* result.
THEOREM ReportsAreComplete == Spec => []ReportComplete
<1>1. RInv => ReportComplete
  <2> SUFFICES ASSUME RInv, pc = "done"
               PROVE  /\ Entries(report.errors) = {t \in Ran : OutcomeOf(t).kind # "ok"}
                      /\ Entries(report.findings)
                            = UNION {{KeyAt(t, k) : k \in {n \in DOMAIN Delivered(t) : Worthwhile(t, n)}} : t \in Ran}
    BY DEF ReportComplete, Entries
  <2>1. /\ Reporting /\ next = Len(tasks) + 1 /\ Entries(tasks) = Ran
        /\ ErrorsInv /\ FindingsInv /\ WrittenInv
    BY DEF RInv, TasksInv, Reporting
  <2>2. /\ Len(tasks) \in Nat /\ DOMAIN tasks = 1 .. Len(tasks) /\ DOMAIN tasks \subseteq Slots
        /\ \A i \in DOMAIN tasks : tasks[i][1] \in Detectors
        /\ \A i \in DOMAIN tasks : results[i] \in Seq(Results)
    BY Position
  <2>3. \A i \in DOMAIN tasks : i < next
    BY <2>1, <2>2
  <2>4. \A i \in DOMAIN tasks : Checked(i) /\ \A k : Built(i, k)
    BY <2>3 DEF Checked, Built
  <2>5. /\ \A i \in DOMAIN tasks :
              results[i] = Delivered(tasks[i]) /\ errs[i] = (OutcomeOf(tasks[i]).kind # "ok")
        /\ \A i, k, f : Yields(i, k, f) <=>
              /\ i \in DOMAIN tasks /\ Worthwhile(tasks[i], k) /\ KeyAt(tasks[i], k) = f
    BY <2>1, YieldsArePlaces
  <2>6. Entries(report.errors) = {t \in Ran : OutcomeOf(t).kind # "ok"}
    <3>1. Entries(report.errors) = {tasks[i] : i \in {j \in DOMAIN tasks : Checked(j) /\ errs[j]}}
      BY <2>1 DEF ErrorsInv
    <3>2. \A t : t \in Ran <=> \E i \in DOMAIN tasks : t = tasks[i]
      BY <2>1 DEF Entries
    <3>3. \A t : t \in Entries(report.errors) <=> \E i \in DOMAIN tasks : t = tasks[i] /\ errs[i]
      BY <2>4, <3>1
    <3>4. \A i \in DOMAIN tasks : errs[i] <=> OutcomeOf(tasks[i]).kind # "ok"
      BY <2>5
    <3>5. \A t : t \in Entries(report.errors) <=> t \in Ran /\ OutcomeOf(t).kind # "ok"
      BY <3>2, <3>3, <3>4
    <3> QED BY <3>5
  <2>7. ASSUME NEW f \in Found
        PROVE  f \in Entries(report.findings) <=> \E t \in Ran : \E k : Worthwhile(t, k) /\ KeyAt(t, k) = f
    <3>1. f \in Entries(report.findings) <=> \E i, k : Built(i, k) /\ Yields(i, k, f)
      BY <2>1 DEF FindingsInv
    <3>2. (\E i, k : Built(i, k) /\ Yields(i, k, f)) <=> \E i, k : Yields(i, k, f)
      BY <2>4 DEF Yields
    <3>3. \A t : t \in Ran <=> \E i \in DOMAIN tasks : t = tasks[i]
      BY <2>1 DEF Entries
    <3> QED BY <2>5, <3>1, <3>2, <3>3
  <2>8. Entries(report.findings) \subseteq Found
    BY <2>1 DEF FindingsInv, RInv, IInv, TypeOK
  <2>9. ASSUME NEW t \in Ran, NEW k, Worthwhile(t, k)
        PROVE  k \in DOMAIN Delivered(t) /\ KeyAt(t, k) \in Found
    <3>1. PICK i \in DOMAIN tasks : t = tasks[i]
      BY <2>1 DEF Entries
    <3>2. k \in DOMAIN results[i] /\ results[i] = Delivered(t)
      BY <2>5, <2>9, <3>1 DEF Worthwhile
    <3>3. results[i][k] \in Results
      BY <2>2, <3>1, <3>2
    <3> QED BY <2>2, <3>1, <3>2, <3>3 DEF KeyAt, Found, Results
  <2>10. Entries(report.findings)
           = UNION {{KeyAt(t, k) : k \in {n \in DOMAIN Delivered(t) : Worthwhile(t, n)}} : t \in Ran}
    BY <2>7, <2>8, <2>9
  <2> QED BY <2>6, <2>10
<1> QED BY <1>1, RInductive, PTL
=============================================================================

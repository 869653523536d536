----------------------------- MODULE ScanTasks -----------------------------
(***************************************************************************)
(* One call of Scanner.Scan (go/scanner/scanner.go): truncate the input,   *)
(* ask the prefilter for (detector, chunk) tasks, run every task on its    *)
(* own goroutine under a counting semaphore, wait for all of them, and     *)
(* assemble the report in task order.                                      *)
(*                                                                         *)
(* A detector is a number: its rank among the sorted detector keys.  What  *)
(* a detector does with a chunk is third-party code, so it is fixed once   *)
(* and arbitrarily in `world`; everything this repository does with that   *)
(* outcome is an action below.                                             *)
(***************************************************************************)
EXTENDS Integers, Sequences, FiniteSets

CONSTANTS NumDetectors, \* detectors in the resolved set
          MaxChunks,    \* bound: windows the prefilter cuts for one detector
          MaxTasks,     \* bound: tasks of one call
          Concurrency,  \* Config.Concurrency after withDefaults
          MaxBytes,     \* Config.MaxBytes after withDefaults
          MaxLength,    \* bound: length of the input
          Outcomes      \* what FromData + filterResults can do with a chunk

ASSUME SizesAssumption ==
    /\ NumDetectors \in Nat /\ MaxChunks \in Nat
    /\ MaxTasks \in Nat /\ MaxLength \in Nat
\* withDefaults replaces a non-positive Concurrency or MaxBytes.
ASSUME DefaultsAssumption == Concurrency \in Nat \ {0} /\ MaxBytes \in Nat \ {0}

Detectors == 1 .. NumDetectors
Slots == 1 .. MaxTasks

\* A detector result: its identity (RawV2, else Raw; empty for NoId), where its
\* first span starts, and what the false-positive check answers, which is
\* detector code and may panic.  Two results of one identity may differ in the
\* start: their other values differ, or a short part of RawV2 is claimed one
\* occurrence at a time.  The claims made before are those of the detector's
\* results earlier in task order, so the start is fixed by the world too.
NoId == "noid"
NoSpan == -1
Verdicts == {"keep", "drop", "panic"}
Results == [id : STRING, at : Nat \cup {NoSpan}, verdict : Verdicts]

ASSUME OutcomesAssumption ==
    Outcomes \subseteq [kind : {"ok", "error", "panic"}, res : Seq(Results)]

VARIABLES world,     \* world[d][c]: what detector d does with its c-th chunk
          pc,        \* where the goroutine that called Scan is
          length,    \* len(data) as received
          tasks,     \* the sorted task list
          next,      \* loop index over tasks: dispatching, then assembling
          r,         \* loop index over results[next] while assembling
          sem,       \* tokens in the semaphore channel
          wg,        \* the WaitGroup counter
          g,         \* phase of the goroutine of each task
          results,   \* results[i], written by goroutine i
          errs,      \* errs[i] # nil, written by goroutine i
          seen,      \* dedupe keys of the findings built so far
          report     \* the Report under construction

vars == <<world, pc, length, tasks, next, r, sem, wg, g, results, errs, seen, report>>
env == <<world, length>>

Phases == {"none", "running", "recorded", "released", "exited"}
PCs == {"call", "loop", "acquire", "wait", "assemble", "results", "done", "panicked"}

Chunks(n) == UNION {[1 .. k -> Outcomes] : k \in 0 .. n}
Worlds == [Detectors -> Chunks(MaxChunks)]
Task == Detectors \X (1 .. MaxChunks)
TasksIn(w) == {t \in Task : t[2] <= Len(w[t[1]])}
OutcomeOf(t) == world[t[1]][t[2]]

\* The sort by detector key; the chunks of one match keep their order.
Before(a, b) == a[1] < b[1] \/ (a[1] = b[1] /\ a[2] < b[2])
InMatchOrder(s) == \A i, j \in DOMAIN s :
    i < j => s[i] # s[j] /\ (s[i][1] = s[j][1] => Before(s[i], s[j]))
InTaskOrder(s) == \A i, j \in DOMAIN s : i < j => Before(s[i], s[j])

Found == Detectors \X STRING \X (Nat \cup {NoSpan})
Reports == [truncated : BOOLEAN, findings : Seq(Found), errors : Seq(Task)]
EmptyReport == [truncated |-> FALSE, findings |-> <<>>, errors |-> <<>>]

Init ==
    /\ world \in Worlds
    /\ Cardinality(TasksIn(world)) <= MaxTasks
    /\ length \in 0 .. MaxLength
    /\ pc = "call" /\ tasks = <<>> /\ next = 1 /\ r = 1
    /\ sem = 0 /\ wg = 0
    /\ g = [i \in Slots |-> "none"]
    /\ results = [i \in Slots |-> <<>>]
    /\ errs = [i \in Slots |-> FALSE]
    /\ seen = {} /\ report = EmptyReport

-----------------------------------------------------------------------------
(* The calling goroutine: prefilter, dispatch, wait.                       *)

TooLong == length > MaxBytes
ScannedBytes == IF TooLong THEN MaxBytes ELSE length

\* Scan up to the task list; an empty input or an unmatched text returns.
Prefilter ==
    /\ pc = "call"
    /\ report' = [report EXCEPT !.truncated = TooLong]
    /\ \/ /\ ScannedBytes = 0
          /\ pc' = "done" /\ tasks' = tasks
       \/ /\ ScannedBytes > 0
          /\ \E n \in 0 .. MaxTasks : \E s \in [1 .. n -> TasksIn(world)] :
                /\ {s[i] : i \in 1 .. n} = TasksIn(world)
                /\ InTaskOrder(s)
                /\ tasks' = s
                /\ pc' = IF n = 0 THEN "done" ELSE "loop"
    /\ UNCHANGED <<env, next, r, sem, wg, g, results, errs, seen>>

WgAddForgotten == 0
WgAddAmount == 1

WgAdd ==
    /\ pc = "loop" /\ next <= Len(tasks)
    /\ wg' = wg + WgAddAmount
    /\ pc' = "acquire"
    /\ UNCHANGED <<env, tasks, next, r, sem, g, results, errs, seen, report>>

SlotFreeOffByOne == sem <= Concurrency
SlotFree == sem < Concurrency

\* sem <- struct{}{} blocks while the channel is full; then `go`.
AcquireAndSpawn ==
    /\ pc = "acquire" /\ SlotFree
    /\ sem' = sem + 1
    /\ g' = [g EXCEPT ![next] = "running"]
    /\ next' = next + 1
    /\ pc' = "loop"
    /\ UNCHANGED <<env, tasks, r, wg, results, errs, seen, report>>

LoopExit ==
    /\ pc = "loop" /\ next > Len(tasks)
    /\ pc' = "wait"
    /\ UNCHANGED <<env, tasks, next, r, sem, wg, g, results, errs, seen, report>>

BarrierOnSemaphore == sem = 0
BarrierOpen == wg = 0

WaitReturns ==
    /\ pc = "wait" /\ BarrierOpen
    /\ next' = 1
    /\ pc' = "assemble"
    /\ UNCHANGED <<env, tasks, r, sem, wg, g, results, errs, seen, report>>

-----------------------------------------------------------------------------
(* Goroutine i: run the detector, record, then the deferred calls in LIFO  *)
(* order (recover, release the slot, wg.Done).                             *)

KeptResults(o) == o.res

DetectorReturns(i) ==
    LET o == OutcomeOf(tasks[i]) IN
    /\ g[i] = "running" /\ o.kind # "panic"
    /\ results' = [results EXCEPT ![i] = KeptResults(o)]
    /\ errs' = [errs EXCEPT ![i] = (o.kind = "error")]
    /\ g' = [g EXCEPT ![i] = "recorded"]
    /\ UNCHANGED <<env, pc, tasks, next, r, sem, wg, seen, report>>

PanicSwallowed(i) == errs
PanicRecorded(i) == [errs EXCEPT ![i] = TRUE]

DetectorPanics(i) ==
    /\ g[i] = "running" /\ OutcomeOf(tasks[i]).kind = "panic"
    /\ errs' = PanicRecorded(i)
    /\ g' = [g EXCEPT ![i] = "recorded"]
    /\ UNCHANGED <<env, pc, tasks, next, r, sem, wg, results, seen, report>>

SlotLeakedOnPanic(i) == OutcomeOf(tasks[i]).kind # "panic"
SlotReturned(i) == TRUE

ReleaseSlot(i) ==
    /\ g[i] = "recorded"
    /\ sem' = IF SlotReturned(i) THEN sem - 1 ELSE sem
    /\ g' = [g EXCEPT ![i] = "released"]
    /\ UNCHANGED <<env, pc, tasks, next, r, wg, results, errs, seen, report>>

WgDone(i) ==
    /\ g[i] = "released"
    /\ wg' = wg - 1
    /\ g' = [g EXCEPT ![i] = "exited"]
    /\ UNCHANGED <<env, pc, tasks, next, r, sem, results, errs, seen, report>>

-----------------------------------------------------------------------------
(* The calling goroutine again: assemble the report in task order.         *)

ReportTaskError ==
    /\ pc = "assemble" /\ next <= Len(tasks)
    /\ report' = [report EXCEPT !.errors =
                    IF errs[next] THEN Append(@, tasks[next]) ELSE @]
    /\ r' = 1
    /\ pc' = "results"
    /\ UNCHANGED <<env, tasks, next, sem, wg, g, results, errs, seen>>

\* Detector, identity and the start of the first span, if there is one.
DedupeKey(d, res) == <<d, res.id, res.at>>

\* buildFinding on one result.
BuildFinding ==
    LET res == results[next][r]
        d == tasks[next][1]
        key == DedupeKey(d, res)
        skipped == res.id = NoId \/ res.verdict = "drop" \/ key \in seen
    IN  /\ pc = "results" /\ r <= Len(results[next])
        /\ res.id = NoId \/ res.verdict # "panic"
        /\ seen' = IF skipped THEN seen ELSE seen \cup {key}
        /\ report' = [report EXCEPT !.findings =
                        IF skipped THEN @ ELSE Append(@, key)]
        /\ r' = r + 1
        /\ UNCHANGED <<env, pc, tasks, next, sem, wg, g, results, errs>>

\* The false-positive check runs on the calling goroutine, outside any recover
\* of this package: its panic unwinds Scan (th_scan turns it into NULL).
FalsePositiveCheckPanics ==
    /\ pc = "results" /\ r <= Len(results[next])
    /\ results[next][r].id # NoId /\ results[next][r].verdict = "panic"
    /\ pc' = "panicked"
    /\ UNCHANGED <<env, tasks, next, r, sem, wg, g, results, errs, seen, report>>

NextTask ==
    /\ pc = "results" /\ r > Len(results[next])
    /\ next' = next + 1
    /\ pc' = "assemble"
    /\ UNCHANGED <<env, tasks, r, sem, wg, g, results, errs, seen, report>>

ReturnReport ==
    /\ pc = "assemble" /\ next > Len(tasks)
    /\ pc' = "done"
    /\ UNCHANGED <<env, tasks, next, r, sem, wg, g, results, errs, seen, report>>

Caller ==
    \/ Prefilter \/ WgAdd \/ AcquireAndSpawn \/ LoopExit \/ WaitReturns
    \/ ReportTaskError \/ BuildFinding \/ FalsePositiveCheckPanics
    \/ NextTask \/ ReturnReport

Goroutine(i) ==
    DetectorReturns(i) \/ DetectorPanics(i) \/ ReleaseSlot(i) \/ WgDone(i)

Next == Caller \/ \E i \in Slots : Goroutine(i)

\* The Go scheduler runs every runnable goroutine, and every detector returns
\* or panics: FromData gets a deadline, and the repository's own one ignores it
\* but matches with RE2, in linear time.
Fairness == WF_vars(Caller) /\ \A i \in Slots : WF_vars(Goroutine(i))

Spec == Init /\ [][Next]_vars /\ Fairness

-----------------------------------------------------------------------------
Holding == {i \in Slots : g[i] \in {"running", "recorded"}}
Alive == {i \in Slots : g[i] \in {"running", "recorded", "released"}}

\* Type invariant of one Scan call.
TypeOK ==
    /\ world \in Worlds
    /\ length \in Nat
    /\ pc \in PCs
    /\ tasks \in Seq(Task) /\ Len(tasks) <= MaxTasks
    /\ next \in 1 .. MaxTasks + 1 /\ r \in Nat \ {0}
    /\ sem \in Nat /\ wg \in Nat
    /\ g \in [Slots -> Phases]
    /\ results \in [Slots -> Seq(Results)]
    /\ errs \in [Slots -> BOOLEAN]
    /\ seen \subseteq Found
    /\ report \in Reports

\* Config.Concurrency really bounds parallel detector invocations: the channel
\* holds one token for each goroutine between its start and its deferred
\* release (also after a panic), and never more than Concurrency.
SlotBound ==
    /\ sem = Cardinality(Holding)
    /\ Cardinality(Holding) <= Concurrency

\* "No goroutines outliving a call" (package comment): once the WaitGroup let
\* the caller through, also when assembly panics, no detector goroutine of this
\* call is alive, so results and errs are read only after their last write.
NoGoroutineOutlives ==
    pc \in {"assemble", "results", "done", "panicked"} =>
        /\ Alive = {}
        /\ \A i \in DOMAIN tasks : g[i] = "exited"

Delivered(t) == IF OutcomeOf(t).kind = "panic" THEN <<>> ELSE OutcomeOf(t).res
Ran == IF ScannedBytes = 0 THEN {} ELSE TasksIn(world)

\* Result k of task t is worth reporting, and what is reported of it.
Worthwhile(t, k) ==
    /\ k \in DOMAIN Delivered(t)
    /\ Delivered(t)[k].id # NoId /\ Delivered(t)[k].verdict = "keep"
KeyAt(t, k) == <<t[1], Delivered(t)[k].id, Delivered(t)[k].at>>

\* A finished report accounts for every task, however the goroutines were
\* scheduled: one error entry for each task that failed or panicked and no
\* other, and a finding for each credential and first occurrence some task of a
\* detector delivered, those returned next to an error included.
ReportComplete ==
    pc = "done" =>
        /\ {report.errors[k] : k \in DOMAIN report.errors}
               = {t \in Ran : OutcomeOf(t).kind # "ok"}
        /\ {report.findings[k] : k \in DOMAIN report.findings}
               = UNION {{KeyAt(t, k) : k \in {n \in DOMAIN Delivered(t) : Worthwhile(t, n)}} : t \in Ran}

\* Where a finding comes from, in the order of detectors, chunks and results.
Places(f) ==
    UNION {{<<t, k>> : k \in {n \in DOMAIN Delivered(t) : Worthwhile(t, n) /\ KeyAt(t, n) = f}} :
           t \in Ran}
PlacedBefore(p, q) == Before(p[1], q[1]) \/ (p[1] = q[1] /\ p[2] < q[2])

\* Neither the random order of the prefilter's map nor the completion order of
\* the goroutines shows in the report: errors come in the order of detectors and
\* chunks, and each finding stands where the first result that gives it stands
\* among all results, within a detector too, the others being dropped.  With
\* ReportComplete this makes the report a function of what the detectors did.
ReportDeterministic ==
    /\ \A i, j \in DOMAIN report.errors :
          i < j => Before(report.errors[i], report.errors[j])
    /\ \A i, j \in DOMAIN report.findings :
          i < j => \E p \in Places(report.findings[i]) :
                      \A q \in Places(report.findings[j]) : PlacedBefore(p, q)

\* A Scan call comes to an end whatever its detectors do, panics included: no
\* slot of the semaphore and no count of the WaitGroup is lost.
ScanTerminates == <>(pc \in {"done", "panicked"})

\* What the comment on Scan says: one misbehaving detector cannot fail the
\* whole request, its failure is collected into Report.Errors.
OneDetectorCannotFailScan == pc # "panicked"
=============================================================================

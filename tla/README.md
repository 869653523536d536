# A TLA+ model of litellm-trufflehog

litellm-trufflehog scans the prompts and responses that pass through a LiteLLM
proxy for credentials. A Go core runs trufflehog's detectors over a text, a C
bridge exposes it as a shared library, and a Python package turns its reports
into decisions: block, mask or log. This directory models the parts of it in
which order, failure and concurrency matter, model-checks them with TLC, and
proves the central properties with TLAPS.

To check: `tlc -config ScanTasks.cfg MCScanTasks` (any cfg with the MC module of
the table below), `tlapm ScanTasks_proofs.tla` (any `*_proofs` module).

## 1. Inventory

| Component | Code | State | Operations | What makes it correct |
|---|---|---|---|---|
| Scan pipeline | `go/scanner/scanner.go` | per call: task list, semaphore, WaitGroup, result and error slots, dedupe set | `Scan`, `runTasks`, `runDetector`, `filterResults`, `buildFinding` | bounded parallelism, nothing outlives the call, every failure is reported, report independent of scheduling, it ends |
| Construction, warm-up | `scanner.go` `New`, `warm` | detector list, prefilter, warm-up errors | `New` | fails on a mistaken config only; yields the whole list, every detector warmed |
| Findings and offsets | `go/scanner/findings.go` | per call: `offsetTracker.next` | `candidateSecrets`, `locate`, `locateAll`, `spansFor`, `mergeSpans` | every copy of a credential has a span; spans are sorted and disjoint |
| Detector selection | `go/scanner/config.go`, `profiles.go` | none | `ParseConfig`, `withDefaults`, `resolveDetectors`, `profileNames` | includes and excludes apply; catch-alls only by name |
| Catch-all detector | `go/scanner/catchall.go` | none | `FromData` | a regular expression and an entropy threshold |
| C bridge | `go/cbind/export.go` | `registry`, `nextHandle`, `lastErr`, C heap | `th_new`, `th_scan`, `th_close`, `th_detector_count`, `th_warmup_errors`, `th_last_error`, `th_free`, `th_version`, `th_profiles`, `sanitizeStdio` | a handle names one scanner for ever; strings freed once; panics stay inside |
| Python Scanner | `src/litellm_trufflehog/scanner.py` | `_handle`, `_closed`, `_lock` | `__init__`, `scan`, `scan_async`, `redact`, `detector_count`, `close` | thread-safe; a scan answers for its own scanner or raises |
| Redaction | `scanner.py` `_apply_redaction`, `_merge_labelled_spans`, `fingerprint` | none | splice masks over spans | no copy survives in what was scanned, nothing else changes, a mask names its findings and tells equal credentials, refuse exactly what cannot be masked |
| Scanner cache | `scanner.py` `get_scanner` | `_cache`, `_cache_lock` | `get_scanner` | one scanner per set of arguments, with the configuration they ask for |
| Library loader | `_lib.py` | `_dll`, descriptors 1 and 2 | `_LazyLib`, `_load`, `_repair_standard_handles`, `take`, `check` | loaded once, with usable standard handles |
| Stream scanner | `stream.py` | `_tail`, `_seen`, `_chars_seen` | `feed`, `flush`, `scan_all` | no cut hides a credential; each is reported once; a union that looks clean is complete |
| Guardrail | `guardrail.py` `apply_guardrail` | the host's `inputs` | gather scans, combine, decide | fails closed; decides for the right reason; always decides |
| Streaming hook | `guardrail.py` `async_post_call_streaming_iterator_hook` | a stream scanner | feed and yield each item | no whole credential delivered |
| Packaging, CI, tests, examples | `setup.py`, `justfile`, `docker/`, `.github/`, `tests/`, `examples/` | - | - | - |

How they interact. A LiteLLM call enters `apply_guardrail` (or, chunk by chunk,
the streaming hook) on the event loop. Each text goes to `Scanner.scan` on a
thread of the executor, which calls `th_scan` through ctypes with the GIL
dropped; the Go side looks the handle up in the registry and runs `Scan`, which
starts one goroutine per task. The report comes back as a C string that the
Python side decodes and frees, becomes a `ScanReport`, and is combined with
those of the other texts; the policy then blocks, logs, or has
`_apply_redaction` mask the spans that `findings.go` computed.

What is hard here: goroutines of third-party code that panic, err or return
partial results; reports that arrive in any order, or not at all, for several
texts of one call; threads that share a scanner while one of them closes it;
strings and error messages that take two native calls to fetch; a credential
that straddles fragments of a stream; overlapping, repeated and partly located
spans; and defects of a scan that must not look like a clean result. The
`hazards` of `PROJECT.json` give each one with its line and the property that
watches it.

## 2. Modules

| Module | Models | Composed with |
|---|---|---|
| `ScanTasks` | one call of `Scanner.Scan` | - |
| `ReleaseGate` | abstract: what the guardrail promises its host | implemented by `Guardrail` |
| `Guardrail` | one `apply_guardrail` call with the executor's threads | a scan in it is any outcome `ScanTasks` or the bridge can have |
| `StreamScanner` | the `StreamScanner` object | - |
| `StreamScanAll` | the caller of a StreamScanner: `feed`, `flush`, `scan_all` | extends `StreamScanner`, whose actions it calls |
| `StreamHook` | the streaming hook | extends `StreamScanner`, whose actions it calls |
| `ScannerService` | abstract: what a shared Scanner promises its threads | implemented by `NativeBridge` |
| `NativeBridge` | Scanner objects, ctypes helpers, registry, error slot, C strings | - |
| `Redaction` | from detector results to a masked text, Go and Python side | - |
| `LazyLoad` | `get_scanner`'s cache, `_LazyLib`, the repair of descriptors 1 and 2, `sanitizeStdio` | - |
| `Selection` | `New`: `resolveDetectors` and `warm` | - |
| `MC*` | the instances TLC checks | - |
| `*_proofs` | the theorems and their proofs | - |

**ScanTasks.** `world` fixes, once and arbitrarily, how many chunks the
prefilter cuts for each detector and what the detector does with each: results,
results next to an error, or a panic. `pc` and `next` are the place of the
calling goroutine (`Prefilter`, the loop `WgAdd`/`AcquireAndSpawn`/`LoopExit`,
`WaitReturns`, and the assembly `ReportTaskError`/`BuildFinding`/`NextTask`/
`ReturnReport`); `g[i]` is the phase of goroutine `i`, whose deferred calls run
in the order recover, `ReleaseSlot`, `WgDone`. `sem` and `wg` are the channel's
length and the WaitGroup's counter. A finding is its dedupe key: detector,
identity and the start of its first span. The start is the world's choice too: it
depends on which occurrences the detector's earlier results claimed (`Redaction`
says how), which are earlier in task order and so fixed with the world, and one
identity may be reported at several starts.

**Guardrail.** A text is the set of secrets readable in it, a scan is a record
of what its report says (found, located, truncated, degraded, or that it
raised) and of what it does not say: findings of which a part has no span
(`partly`), secrets with a copy in an unscanned tail (`tail`), and those a failed
detector would have reported (`skipped`). Masking removes a secret from a text
only if every part was located and no copy is in the tail. `Gather` queues the texts,
`WorkerStarts`/`WorkerFinishes` are the executor's threads, and each branch
of `apply_guardrail` and `_handle` is a disjunct of `Decide`. `_combine` and
`_handle` run between two awaits of the event loop, so a decision is one step.
`texts` and `withheld` are the two entries of the host's dict.

**StreamScanner, StreamScanAll, StreamHook.** Characters are bytes, a credential is the text a
detector must see whole, keyword included. `Feed`, `FeedDegraded` and
`FeedRaises` are `feed` with each way its scan can end; `stream`, `times` and
`defect` are history variables. `StreamScanAll` is what a caller does with the
object: each of its actions is a step of `StreamScanner` together with what
`scan_all` collects; a scan or an iterable that raises abandons the list. The
hook's items hold one fragment per choice, and each of its actions is a whole
iteration of the loop: receive, feed, then yield or raise. `place` remembers
where in the scanned text each character of each choice came to lie, so that the
properties can speak of responses whose choices interleave.

**NativeBridge.** A step is one critical section or one atomic access: clearing
`lastErr`, reading the registry, drawing a handle, registering it, taking the
object's lock, decoding and freeing a string. `call[t]` remembers whether the
scanner was open when the call began, which is what the abstract service needs;
`breaks` is a text whose scan panics in Go,
and the empty text returns a report of nothing without a lookup (`EmptyText`), also
from an object whose handle is no scanner's. A construction or a call ends when
its thread is back at `idle`.

**Redaction.** Offsets count bytes from zero, spans are half open, a two-byte
code point is the pair `Lead`, `Cont`. `text` is what the caller passed; `Data`, its
first `MaxBytes` bytes, is what `Scan` looks at and what spans lie in. The splice,
as in the code, is made in the whole text, and whether the report was truncated is
not asked. One step per candidate fragment
(`SkipCandidate`, `LocateEverywhere`, `LocateOnce`), one to finish a finding
with its merged spans and dedupe key, and one for each way `redact` ends. A mask
is a piece with its labels and its tag; a tag is a digest that two values share
only if they are equal, and the template is left out. Each loop is a recursive
function of the number of turns made: `LocateAll` of `Search`, `MergeSpans` of
`Coalesce`, `MergeLabelled` of `MergeLabel`. `SortedBy` puts at place n the element
that n - 1 others come before, and `Splice` alternates the bytes kept before each
mask with the mask, then what is left.

**LazyLoad.** A step is one system call or one access to the cache or its lock;
`repair[t]` holds the locals of `_repair_standard_handles` in thread `t`. The
first `dlopen` has two steps. `PackageInit` initialises the packages of the library,
where go-re2 binds the host's handles whatever the environment says; the code
names `os.Stdout`, repairs both handles alike, and so the model binds both.
`SanitizeStdio` is the init of cbind, which runs last. A later `dlopen` waits for
both and initialises nothing (`DlopenAgain`).
`get_scanner` serialises its first uses by the lock of the cache; a directly
constructed Scanner or `native_version` (`UseDirectly`) takes no lock, as in the
code. The host may have closed any standard descriptor before and opens or
closes none meanwhile. A request is what `get_scanner` is passed for each
option, a value of some kind with its items: `KeyOf` drops what is None and
freezes lists, `ConfigOf` drops what is falsy but for the two options that mean
something by it, and `GuardrailKwargs` is what the guardrail makes of its own
arguments. `initial`, `overlap` and `answers` are history variables.

**Selection.** A detector is its ID, type and version. How a selector is spelled
is trufflehog's parser, external: `Expansion` gives the IDs each selector stands
for, `Typos` those it rejects. Parsing a list is a step, and so is each turn of
the loop over the pool and each call of the warm-up, where `Fragile` detectors
may panic. The reference (`Effective`) says what the lists mean detector by
detector.

## 3. Runs

| Run | Bounds | States | Shows |
|---|---|---|---|
| `scan_tasks` | 2 detectors, up to 2 chunks each, 3 tasks, 2 slots, 4 outcomes | 43 714 | `TypeOK`, `SlotBound`, `NoGoroutineOutlives`, `ReportComplete`, `ReportDeterministic`, `ScanTerminates` |
| `guardrail` | up to 3 texts, 2 secrets, 8 scans, 2 threads, all 24 policies | 435 696 | `TypeOK`, `DecisionIsRight`, `ReasonIsTrue`, `FailsClosed`, `EveryCallDecided` |
| `stream_scanner` | 2 letters, fragments of 1 to 3, 7 characters in all, overlap 2, limit 4 | 163 676 | `ScannerTypeOK`, `EveryCredentialReported`, `ReportedOnce`, `UnionIsComplete` |
| `stream_hook` | 2 choices, items of up to 2 characters, 6 in all, overlap 2, limit 3 | 269 412 | `HookTypeOK`, `NoSecretDelivered`, `BlockedForASecret`, `DeliveredIsScanned` |
| `native_bridge` | 2 threads, 2 objects, 2 addresses, 4 calls | 179 161 | `TypeOK`, `StringsFreedOnce`, `RegistryMatchesObjects`, `ImplementsService`, `EveryCallReturns` |
| `redaction` | texts of up to 4 bytes over 3 letters and 5 or 6 over 2, some with a two-byte code point; 4 bytes are scanned; up to 2 results of 2 detectors; lengths scaled to 1 and 3 | 296 370 | `TypeOK`, `NoCopySurvives`, `MasksExactlyTheSpans`, `MasksNameTheirFindings`, `CopiesShareATag`, `RefusedIfUnmaskable`, `ClaimsInOrder` |
| `lazy_load` | 2 threads, 4 requests (two of one key, one rejected), 3 calls, descriptors 0 to 6 | 708 336 | `TypeOK`, `OneScannerPerConfiguration`, `GoHandlesStayOpen`, `HostFilesUntouched`, `EveryCallReturns` |
| `selection` | lists of up to 2 of 8 selectors, 6 profiles (one unset, one unknown), 4 types, 2 versions, 2 fragile detectors | 97 651 | `TypeOK`, `ListIsEffective`, `RejectedIfMistaken` |

Why the bounds are enough. `scan_tasks` needs more tasks than slots (so the
caller blocks), two tasks of one detector (so dedupe and order matter) and one
of another; results repeat an identity at one start and at two. `guardrail` needs more texts than threads, one text that decides
against two others, and each kind of scan, with a secret located in part and one
that is found and has a copy in the tail as well. `stream_scanner` needs a credential
as long as the overlap, one longer (the longest that is promised), one that
repeats itself, a fragment longer than the overlap, a window longer than the
limit, and room for a second `scan_all` after one that raised. `stream_hook` adds
a second choice, which interrupts a credential of the first or completes it. In
`native_bridge` a race is between two threads; two objects let one be closed
while another is constructed, and two addresses make a freed string's address
come back at once; four calls are two constructions, a close and a scan.
`redaction` needs a value that overlaps its own copies, spans that nest, touch
and start inside a code point, a short part claimed by two detectors, two
results that differ in one detector or one value only, and texts longer than
`MaxBytes`, with a copy behind it, a copy across it and a code point it cuts. In `lazy_load` a race is
between two first uses, and the third call meets what they left, also after a
construction that raised; two requests differ only in a list and a tuple, and
two only in a falsy argument; the six descriptors above 0 are the most that two
threads and the Go side can hold. `selection` needs a selector of a type, of one
version and of a range that includes a catch-all, and each of them beside the
group "all", in the includes and in the excludes.

Each run sets `CHECK_DEADLOCK FALSE`: a call, a stream or a bounded number of
calls ends, and the model then really stops. Where it must not stop earlier, a
liveness property says so.

### Fairness

`ScanTasks` assumes weak fairness of the calling goroutine and of each detector
goroutine: the Go scheduler runs runnable goroutines, and a detector returns or
panics. The second is an assumption about third-party code, which gets a
deadline in its context (`DetectorTimeoutMS`) but is not interrupted.
`Guardrail` assumes it of the event loop and of each executor task; that a
native scan returns is what `ScanTerminates` shows. `NativeBridge` assumes it of
a thread inside a call, and of nothing else: beginning a call is the caller's
choice, and no lock is granted in order. `LazyLoad` makes the same assumption,
with a bounded number of calls. `StreamScanner`, `StreamHook`, `Redaction` and
`Selection` are single-threaded and have safety properties only.

### Disagreements between code and text

Four runs end in a counterexample; each refutes a sentence of the repository.

- `scan_fp_panic`: "one misbehaving detector cannot fail the whole request"
  (`scanner.go:126`). The false-positive check is detector code that runs on the
  caller, outside the recover of the goroutines; its panic unwinds `Scan`.
- `hook_degraded`: "an unscanned tail or a skipped detector means an empty result
  cannot be mistaken for a clean one" (`guardrail.py:109`). The streaming hook
  looks at the findings only and consults neither option.
- `bridge_last_error`: "NULL means failure; call th_last_error for the message"
  (`export.go:9`). Another thread's `th_scan` clears the slot between the two.
- `redaction_parts`: "whether every part of this credential was located"
  (`scanner.py:91`). One located part is enough for `redactable`.

Eight more are visible in the models but have no run of their own.

- th_new "returns a positive handle or a negative error sentinel"
  (`export.go:147`). After a recovered panic it returns zero, which
  `Scanner.__init__` accepts; `errPanic` is never used. `NativeBridge` follows
  the code, and `ScannerService` calls such an object dead: every scan by it
  raises but that of an empty text, which `ImplementsService` checks.
- "Redaction masks *every* occurrence of a value" (`README.md:107`). Neither
  `redact` nor `_apply_redaction` looks at `truncated`: the spans come from the
  first `MaxBytes` bytes, the splice is made in the whole text, and a copy that lies
  or ends behind `MaxBytes` comes back readable, next to masked ones and without an
  error. `NoCopySurvives` speaks of what was scanned (`Unscanned` names the rest),
  and `FailsClosed` counts such a copy as one of the tail, which only a policy that
  tolerates truncation permits.
- "The repair is permanent because go-re2 captures the handle once and reuses it"
  (`_lib.py:107`). Two first uses that share no lock may repair two unusable handles
  at once: both find handle 1 closed, the null device of the second lands on 2, it
  copies it over 1, takes its own descriptor for a usable handle 2, and closes it as
  redundant. Go is then loaded on a closed handle 2, whatever the environment says.
  `GoHandlesStayOpen` exempts exactly this, by name.
- "`redact` masks each secret" (`guardrail.py:91`). A credential of which only a part
  was located passes for redactable, so the guardrail hands its text on with the
  other parts readable: what `redaction_parts` shows, seen from the host.
  `FailsClosed` grants this to the action `redact`, by name (`PartlyMasked`), and
  nothing beyond it.
- Catch-alls are "only ever selected by name, never by a group"
  (`config.go:179`). The group "all" is left out of the explicit set, a range
  of IDs is not, nor is an entry that holds several selectors ("AWS,all"):
  `Selection` has such a range, and `Effective` says what the code does.
- "Two different tags mean two credentials" (`scanner.py:346`). A tag is of the
  bytes its mask covers: where a credential touches or overlaps another finding
  one mask covers both, and the tag differs from that of a copy that stands
  alone. `CopiesShareATag` is stated for copies no other span touches.
- "Feed every chunk and return the union of new findings" (`stream.py:81`). When
  a scan raises, the findings of the earlier chunks are lost with the local list,
  but the object remembers them: a second `scan_all` over the same text does not
  return them. `UnionIsComplete` exempts exactly these, by name (`dropped`).
- "Identical configurations share one instance" (`scanner.py:428`). The key holds
  every argument that is not None, so `get_scanner()` and
  `get_scanner(verify=False)` build two scanners of one configuration; so do a
  guardrail, which passes all its options, and a caller who names only the
  profile. `OneScannerPerConfiguration` is stated for equal arguments.

## 4. Proofs

For every value of the constants, under the named assumptions of each module.
Every safety property of the passing runs is a theorem. Each inductive invariant was also checked by TLC on the instance of its module's
run (quantifiers over identities and indices bounded there).

**ScanTasks_proofs** (`SizesAssumption`, `DefaultsAssumption`,
`OutcomesAssumption`): type correctness, `SlotBound`, `NoGoroutineOutlives`,
`ReportComplete`, `ReportDeterministic`.
Neither of the second and third is inductive alone: that nothing is alive after
the barrier follows from the WaitGroup's counter only if the counter is known to
equal the number of goroutines alive, plus one between `wg.Add` and `go`. The
inductive invariant is `IInv == TypeOK /\ ControlInv /\ CountInv`: `ControlInv`
says which goroutines exist at which place of the caller's loop, `CountInv` that
`sem` and `wg` count two sets of goroutines. Lemmas about cardinalities of sets
that gain or lose a member carry the counting. What the report says
needs `RInv`, which adds: a goroutine that has recorded wrote what its detector
did with its task (`WrittenInv`); the list holds every task once, sorted
(`TasksInv`); the errors are those of the tasks looked at so far, each once
(`ErrorsInv`); the findings are the dedupe keys of the results built so far
(`FindingsInv`), and a finding comes of a result looked at before every result that
yields a later one (`OrderInv`). The barrier is where they meet: `ControlInv` says that every
goroutine has exited when the assembly begins, so each slot it reads was written.

**Guardrail_proofs** (`WorkersAssumption`, `ScansAssumption`): type correctness,
`DecisionIsRight`, `ReasonIsTrue`, and `ImplementsGate`, the refinement of
`ReleaseGate`. The invariant adds `ProgressInv`, the link between the phases, the
decision and the texts: those of an undecided call are as passed, those of a
returned one hold nothing that is not permitted. The refinement maps the steps
that return to `Release`, those that block or raise to `Refuse`, and the
executor's steps to stutters, also after the decision. It rests on
`ScansAssumption`, that a secret has a copy in a tail or was skipped only in a scan
that says it was truncated or degraded: that is the promise of `ReportComplete` and of the
detectors, and everything the guardrail can know.

**StreamScanner_proofs** (`TextAssumption`, `WindowAssumption`): type
correctness, `EveryCredentialReported`, `ReportedOnce`. The invariant adds that
the tail is the last `Overlap` characters of the scanned text, or all of it
(`TailInv`), and that exactly the credentials in `seen` were reported, once
each (`SeenInv`). The heart is the lemma `SeenWhole`: a credential of at most
`Overlap + 1` characters that occurs in text plus fragment occurs in the text
alone or whole in the window.

The lemmas about a feed are stated for any fragment,
not for the fragments of an instance, so that the hook's can use them.

The second part of the module is about `StreamScanAll`: `UnionIsComplete`, and that
every step of a caller is a step of `StreamScanner`, so that the theorems above
hold under `scan_all` too. The invariant adds that the chunks of a running
`scan_all` are the end of the scanned text (`FedIsSuffix`), so that the window
argument applies to them; that their credentials are remembered as long as the
report is healthy (`FedIsSeen`); and that what is remembered was handed to the
caller, is in the list being collected, or was lost with a `scan_all` that
raised (`NothingLost`).

**StreamHook_proofs** (these and `ItemsAssumption`): `HookTypeOK`,
`NoSecretDelivered`, `BlockedForASecret`, `DeliveredIsScanned`, and that the
scanner's own `EveryCredentialReported` and `ReportedOnce` hold when the hook
drives it. `TextBefore` is a recursive function; `JoinExists` shows that its
equation has a solution for any number of choices, by induction over a set of
numbers (`EveryNatural`, from the well-foundedness of `<`), and `FragmentsLie`
that each character of each choice is in the joined text at its place. The
invariant `HInv` keeps, beside the scanner's, that the texts of the choices lie
in the scanned text in order and fill it (`Aligned`), and that an open stream
under `block` or `redact` has found nothing so far. A secret that was delivered
whole would lie in text the scanner had seen, so `EveryCredentialReported` would
have reported it, and the stream would not be open.

**LazyLoad_proofs** (`SizesAssumption`, `NobodyAssumption`, `KwargsAssumption`):
type correctness, `OneScannerPerConfiguration`, `HostFilesUntouched`,
`GoHandlesStayOpen`. Two invariants, one for each shared thing. `CInv` is about
the cache: a thread that constructs for it holds its lock and finds its key still
missing (`LockInv`), scanners and stored keys correspond one to one, each with
the configuration of every request of its key (`CacheInv`), and no more scanners
were built than calls begun (`CallsInv`). `KwargsAssumption` says that a value is
its kind and its items, which is what makes equal keys give equal configurations.
`FInv` is about the descriptors: what the host had open it still has
(`HostInv`), two threads never share a null device (`OwnerInv`), what Go opened is
in its list and open (`GoInv`), one thread at most is between the two steps of the
first `dlopen` (`InitInv`), handle 1 is usable once a thread has passed it, so
before any `dlopen`, and stays so however repairs overlap (`FirstInv`), and handle
2 is, too, without the overlap that `GoHandlesStayOpen` exempts (`SoloInv`). The
two differ because descriptors are handed out from below: who is given 2 found 1
taken. `open` always finds a free descriptor
because `MaxFd` is at least four more than the threads: `ClosedIsLeft` counts
those that threads and Go can hold.

**Selection_proofs** (`ParserAssumption`, `DetectorsAssumption`,
`ProfilesAssumption`): type correctness, `ListIsEffective`, `RejectedIfMistaken`.
`allDetectors` is the recursive function `Kept`, whose equation is shown to have
a solution for a pool of any length, and to keep each ID once and no other
(`AllDetectorsFacts`). `InSetIsMeant` says that a set of IDs made from
selectors has a detector, as `inSet` reads it, exactly if a selector means it.
The invariant `SInv` then says what has been parsed so far (`ParsedInv`), that
the list holds what is chosen among the detectors looked at (`ListInv`), that the
warm-up has called what it passed (`WarmInv`), and that whoever failed made a
mistake (`FailedInv`); at the end of the pool this is the reference (`FullList`).

**NativeBridge_proofs** (`SizesAssumption`, `NobodyAssumption`): type correctness,
`RegistryMatchesObjects`, `StringsFreedOnce`, and `BridgeImplementsService`, the
refinement of `ScannerService`, for any number of threads, objects, addresses
and calls. The invariant has a part for each thing the threads share:
`CallInv` (a thread inside a call has an object in the state the call needs, and
no two construct the same one), `LockInv` (who holds the lock of an object),
`HandleInv` and `RegistryInv` (handles are not shared and not given out again,
and a registered scanner belongs to an object that can still use it),
`StringInv` (an allocated string has one thread that will free it), `ScanInv`
(what the string a scanning thread holds, or is about to hold, may say). The
last is what the refinement needs: a scan that looked its handle up before a
close still answers with its own scanner, because no handle is used twice, and
a scan that raises can point to its text, to the close, or to the missing
handle. `HiddenSteps` shows that the other steps are stutters.

**Redaction_proofs** (`LengthsAssumption`, `InputsAssumption`, and `MarkAssumption`,
that the mark of a mask is no byte): type correctness, `NoCopySurvives`,
`MasksExactlyTheSpans`, `MasksNameTheirFindings`, `CopiesShareATag`,
`RefusedIfUnmaskable`, `ClaimsInOrder`, for texts, results and candidates of
any length and any `MaxBytes`. Most of the module is about the operators, in this order.

1. `LoopExists` and `LoopIsUnique`: the recursive functions make their turns, one
   after another.
2. `SortFacts`: a strict total order on a finite set gives each element one place.
3. `LocateAllFacts`: the matches are in order and do not overlap, and every
   occurrence begins inside one (`OccurrencesLocated`): an occurrence that began
   before the first match, or between two, would have been the match found there.
4. `MergeSpansFacts` and `MergeLabelledFacts`: merged spans are apart and hold each
   span they were made from and no byte of no span; a merged mask has the labels of
   its spans and no other.
5. `TilingFacts`, `GapScanned` and `VisibleReads`: the pieces of a splice tile the
   text, only the last reaches beyond what was scanned, and a run of bytes that is
   seen in the output comes from one kept piece and, if it is seen before the
   unscanned tail, from a place that was scanned.
6. `SplitFacts` and `UncutFacts`: the kept pieces decode exactly if no mask cuts a
   code point of the text, also one that `MaxBytes` has cut.

The invariant is `IInv == TypeOK /\ CurrentInv /\ OrderInv /\ FindingsInv /\
ClaimsInv /\ OutInv`. `CurrentInv` is about the result being looked at: its spans
hold every occurrence of each candidate passed that is to be located everywhere
(if it was turned away as a duplicate, those of the equal one before it, which was
located everywhere too, because whole candidates come first), and every occurrence
claimed for it. `FindingsInv` says the same of the merged spans of each finding.
`OrderInv` keeps findings and claims among the results looked
at. `ClaimsInv` says that the claims of a detector's fragment are its occurrences in
order and that its tracker stands where the last one ended, without which a step
that locates the next one could claim it twice. `OutInv` says that what is
returned is the splice of a report that was located and cuts no code point, and
that what is refused was unlocated or would have one cut. `NoCopySurvives` then meets in the middle: a copy that is seen
before the unscanned tail lies in one kept piece of what was scanned, so it overlaps
no mask; but it begins inside a match, matches lie in spans of a finding, and every
such span is in a mask.

Only model-checked: the liveness properties `ScanTerminates`,
`EveryCallDecided` and `EveryCallReturns`, since fairness and ENABLED are outside
the prover.

## 5. Not modelled

Third-party code: trufflehog's detectors, the prefilter, entropy and wordlist
checks, verification over the network (a detector outcome is arbitrary). The
regular expression of the catch-all detector. JSON encoding, hashing, durations and
messages. The JSON of a configuration
(`ParseConfig`), `th_version`, `th_profiles` and `th_warmup_errors`, which read
and format. The Windows variant of the handle check, and the log file that
`LITELLM_TRUFFLEHOG_STDIO_FILE` names. Wheel building and CI.

## 6. Plan

Done: `ScanTasks`, `Guardrail` with `ReleaseGate`, `StreamScanner`,
`StreamScanAll`, `StreamHook`, `NativeBridge` with `ScannerService`, `Redaction`,
`LazyLoad`, `Selection` with the warm-up, and proofs of the safety properties of
all of them. What is left is in section 5, and liveness stays with TLC.

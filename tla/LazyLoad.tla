------------------------------ MODULE LazyLoad ------------------------------
(***************************************************************************)
(* The first use of the native library: get_scanner and its process-wide   *)
(* cache (src/litellm_trufflehog/scanner.py), the lazy dlopen and the      *)
(* repair of the standard handles that precedes it (_lib.py), and what the *)
(* Go side does with the standard handles when it is loaded: its packages  *)
(* are initialised, go-re2 for one binds os.Stdout there and then, and     *)
(* sanitizeStdio (go/cbind/export.go) follows.                             *)
(*                                                                         *)
(* Threads interleave between system calls.  Only get_scanner serialises   *)
(* first uses, by the lock of its cache; another use of the library (a     *)
(* Scanner constructed directly, native_version) takes no lock.  The host  *)
(* opens and closes no descriptor meanwhile.                               *)
(***************************************************************************)
EXTENDS Integers, Sequences, FiniteSets

CONSTANTS Threads,
          Options,   \* keyword arguments of Scanner
          KeptFalsy, \* those a falsy value is an instruction for: drop_wordlist_fps, profile
          ListArgs,  \* those that are sequences of selectors
          Requests,  \* bound: calls of get_scanner
          Kwargs,    \* Kwargs[r][o]: what request r passes for option o
          Rejected,  \* configurations th_new rejects
          Nobody,    \* no thread, no request
          MaxFd,     \* bound: the largest descriptor
          MaxCalls   \* bound: calls, over all threads

\* Descriptors 0, 1 and 2, one more for each thread and two for the Go side.
ASSUME SizesAssumption ==
    /\ IsFiniteSet(Threads) /\ MaxCalls \in Nat
    /\ MaxFd \in Nat /\ MaxFd >= Cardinality(Threads) + 4
ASSUME NobodyAssumption == Nobody \notin Threads \cup Requests

\* A Python value: falsy if it holds nothing, also False ("scalar" and empty).
\* An argument that is not passed is None, its default or as good as its default.
Kinds == {"none", "scalar", "list", "tuple"}
None == [kind |-> "none", items |-> <<>>]
Truthy(v) == v.items # <<>>

\* What TrufflehogGuardrail.__init__ makes of its own arguments.
AsList(v) == IF Truthy(v) THEN [v EXCEPT !.kind = "list"] ELSE None
GuardrailKwargs(given) == [o \in Options |-> IF o \in ListArgs THEN AsList(given[o]) ELSE given[o]]

ASSUME KwargsAssumption ==
    \A r \in Requests, o \in Options :
        LET v == Kwargs[r][o] IN
        /\ v.kind \in Kinds /\ v = [kind |-> v.kind, items |-> v.items]
        /\ v.kind = "none" => v = None

VARIABLES fd,      \* what each descriptor is: "closed", "host", "null" or "go"
          library, \* "missing", "broken" (dlopen fails) or "good"
          keepStdio, \* LITELLM_TRUFFLEHOG_KEEP_STDIO is set
          dll,     \* _dll of the lazy library is set
          go,      \* descriptors the Go side has bound for good, none before the load
          cache,   \* _cache: cache[k] is the scanner stored under key k, 0 for none
          lock,    \* the thread that holds _cache_lock, or Nobody
          built,   \* the configurations of the scanners constructed for the cache
          pc,      \* where each thread is
          asked,   \* the request of a thread; Nobody: a direct use
          repair,  \* locals of _repair_standard_handles
          calls,   \* calls begun
          initial, \* history: the descriptors at the start
          overlap, \* history: two threads were loading the library at once
          answers  \* history: request and scanner of each get_scanner call

files == <<fd, go>>
shared == <<dll, cache, lock, built>>
locals == <<asked, repair>>
fixed == <<library, keepStdio, initial>>
vars == <<files, shared, pc, locals, calls, fixed, overlap, answers>>

Descriptors == 0 .. MaxFd
Handles == {1, 2}

\* The key of the cache, and the configuration a Scanner passes to th_new.
Freeze(v) == IF v.kind = "list" THEN [v EXCEPT !.kind = "tuple"] ELSE v
OnlyTruthy(v) == Truthy(v)
InKey(v) == v # None
KeyOf(r) == {<<o, Freeze(Kwargs[r][o])>> : o \in {p \in Options : InKey(Kwargs[r][p])}}
Given(r, o) == Kwargs[r][o] # None /\ (o \in KeptFalsy \/ Truthy(Kwargs[r][o]))
ConfigOf(r) == {<<o, Kwargs[r][o].items>> : o \in {p \in Options : Given(r, p)}}
Keys == {KeyOf(r) : r \in Requests}

NoRepair == [at |-> 1, devnull |-> -1, replaced |-> {}]

\* The host may have closed any of the standard descriptors.
Init ==
    /\ fd \in [Descriptors -> {"closed", "host"}]
    /\ \A d \in Descriptors : d > 2 => fd[d] = "closed"
    /\ initial = fd
    /\ library \in {"missing", "broken", "good"} /\ keepStdio \in BOOLEAN
    /\ dll = FALSE /\ go = {} /\ lock = Nobody /\ built = <<>> /\ calls = 0
    /\ cache = [k \in Keys |-> 0]
    /\ pc = [t \in Threads |-> "idle"] /\ asked = [t \in Threads |-> Nobody]
    /\ repair = [t \in Threads |-> NoRepair]
    /\ overlap = FALSE /\ answers = {}

At(t, from) == pc[t] = from
Goto(t, to) == pc' = [pc EXCEPT ![t] = to]

-----------------------------------------------------------------------------
(* get_scanner.                                                            *)

Call(t, r, entry) ==
    /\ At(t, "idle") /\ calls < MaxCalls
    /\ calls' = calls + 1
    /\ asked' = [asked EXCEPT ![t] = r]
    /\ Goto(t, entry)
    /\ UNCHANGED <<files, shared, repair, fixed, overlap, answers>>

GetScanner(t, r) == Call(t, r, "read")
UseDirectly(t) == Call(t, Nobody, "attr")

Cached(t) == cache[KeyOf(asked[t])]
Answer(t, s) == answers' = answers \cup {<<asked[t], s>>}

\* The first look takes no lock.
CacheHit(t) ==
    /\ At(t, "read") /\ Cached(t) # 0
    /\ Answer(t, Cached(t))
    /\ Goto(t, "idle")
    /\ UNCHANGED <<files, shared, locals, calls, fixed, overlap>>

CacheMiss(t) ==
    /\ At(t, "read") /\ Cached(t) = 0
    /\ Goto(t, "lock")
    /\ UNCHANGED <<files, shared, locals, calls, fixed, overlap, answers>>

TakeLock(t) ==
    /\ At(t, "lock") /\ lock = Nobody
    /\ lock' = t /\ Goto(t, "locked")
    /\ UNCHANGED <<files, dll, cache, built, locals, calls, fixed, overlap, answers>>

StillMissing(t) == Cached(t) = 0

\* Another thread was faster.
HitUnderLock(t) ==
    /\ At(t, "locked") /\ ~StillMissing(t)
    /\ Answer(t, Cached(t))
    /\ lock' = Nobody /\ Goto(t, "idle")
    /\ UNCHANGED <<files, dll, cache, built, locals, calls, fixed, overlap>>

ConstructUnderLock(t) ==
    /\ At(t, "locked") /\ StillMissing(t)
    /\ Goto(t, "attr")
    /\ UNCHANGED <<files, shared, locals, calls, fixed, overlap, answers>>

\* An exception leaves the with block, if the thread is in it.
LockKept(t) == lock
LockLeft(t) == IF lock = t THEN Nobody ELSE lock

Raise(t) ==
    /\ lock' = LockLeft(t) /\ Goto(t, "idle")
    /\ UNCHANGED <<dll, cache, built, locals, calls, fixed, overlap, answers>>

\* th_new, when the library is there: it rejects a bad configuration.
ConstructionRaises(t) ==
    At(t, "use") /\ asked[t] # Nobody /\ ConfigOf(asked[t]) \in Rejected /\ Raise(t) /\ UNCHANGED files

Store(t) ==
    /\ At(t, "use") /\ asked[t] # Nobody /\ ConfigOf(asked[t]) \notin Rejected
    /\ built' = Append(built, ConfigOf(asked[t]))
    /\ cache' = [cache EXCEPT ![KeyOf(asked[t])] = Len(built')]
    /\ Answer(t, Len(built'))
    /\ lock' = Nobody /\ Goto(t, "idle")
    /\ UNCHANGED <<files, dll, locals, calls, fixed, overlap>>

DirectUseReturns(t) ==
    /\ At(t, "use") /\ asked[t] = Nobody
    /\ Goto(t, "idle")
    /\ UNCHANGED <<files, shared, locals, calls, fixed, overlap, answers>>

-----------------------------------------------------------------------------
(* _LazyLib.__getattr__ and _load.                                         *)

Loading(t) == pc[t] \in {"check", "open", "dup", "close", "dlopen", "init"}

AlreadyLoaded(t) ==
    /\ At(t, "attr") /\ dll
    /\ Goto(t, "use")
    /\ UNCHANGED <<files, shared, locals, calls, fixed, overlap, answers>>

LibraryMissing(t) ==
    At(t, "attr") /\ ~dll /\ library = "missing" /\ Raise(t) /\ UNCHANGED files

KeptRepair(t) == repair[t]
FreshRepair(t) == NoRepair

BeginLoad(t) ==
    /\ At(t, "attr") /\ ~dll /\ library # "missing"
    /\ repair' = [repair EXCEPT ![t] = FreshRepair(t)]
    /\ overlap' = (overlap \/ \E u \in Threads \ {t} : Loading(u))
    /\ Goto(t, "check")
    /\ UNCHANGED <<files, shared, asked, calls, fixed, answers>>

R(t) == repair[t]
Usable(d) == fd[d] # "closed"
AfterHandle(t) == IF R(t).at = 1 THEN "check" ELSE "close"

HandleIsUsable(t) ==
    /\ At(t, "check") /\ Usable(R(t).at)
    /\ repair' = [repair EXCEPT ![t].at = 2]
    /\ Goto(t, AfterHandle(t))
    /\ UNCHANGED <<files, shared, asked, calls, fixed, overlap, answers>>

HandleIsUnusable(t) ==
    /\ At(t, "check") /\ ~Usable(R(t).at)
    /\ Goto(t, IF R(t).devnull < 0 THEN "open" ELSE "dup")
    /\ UNCHANGED <<files, shared, locals, calls, fixed, overlap, answers>>

LowestClosed(table) == CHOOSE d \in Descriptors :
    table[d] = "closed" /\ \A e \in Descriptors : table[e] = "closed" => d <= e

\* os.open takes the lowest free descriptor, perhaps the handle itself.
OpenNull(t) ==
    LET d == LowestClosed(fd) IN
    /\ At(t, "open")
    /\ fd' = [fd EXCEPT ![d] = "null"]
    /\ repair' = [repair EXCEPT ![t].devnull = d]
    /\ Goto(t, "dup")
    /\ UNCHANGED <<go, shared, asked, calls, fixed, overlap, answers>>

\* os.dup2 unless they are the same.
Dup(t) ==
    /\ At(t, "dup")
    /\ fd' = [fd EXCEPT ![R(t).at] = fd[R(t).devnull]]
    /\ repair' = [repair EXCEPT ![t].at = 2, ![t].replaced = @ \cup {R(t).at}]
    /\ Goto(t, AfterHandle(t))
    /\ UNCHANGED <<go, shared, asked, calls, fixed, overlap, answers>>

AnyRedundant(t) == R(t).devnull >= 0
NeverRedundant(t) == FALSE
Redundant(t) == R(t).devnull >= 0 /\ R(t).devnull \notin R(t).replaced

CloseRedundant(t) ==
    /\ At(t, "close")
    /\ fd' = IF Redundant(t) THEN [fd EXCEPT ![R(t).devnull] = "closed"] ELSE fd
    /\ Goto(t, "dlopen")
    /\ UNCHANGED <<go, shared, locals, calls, fixed, overlap, answers>>

DlopenFails(t) ==
    At(t, "dlopen") /\ library = "broken" /\ Raise(t) /\ UNCHANGED files

\* The first dlopen initialises the packages of the library, and go-re2 keeps
\* what os.Stdout and os.Stderr are then: the host's handles.
PackageInit(t) ==
    /\ At(t, "dlopen") /\ library = "good" /\ go = {}
    /\ go' = Handles
    /\ Goto(t, "init")
    /\ UNCHANGED <<fd, shared, locals, calls, fixed, overlap, answers>>

\* The init of cbind, last: unless the environment asks for the host's handles,
\* os.Stdout and os.Stderr become the null device, opened twice.
SanitizeStdio(t) ==
    LET out == LowestClosed(fd)
        err == LowestClosed([fd EXCEPT ![out] = "go"]) IN
    /\ At(t, "init")
    /\ IF keepStdio
       THEN UNCHANGED files
       ELSE go' = go \cup {out, err} /\ fd' = [fd EXCEPT ![out] = "go", ![err] = "go"]
    /\ Goto(t, "bind")
    /\ UNCHANGED <<shared, locals, calls, fixed, overlap, answers>>

\* A later dlopen initialises nothing; it waits for the first to be done.
DlopenAgain(t) ==
    /\ At(t, "dlopen") /\ library = "good" /\ go # {} /\ \A u \in Threads : ~At(u, "init")
    /\ Goto(t, "bind")
    /\ UNCHANGED <<files, shared, locals, calls, fixed, overlap, answers>>

Bind(t) ==
    /\ At(t, "bind")
    /\ dll' = TRUE /\ Goto(t, "use")
    /\ UNCHANGED <<files, cache, lock, built, locals, calls, fixed, overlap, answers>>

-----------------------------------------------------------------------------
Load(t) ==
    \/ AlreadyLoaded(t) \/ LibraryMissing(t) \/ BeginLoad(t)
    \/ HandleIsUsable(t) \/ HandleIsUnusable(t) \/ OpenNull(t) \/ Dup(t)
    \/ CloseRedundant(t) \/ DlopenFails(t)
    \/ PackageInit(t) \/ SanitizeStdio(t) \/ DlopenAgain(t) \/ Bind(t)

Continue(t) ==
    \/ CacheHit(t) \/ CacheMiss(t) \/ TakeLock(t) \/ HitUnderLock(t) \/ ConstructUnderLock(t)
    \/ ConstructionRaises(t) \/ Store(t) \/ DirectUseReturns(t) \/ Load(t)

Next == \E t \in Threads :
    Continue(t) \/ UseDirectly(t) \/ \E r \in Requests : GetScanner(t, r)

\* The operating system runs a thread that is inside a call; the lock of the
\* cache need not be granted in order.
Fairness == \A t \in Threads : WF_vars(Continue(t))

Spec == Init /\ [][Next]_vars /\ Fairness

-----------------------------------------------------------------------------
PCs == {"idle", "read", "lock", "locked", "attr", "use", "check", "open", "dup", "close",
        "dlopen", "init", "bind"}

\* Type invariant of the cache, the library and the descriptors; a descriptor
\* that is about to be copied is open.
TypeOK ==
    /\ fd \in [Descriptors -> {"closed", "host", "null", "go"}]
    /\ go \subseteq Descriptors /\ dll \in BOOLEAN /\ overlap \in BOOLEAN
    /\ cache \in [Keys -> 0 .. Len(built)] /\ Len(built) \in 0 .. MaxCalls /\ calls \in 0 .. MaxCalls
    /\ lock \in Threads \cup {Nobody}
    /\ pc \in [Threads -> PCs] /\ asked \in [Threads -> Requests \cup {Nobody}]
    /\ repair \in [Threads -> [at : Handles, devnull : -1 .. MaxFd, replaced : SUBSET Handles]]
    /\ answers \subseteq Requests \X (1 .. Len(built))
    /\ \A t \in Threads : pc[t] = "dup" => Usable(R(t).devnull)

\* "Identical configurations share one instance": whatever threads ask at once,
\* while the library loads, and after constructions that raised, all calls with
\* the same arguments, a list or a tuple alike, get the same scanner, no other call
\* gets it, it has exactly the configuration asked for, and no scanner is
\* constructed to be thrown away.  (A falsy argument that configures nothing still
\* makes a key of its own.)
OneScannerPerConfiguration ==
    /\ \A a, b \in answers : (KeyOf(a[1]) = KeyOf(b[1])) = (a[2] = b[2])
    /\ \A a \in answers : built[a[2]] = ConfigOf(a[1])
    /\ Len(built) = Cardinality({k \in Keys : cache[k] # 0})

BothWereUnusable == initial[1] = "closed" /\ initial[2] = "closed"

\* From the moment Go's packages are initialised the descriptors the Go side has
\* bound are open and stay so ("closing the descriptor later just moves the crash
\* to the first scan"): the host's handles, repaired or not, and its own null
\* device.  The one exception is stderr, where both handles were unusable and two
\* first uses without a common lock repaired them at once.
GoHandlesStayOpen ==
    \A d \in go : Usable(d) \/ (d = 2 /\ overlap /\ BothWereUnusable)

\* "Working streams are left alone": a descriptor the host had open is never
\* replaced or closed, and once no thread is loading, nothing is left open but
\* the standard handles that were repaired and what the Go side has opened.
HostFilesUntouched ==
    /\ \A d \in Descriptors : initial[d] = "host" => fd[d] = "host"
    /\ (\A t \in Threads : ~Loading(t)) =>
          \A d \in Descriptors \ Handles : fd[d] # initial[d] => fd[d] = "go"

\* Every call comes back, with a scanner or an exception: a construction that
\* raises under the lock of the cache leaves it for the next thread.
EveryCallReturns == \A t \in Threads : <>[](pc[t] = "idle")
=============================================================================

---------------------------- MODULE NativeBridge ----------------------------
(***************************************************************************)
(* The boundary between Python and Go: Scanner objects                     *)
(* (src/litellm_trufflehog/scanner.py), the ctypes helpers (_lib.py) and   *)
(* the exported functions with their registry of handles, the one slot for *)
(* the last error and the C strings they return (go/cbind/export.go).      *)
(*                                                                         *)
(* ctypes drops the GIL during a native call, so threads interleave at     *)
(* every lock of the library; each step below is one critical section or   *)
(* one atomic access.  A string's content is whose report or whose failure *)
(* it tells.                                                               *)
(***************************************************************************)
EXTENDS Integers, FiniteSets

CONSTANTS Objects,   \* Python Scanner objects that may be constructed
          Threads,   \* threads that share them
          Addresses, \* where C.CString may put a string
          Nobody,    \* no thread, no object, no string
          MaxCalls   \* bound: calls into the Scanner class, over all threads

\* What matters of a text: it is empty, or the scan of it panics, or neither.
Texts == {"empty", "plain", "breaks"}

\* A thread holds at most one string at a time, so malloc never runs dry.
ASSUME SizesAssumption ==
    /\ MaxCalls \in Nat /\ IsFiniteSet(Objects) /\ IsFiniteSet(Threads)
    /\ IsFiniteSet(Addresses) /\ Cardinality(Addresses) >= Cardinality(Threads)
ASSUME NobodyAssumption ==
    /\ Nobody \notin Objects \cup Threads \cup Addresses
    /\ Nobody \notin [obj : Objects, text : Texts, open : BOOLEAN]

VARIABLES registry,   \* handle -> the object whose native scanner it is
          nextHandle, \* the handles given out so far
          lastErr,    \* whose failure lastErr describes, or Nobody ("")
          heap,       \* address -> content, for the C strings not yet freed
          made,       \* made[o]: "absent", "making", "made" or "failed"
          handle,     \* handle[o]: _handle, or what th_new is about to return
          closed,     \* closed[o]: _closed
          lock,       \* lock[o]: the thread that holds _lock, or Nobody
          pc,         \* where each thread is
          call,       \* the object and the text of the call it is in
          native,     \* the Go scanner th_scan looked up
          ptr,        \* the char* a thread holds
          value,      \* the string take decoded
          answer,     \* what the last scan came to
          calls       \* calls begun

goVars == <<registry, nextHandle, lastErr>>
objVars == <<made, handle, closed, lock>>
callVars == <<call, native, ptr, value, answer, calls>>
vars == <<goVars, heap, objVars, pc, callVars>>

Content == [kind : {"report"}, of : Objects] \cup [kind : {"message"}, of : Threads \cup {Nobody}]
NoCall == [obj |-> Nobody, text |-> "plain", open |-> FALSE]
Call == [obj : Objects, text : Texts, open : BOOLEAN] \cup {NoCall}
Without(f, x) == [y \in DOMAIN f \ {x} |-> f[y]]
With(f, x, v) == [y \in DOMAIN f \cup {x} |-> IF y = x THEN v ELSE f[y]]
EmptyMap == [x \in {} |-> Nobody]

Init ==
    /\ registry = EmptyMap /\ nextHandle = 0 /\ lastErr = Nobody /\ heap = EmptyMap
    /\ made = [o \in Objects |-> "absent"] /\ handle = [o \in Objects |-> 0]
    /\ closed = [o \in Objects |-> FALSE] /\ lock = [o \in Objects |-> Nobody]
    /\ pc = [t \in Threads |-> "idle"] /\ call = [t \in Threads |-> NoCall]
    /\ native = [t \in Threads |-> Nobody] /\ ptr = [t \in Threads |-> Nobody]
    /\ value = [t \in Threads |-> Nobody] /\ answer = [t \in Threads |-> Nobody]
    /\ calls = 0

At(t, from) == pc[t] = from
Goto(t, to) == pc' = [pc EXCEPT ![t] = to]
Obj(t) == call[t].obj

\* A thread calls a method of o with some text.
Begin(t, o, text, entry) ==
    /\ At(t, "idle") /\ calls < MaxCalls
    /\ calls' = calls + 1
    /\ call' = [call EXCEPT ![t] = [obj |-> o, text |-> text, open |-> ~closed[o]]]
    /\ Goto(t, entry)

\* setLastError(err) in a call of t: its failure, or Nobody for nil.
SetLastError(who) == lastErr' = who

-----------------------------------------------------------------------------
(* Scanner.__init__ and th_new.                                            *)

BeginNew(t, o) ==
    /\ made[o] = "absent" /\ Begin(t, o, "plain", "new")
    /\ made' = [made EXCEPT ![o] = "making"]
    /\ UNCHANGED <<goVars, heap, handle, closed, lock, native, ptr, value, answer>>

NewClearsError(t) ==
    /\ At(t, "new") /\ SetLastError(Nobody) /\ Goto(t, "build")
    /\ UNCHANGED <<registry, nextHandle, heap, objVars, callVars>>

\* What th_new returns when ParseConfig or New fails, and when its deferred
\* function recovered a panic: the result is unnamed, so it is the zero value.
ErrConfig == -2
ZeroValue == 0

\* The configuration is rejected, or New panicked and the recover ran.
BuildFails(t) ==
    /\ At(t, "build") /\ SetLastError(t) /\ Goto(t, "made")
    /\ \E ret \in {ErrConfig, ZeroValue} : handle' = [handle EXCEPT ![Obj(t)] = ret]
    /\ UNCHANGED <<registry, nextHandle, heap, made, closed, lock, callVars>>

SmallestFreeHandle ==
    CHOOSE h \in 1 .. nextHandle + 1 :
        /\ h \notin DOMAIN registry
        /\ \A k \in 1 .. h - 1 : k \in DOMAIN registry
HandleBeforeIncrement == nextHandle
FreshHandle == nextHandle + 1

Build(t) ==
    /\ At(t, "build") /\ Goto(t, "register")
    /\ nextHandle' = nextHandle + 1
    /\ handle' = [handle EXCEPT ![Obj(t)] = FreshHandle]
    /\ UNCHANGED <<registry, lastErr, heap, made, closed, lock, callVars>>

Register(t) ==
    /\ At(t, "register") /\ Goto(t, "made")
    /\ registry' = With(registry, handle[Obj(t)], Obj(t))
    /\ UNCHANGED <<nextHandle, lastErr, heap, objVars, callVars>>

\* if handle < 0: raise TrufflehogError(last_error()).
NewReturns(t) ==
    /\ At(t, "made") /\ handle[Obj(t)] >= 0 /\ Goto(t, "idle")
    /\ made' = [made EXCEPT ![Obj(t)] = "made"]
    /\ UNCHANGED <<goVars, heap, handle, closed, lock, callVars>>

NewRaises(t) ==
    /\ At(t, "made") /\ handle[Obj(t)] < 0 /\ Goto(t, "null")
    /\ made' = [made EXCEPT ![Obj(t)] = "failed"]
    /\ UNCHANGED <<goVars, heap, handle, closed, lock, callVars>>

-----------------------------------------------------------------------------
(* Scanner.scan and th_scan, detector_count and th_detector_count.         *)

BeginScan(t, o) ==
    /\ made[o] = "made"
    /\ \E text \in Texts : Begin(t, o, text, "scan")
    /\ answer' = [answer EXCEPT ![t] = Nobody]
    /\ UNCHANGED <<goVars, heap, objVars, native, ptr, value>>

Answer(t, a) == answer' = [answer EXCEPT ![t] = a]

\* _ensure_open: reads _closed without the lock.
EnsureOpenRaises(t) ==
    /\ At(t, "scan") /\ closed[Obj(t)]
    /\ Answer(t, "raised") /\ Goto(t, "idle")
    /\ UNCHANGED <<goVars, heap, objVars, call, native, ptr, value, calls>>

\* Without a byte to scan the native half is not asked: a report of nothing.
EmptyText(t) ==
    /\ At(t, "scan") /\ ~closed[Obj(t)] /\ call[t].text = "empty"
    /\ Answer(t, Obj(t)) /\ Goto(t, "idle")
    /\ UNCHANGED <<goVars, heap, objVars, call, native, ptr, value, calls>>

EnsureOpen(t) ==
    /\ At(t, "scan") /\ ~closed[Obj(t)] /\ call[t].text # "empty" /\ Goto(t, "enter")
    /\ UNCHANGED <<goVars, heap, objVars, callVars>>

ScanClearsError(t) ==
    /\ At(t, "enter") /\ SetLastError(Nobody) /\ Goto(t, "lookup")
    /\ UNCHANGED <<registry, nextHandle, heap, objVars, callVars>>

Known(t) == handle[Obj(t)] \in DOMAIN registry

Lookup(t) ==
    /\ At(t, "lookup") /\ Known(t) /\ Goto(t, "scanning")
    /\ native' = [native EXCEPT ![t] = registry[handle[Obj(t)]]]
    /\ UNCHANGED <<goVars, heap, objVars, call, ptr, value, answer, calls>>

LookupFails(t) ==
    /\ At(t, "lookup") /\ ~Known(t) /\ Goto(t, "unknown")
    /\ UNCHANGED <<goVars, heap, objVars, callVars>>

\* setLastError and return NULL: an unknown handle, or a recovered panic.
ReturnNull(t) ==
    /\ At(t, "unknown") \/ (At(t, "scanning") /\ call[t].text = "breaks")
    /\ SetLastError(t) /\ Goto(t, "null")
    /\ UNCHANGED <<registry, nextHandle, heap, objVars, callVars>>

\* cString: a fresh allocation, which may be one freed before.
NewString(t, content) ==
    \E a \in Addresses \ DOMAIN heap :
        /\ heap' = With(heap, a, content)
        /\ ptr' = [ptr EXCEPT ![t] = a]
        /\ Goto(t, "take")

ReturnReport(t) ==
    /\ At(t, "scanning") /\ call[t].text # "breaks"
    /\ NewString(t, [kind |-> "report", of |-> native[t]])
    /\ UNCHANGED <<goVars, objVars, call, native, value, answer, calls>>

\* check saw NULL, or __init__ a sentinel: last_error() copies lastErr.
LastError(t) ==
    /\ At(t, "null")
    /\ NewString(t, [kind |-> "message", of |-> lastErr])
    /\ UNCHANGED <<goVars, objVars, call, native, value, answer, calls>>

FreedBeforeDecoding(t) == Without(heap, ptr[t])
HeapWhileDecoding(t) == heap

TakeDecodes(t) ==
    /\ At(t, "take") /\ Goto(t, "free")
    /\ value' = [value EXCEPT ![t] = heap[ptr[t]]]
    /\ heap' = HeapWhileDecoding(t)
    /\ UNCHANGED <<goVars, objVars, call, native, ptr, answer, calls>>

Freed(t) == Without(heap, ptr[t])

\* take's finally, and the end of the call: a report, or an exception.
TakeFrees(t) ==
    /\ At(t, "free") /\ Goto(t, "idle")
    /\ heap' = Freed(t)
    /\ ptr' = [ptr EXCEPT ![t] = Nobody]
    /\ IF made[Obj(t)] = "failed"
       THEN UNCHANGED answer
       ELSE Answer(t, IF value[t].kind = "report" THEN value[t].of ELSE "raised")
    /\ UNCHANGED <<goVars, objVars, call, native, value, calls>>

\* detector_count: an unknown handle comes back as -1, with lastErr set.
BeginCount(t, o) ==
    /\ made[o] = "made" /\ ~closed[o] /\ Begin(t, o, "plain", "count")
    /\ UNCHANGED <<goVars, heap, objVars, native, ptr, value, answer>>

Count(t) ==
    /\ At(t, "count") /\ Goto(t, "idle")
    /\ SetLastError(IF Known(t) THEN lastErr ELSE t)
    /\ UNCHANGED <<registry, nextHandle, heap, objVars, callVars>>

-----------------------------------------------------------------------------
(* Scanner.close and th_close.                                             *)

BeginClose(t, o) ==
    /\ made[o] = "made" /\ Begin(t, o, "plain", "close")
    /\ UNCHANGED <<goVars, heap, objVars, native, ptr, value, answer>>

CloseLocks(t) ==
    /\ At(t, "close") /\ lock[Obj(t)] = Nobody /\ Goto(t, "locked")
    /\ lock' = [lock EXCEPT ![Obj(t)] = t]
    /\ UNCHANGED <<goVars, heap, made, handle, closed, callVars>>

LockKept(t) == lock
LockReleased(t) == [lock EXCEPT ![Obj(t)] = Nobody]

CloseAgain(t) ==
    /\ At(t, "locked") /\ closed[Obj(t)] /\ Goto(t, "idle")
    /\ lock' = LockReleased(t)
    /\ UNCHANGED <<goVars, heap, made, handle, closed, callVars>>

CloseFirst(t) ==
    /\ At(t, "locked") /\ ~closed[Obj(t)] /\ Goto(t, "closing")
    /\ closed' = [closed EXCEPT ![Obj(t)] = TRUE]
    /\ UNCHANGED <<goVars, heap, made, handle, lock, callVars>>

KeepRegistered(h) == registry
Unregistered(h) == Without(registry, h)

\* th_close deletes the handle if it is there; the `with` block ends.
CloseNative(t) ==
    /\ At(t, "closing") /\ Goto(t, "idle")
    /\ registry' = Unregistered(handle[Obj(t)])
    /\ lock' = [lock EXCEPT ![Obj(t)] = Nobody]
    /\ UNCHANGED <<nextHandle, lastErr, heap, made, handle, closed, callVars>>

-----------------------------------------------------------------------------
Continue(t) ==
    \/ NewClearsError(t) \/ BuildFails(t) \/ Build(t) \/ Register(t)
    \/ NewReturns(t) \/ NewRaises(t)
    \/ EnsureOpenRaises(t) \/ EmptyText(t) \/ EnsureOpen(t) \/ ScanClearsError(t)
    \/ Lookup(t) \/ LookupFails(t) \/ ReturnNull(t) \/ ReturnReport(t) \/ LastError(t)
    \/ TakeDecodes(t) \/ TakeFrees(t) \/ Count(t)
    \/ CloseLocks(t) \/ CloseAgain(t) \/ CloseFirst(t) \/ CloseNative(t)

Next ==
    \E t \in Threads :
        \/ Continue(t)
        \/ \E o \in Objects :
              BeginNew(t, o) \/ BeginScan(t, o) \/ BeginCount(t, o) \/ BeginClose(t, o)

\* The operating system runs every thread that is not blocked; whether a thread
\* begins another call is its own choice.  Lock need not be granted in order.
Fairness == \A t \in Threads : WF_vars(Continue(t))

Spec == Init /\ [][Next]_vars /\ Fairness

-----------------------------------------------------------------------------
PCs == {"idle", "new", "build", "register", "made", "scan", "enter", "lookup", "scanning",
        "unknown", "null", "take", "free", "count", "close", "locked", "closing"}

\* Type invariant of the library, its objects and the threads that call it.
TypeOK ==
    /\ DOMAIN registry \subseteq 1 .. nextHandle
    /\ \A h \in DOMAIN registry : registry[h] \in Objects
    /\ nextHandle \in Nat /\ lastErr \in Threads \cup {Nobody}
    /\ DOMAIN heap \subseteq Addresses /\ \A a \in DOMAIN heap : heap[a] \in Content
    /\ made \in [Objects -> {"absent", "making", "made", "failed"}]
    /\ handle \in [Objects -> Int] /\ closed \in [Objects -> BOOLEAN]
    /\ lock \in [Objects -> Threads \cup {Nobody}]
    /\ pc \in [Threads -> PCs] /\ call \in [Threads -> Call]
    /\ native \in [Threads -> Objects \cup {Nobody}]
    /\ ptr \in [Threads -> Addresses \cup {Nobody}]
    /\ value \in [Threads -> Content \cup {Nobody}]
    /\ answer \in [Threads -> Objects \cup {"raised", Nobody}]
    /\ calls \in 0 .. MaxCalls

Holders(a) == {t \in Threads : ptr[t] = a /\ pc[t] \in {"take", "free"}}

\* Every char* the library returns is freed exactly once, whatever the other
\* threads allocate and free meanwhile: a string not yet freed has exactly one
\* thread that still has to free it, and a thread never decodes or frees an
\* address that is no longer allocated.
StringsFreedOnce ==
    /\ \A a \in DOMAIN heap : Cardinality(Holders(a)) = 1
    /\ \A t \in Threads : pc[t] \in {"take", "free"} => ptr[t] \in DOMAIN heap

Constructing(o) == made[o] = "making"
Closing(o) == lock[o] # Nobody /\ pc[lock[o]] = "closing"

\* No native scanner outlives its object and none is lost: what is registered
\* belongs to an object that is being made, is open, or is in the middle of its
\* first close, and an open object with a handle finds its own scanner.
RegistryMatchesObjects ==
    /\ \A h \in DOMAIN registry :
          LET o == registry[h] IN
          /\ handle[o] = h
          /\ Constructing(o) \/ ~closed[o] \/ Closing(o)
    /\ \A o \in Objects : made[o] = "made" /\ ~closed[o] /\ handle[o] > 0 =>
          handle[o] \in DOMAIN registry /\ registry[handle[o]] = o

InScan(t) ==
    /\ pc[t] \in {"scan", "enter", "lookup", "scanning", "unknown", "null", "take", "free"}
    /\ made[Obj(t)] = "made"

Status(o) ==
    CASE made[o] # "made" -> "absent"
      [] made[o] = "made" /\ closed[o] -> "closed"
      [] made[o] = "made" /\ ~closed[o] /\ handle[o] = 0 -> "dead"
      [] OTHER -> "open"
ScanOf(t) == IF InScan(t) THEN call[t] ELSE Nobody

Service == INSTANCE ScannerService WITH
    status <- [o \in Objects |-> Status(o)],
    scan <- [t \in Threads |-> ScanOf(t)]

\* The bridge implements the service: with scans, closes and constructions of
\* several threads interleaved at every lock of the library, a scan answers
\* with its own scanner's report and never with that of a scanner that got the
\* handle later, and it raises only for a reason its caller can know.
ImplementsService == Service!Spec

\* Every call comes back: no close waits forever for another, and no thread
\* waits for a string or a handle.
EveryCallReturns == \A t \in Threads : []<>(pc[t] = "idle")

\* What the conventions of export.go say of NULL, "call th_last_error for the
\* message", for the scanner that is documented as thread-safe: the message a
\* failed call raises with is that of its own failure.
MessageIsOwn ==
    \A t \in Threads : pc[t] = "free" /\ value[t].kind = "message" => value[t].of = t
=============================================================================

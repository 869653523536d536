------------------------ MODULE NativeBridge_proofs ------------------------
(***************************************************************************)
(* Proofs about NativeBridge, for any number of threads, Scanner objects,  *)
(* addresses and calls: the registry matches the objects, every string is  *)
(* freed once, and the bridge implements ScannerService.                   *)
(***************************************************************************)
EXTENDS NativeBridge, FiniteSetTheorems, TLAPS

Building == {"new", "build", "register", "made"}
Fetching == {"null", "take", "free"}
InClose == {"locked", "closing"}
HasString(t) == pc[t] \in {"take", "free"}

\* A thread inside a call has an object in the state the call needs, and no
\* two threads construct the same object.
CallInv ==
    /\ \A t \in Threads : pc[t] # "idle" =>
          /\ Obj(t) \in Objects
          /\ pc[t] \in Building => made[Obj(t)] = "making"
          /\ pc[t] \notin Building =>
                made[Obj(t)] = "made" \/ (made[Obj(t)] = "failed" /\ pc[t] \in Fetching)
    /\ \A t, u \in Threads :
          pc[t] \in Building /\ pc[u] \in Building /\ Obj(t) = Obj(u) => t = u

\* The lock of an object belongs to the thread inside its close.
LockInv ==
    /\ \A t \in Threads : pc[t] \in InClose => lock[Obj(t)] = t
    /\ \A t \in Threads : pc[t] = "closing" => closed[Obj(t)]
    /\ \A o \in Objects : lock[o] # Nobody => pc[lock[o]] \in InClose /\ Obj(lock[o]) = o

Registered(o) == handle[o] \in DOMAIN registry /\ registry[handle[o]] = o

\* Handles are never shared and never given out again, and tell how far the
\* construction of their object has come.
HandleInv ==
    /\ \A o \in Objects :
          /\ handle[o] <= nextHandle
          /\ closed[o] => made[o] = "made"
          /\ made[o] = "absent" => handle[o] = 0
          /\ made[o] = "made" => handle[o] >= 0
          /\ made[o] = "made" /\ ~closed[o] /\ handle[o] > 0 => Registered(o)
    /\ \A o, p \in Objects : handle[o] > 0 /\ handle[o] = handle[p] => o = p
    /\ \A t \in Threads :
          /\ pc[t] \in {"new", "build"} => handle[Obj(t)] = 0
          /\ pc[t] = "register" => handle[Obj(t)] > 0
          /\ pc[t] = "made" /\ handle[Obj(t)] > 0 => Registered(Obj(t))

RegistryInv ==
    \A h \in DOMAIN registry :
        /\ handle[registry[h]] = h
        /\ made[registry[h]] \in {"making", "made"}
        /\ closed[registry[h]] => Closing(registry[h])

\* Each allocated string has one thread that will free it.
StringInv ==
    /\ \A a \in DOMAIN heap : \E t \in Threads : HasString(t) /\ ptr[t] = a
    /\ \A t \in Threads : HasString(t) => ptr[t] \in DOMAIN heap
    /\ \A t \in Threads : pc[t] = "free" => value[t] \in Content
    /\ \A t, u \in Threads : HasString(t) /\ HasString(u) /\ ptr[t] = ptr[u] => t = u

\* What a scan may come to: a report of its own scanner, or a failure that its
\* caller can account for.
MayRaise(t) == call[t].text = "breaks" \/ closed[Obj(t)] \/ handle[Obj(t)] = 0
MayReport(t) == call[t].open /\ call[t].text # "breaks" /\ handle[Obj(t)] > 0
Justified(t, s) ==
    IF s.kind = "report" THEN s.of = Obj(t) /\ MayReport(t) ELSE MayRaise(t)

ScanInv ==
    \A t \in Threads : InScan(t) =>
        /\ IF pc[t] = "scan" THEN call[t].open \/ closed[Obj(t)] ELSE call[t].open
        /\ pc[t] # "scan" => call[t].text # "empty"
        /\ pc[t] = "scanning" => native[t] = Obj(t) /\ handle[Obj(t)] > 0
        /\ pc[t] \in {"unknown", "null"} => MayRaise(t)
        /\ pc[t] = "take" => Justified(t, heap[ptr[t]])
        /\ pc[t] = "free" => Justified(t, value[t])

IInv ==
    TypeOK /\ CallInv /\ LockInv /\ HandleInv /\ RegistryInv /\ StringInv /\ ScanInv

-----------------------------------------------------------------------------
(* Facts about maps and steps.                                             *)

\* The contents of strings are well-typed records.
LEMMA ContentFacts ==
  /\ \A o \in Objects : [kind |-> "report", of |-> o] \in Content
  /\ \A t \in Threads \cup {Nobody} : [kind |-> "message", of |-> t] \in Content
  /\ \A s \in Content : s.kind = "report" => s.of \in Objects
BY DEF Content

\* A call that begins.
LEMMA CallFacts ==
  /\ NoCall \in Call
  /\ \A o \in Objects, b \in Texts, p \in BOOLEAN : [obj |-> o, text |-> b, open |-> p] \in Call
BY DEF Call

\* A thread begins a call.
LEMMA BeginFacts ==
  ASSUME TypeOK, NEW t \in Threads, NEW o \in Objects, NEW text \in Texts, NEW entry \in PCs,
         Begin(t, o, text, entry)
  PROVE  /\ pc[t] = "idle" /\ pc' = [pc EXCEPT ![t] = entry] /\ pc' \in [Threads -> PCs]
         /\ call' = [call EXCEPT ![t] = [obj |-> o, text |-> text, open |-> ~closed[o]]]
         /\ call' \in [Threads -> Call] /\ calls' \in 0 .. MaxCalls
         /\ call'[t].obj = o /\ call'[t].text = text /\ call'[t].open = (~closed[o])
<1>1. pc[t] = "idle" /\ pc' = [pc EXCEPT ![t] = entry]
  BY DEF Begin, At, Goto
<1>2. call' = [call EXCEPT ![t] = [obj |-> o, text |-> text, open |-> ~closed[o]]]
  BY DEF Begin
<1>3. [obj |-> o, text |-> text, open |-> ~closed[o]] \in Call
  BY CallFacts
<1>4. pc' \in [Threads -> PCs]
  BY <1>1 DEF TypeOK
<1>5. call' \in [Threads -> Call]
  BY <1>2, <1>3 DEF TypeOK
<1>6. calls' \in 0 .. MaxCalls
  BY SizesAssumption DEF Begin, TypeOK
<1>7. call'[t] = [obj |-> o, text |-> text, open |-> ~closed[o]]
  BY <1>2 DEF TypeOK
<1> QED BY <1>1, <1>2, <1>4, <1>5, <1>6, <1>7

\* Thread t puts s at address a.
Allocates(t, a, s) ==
    /\ DOMAIN heap' = DOMAIN heap \cup {a}
    /\ heap'[a] = s /\ \A b \in DOMAIN heap : heap'[b] = heap[b]
    /\ ptr' = [ptr EXCEPT ![t] = a] /\ pc' = [pc EXCEPT ![t] = "take"]

ReturnsReport(t, a) ==
    /\ native[t] = Obj(t) /\ Obj(t) \in Objects
    /\ Allocates(t, a, [kind |-> "report", of |-> Obj(t)])

ReturnsMessage(t, a) ==
    /\ lastErr \in Threads \cup {Nobody}
    /\ Allocates(t, a, [kind |-> "message", of |-> lastErr])

\* A fresh string is at one free address.
LEMMA NewStringFacts ==
  ASSUME NEW t \in Threads, NEW s, NewString(t, s)
  PROVE  \E a \in Addresses \ DOMAIN heap : Allocates(t, a, s)
<1>1. PICK a \in Addresses \ DOMAIN heap :
         /\ heap' = With(heap, a, s)
         /\ ptr' = [ptr EXCEPT ![t] = a] /\ pc' = [pc EXCEPT ![t] = "take"]
  BY DEF NewString, Goto
<1>2. DOMAIN heap' = DOMAIN heap \cup {a} /\ heap'[a] = s
  BY <1>1 DEF With
<1>3. ASSUME NEW b \in DOMAIN heap
      PROVE  heap'[b] = heap[b]
  BY <1>1 DEF With
<1> QED BY <1>1, <1>2, <1>3 DEF Allocates

\* th_scan returns a report of the scanner it was asked for.
LEMMA ReturnReportFacts ==
  ASSUME IInv, NEW t \in Threads, ReturnReport(t)
  PROVE  \E a \in Addresses \ DOMAIN heap : ReturnsReport(t, a)
<1>1. native[t] = Obj(t) /\ Obj(t) \in Objects
  BY DEF IInv, CallInv, ScanInv, InScan, ReturnReport, At, Building, Fetching
<1>2. NewString(t, [kind |-> "report", of |-> Obj(t)])
  BY <1>1 DEF ReturnReport
<1> QED BY <1>1, <1>2, NewStringFacts DEF ReturnsReport

\* th_last_error returns what the slot holds.
LEMMA LastErrorFacts ==
  ASSUME IInv, NEW t \in Threads, LastError(t)
  PROVE  \E a \in Addresses \ DOMAIN heap : ReturnsMessage(t, a)
<1>1. NewString(t, [kind |-> "message", of |-> lastErr])
  BY DEF LastError
<1>2. lastErr \in Threads \cup {Nobody}
  BY DEF IInv, TypeOK
<1> QED BY <1>1, <1>2, NewStringFacts DEF ReturnsMessage

\* take frees the string its thread holds, and no other.
LEMMA TakeFreesFacts ==
  ASSUME IInv, NEW t \in Threads, TakeFrees(t)
  PROVE  /\ DOMAIN heap' = DOMAIN heap \ {ptr[t]}
         /\ \A b \in DOMAIN heap' : heap'[b] = heap[b]
         /\ pc[t] = "free" /\ pc' = [pc EXCEPT ![t] = "idle"]
         /\ ptr' = [ptr EXCEPT ![t] = Nobody]
BY DEF TakeFrees, Freed, Without, At, Goto

-----------------------------------------------------------------------------
(* Type correctness.                                                       *)

\* Nothing is constructed, called or allocated at the start.
LEMMA InitInv == Init => IInv
<1> SUFFICES ASSUME Init PROVE IInv
  OBVIOUS
<1>1. DOMAIN EmptyMap = {}
  BY DEF EmptyMap
<1>2. /\ \A t \in Threads : pc[t] = "idle" /\ call[t] = NoCall
      /\ \A o \in Objects : made[o] = "absent" /\ handle[o] = 0 /\ closed[o] = FALSE
                            /\ lock[o] = Nobody
      /\ DOMAIN registry = {} /\ DOMAIN heap = {} /\ nextHandle = 0
  BY <1>1 DEF Init
<1>3. pc \in [Threads -> PCs] /\ call \in [Threads -> Call]
  BY CallFacts DEF Init, PCs
<1>4. made \in [Objects -> {"absent", "making", "made", "failed"}]
  BY DEF Init
<1>5. TypeOK
  BY <1>2, <1>3, <1>4, SizesAssumption DEF Init, TypeOK
<1>6. CallInv /\ LockInv
  BY <1>2 DEF CallInv, LockInv, Building, InClose
<1>8. StringInv /\ RegistryInv
  BY <1>2 DEF StringInv, RegistryInv, HasString
<1>9. ScanInv
  BY <1>2 DEF ScanInv, InScan
<1>7. HandleInv
  BY <1>2 DEF HandleInv
<1> QED BY <1>5, <1>6, <1>7, <1>8, <1>9 DEF IInv

\* A step inside a call keeps the types.
LEMMA TypeStep ==
  ASSUME IInv, NEW t \in Threads, Continue(t)
  PROVE  TypeOK'
<1>1. CASE NewClearsError(t)
  BY <1>1 DEF IInv, TypeOK, NewClearsError, Goto, SetLastError, PCs, objVars, callVars
<1>2. CASE BuildFails(t)
  BY <1>2 DEF IInv, TypeOK, CallInv, BuildFails, At, Goto, SetLastError, ErrConfig, PCs,
     callVars
<1>3. CASE Build(t)
  BY <1>3 DEF IInv, TypeOK, CallInv, Build, At, Goto, FreshHandle, PCs, callVars
<1>4. CASE Register(t)
  <2>1. handle[Obj(t)] \in 1 .. nextHandle /\ Obj(t) \in Objects
    BY <1>4 DEF IInv, TypeOK, CallInv, HandleInv, Register, At
  <2>2. DOMAIN registry' = DOMAIN registry \cup {handle[Obj(t)]}
    BY <1>4 DEF Register, With
  <2>3. \A h \in DOMAIN registry' : registry'[h] \in Objects
    BY <1>4, <2>1 DEF IInv, TypeOK, Register, With
  <2> QED
    BY <1>4, <2>1, <2>2, <2>3 DEF IInv, TypeOK, Register, Goto, PCs, objVars, callVars
<1>5. CASE NewReturns(t)
  BY <1>5 DEF IInv, TypeOK, NewReturns, Goto, PCs, goVars, callVars
<1>6. CASE NewRaises(t)
  BY <1>6 DEF IInv, TypeOK, NewRaises, Goto, PCs, goVars, callVars
<1>7. CASE EnsureOpenRaises(t)
  BY <1>7 DEF IInv, TypeOK, EnsureOpenRaises, Goto, Answer, PCs, goVars, objVars
<1>8. CASE EnsureOpen(t)
  BY <1>8 DEF IInv, TypeOK, EnsureOpen, Goto, PCs, goVars, objVars, callVars
<1>9. CASE ScanClearsError(t)
  BY <1>9 DEF IInv, TypeOK, ScanClearsError, Goto, SetLastError, PCs, objVars, callVars
<1>10. CASE Lookup(t)
  BY <1>10 DEF IInv, TypeOK, Lookup, Goto, Known, PCs, goVars, objVars
<1>11. CASE LookupFails(t)
  BY <1>11 DEF IInv, TypeOK, LookupFails, Goto, PCs, goVars, objVars, callVars
<1>12. CASE ReturnNull(t)
  BY <1>12 DEF IInv, TypeOK, ReturnNull, Goto, SetLastError, PCs, objVars, callVars
<1>13. CASE ReturnReport(t)
  <2>1. PICK a \in Addresses \ DOMAIN heap : ReturnsReport(t, a)
    BY <1>13, ReturnReportFacts
  <2> QED
    BY <1>13, <2>1, ContentFacts DEF IInv, TypeOK, ReturnsReport, Allocates, ReturnReport,
       PCs, goVars, objVars
<1>14. CASE LastError(t)
  <2>1. PICK a \in Addresses \ DOMAIN heap : ReturnsMessage(t, a)
    BY <1>14, LastErrorFacts
  <2> QED
    BY <1>14, <2>1, ContentFacts DEF IInv, TypeOK, ReturnsMessage, Allocates, LastError,
       PCs, goVars, objVars
<1>15. CASE TakeDecodes(t)
  <2>1. heap[ptr[t]] \in Content
    BY <1>15 DEF IInv, TypeOK, StringInv, HasString, TakeDecodes, At
  <2>2. value' \in [Threads -> Content \cup {Nobody}]
    BY <1>15, <2>1 DEF IInv, TypeOK, TakeDecodes
  <2> QED
    BY <1>15, <2>2 DEF IInv, TypeOK, TakeDecodes, HeapWhileDecoding, Goto, PCs, goVars,
       objVars
<1>16. CASE TakeFrees(t)
  <2>1. DOMAIN heap' \subseteq Addresses /\ \A a \in DOMAIN heap' : heap'[a] \in Content
    BY <1>16 DEF IInv, TypeOK, TakeFrees, Freed, Without
  <2>2. made[Obj(t)] # "failed" => value[t] \in Content
    BY <1>16 DEF IInv, StringInv, TakeFrees, At
  <2>3. answer' \in [Threads -> Objects \cup {"raised", Nobody}]
    BY <1>16, <2>2, ContentFacts DEF IInv, TypeOK, TakeFrees, Answer
  <2> QED
    BY <1>16, <2>1, <2>3 DEF IInv, TypeOK, TakeFrees, Goto, PCs, goVars, objVars
<1>17. CASE Count(t)
  BY <1>17 DEF IInv, TypeOK, Count, Goto, SetLastError, PCs, objVars, callVars
<1>18. CASE CloseLocks(t)
  BY <1>18 DEF IInv, TypeOK, CloseLocks, Goto, PCs, goVars, callVars
<1>19. CASE CloseAgain(t)
  BY <1>19 DEF IInv, TypeOK, CloseAgain, Goto, LockReleased, PCs, goVars, callVars
<1>20. CASE CloseFirst(t)
  BY <1>20 DEF IInv, TypeOK, CloseFirst, Goto, PCs, goVars, callVars
<1>21. CASE CloseNative(t)
  BY <1>21 DEF IInv, TypeOK, CloseNative, Goto, Unregistered, Without, PCs, callVars
<1>22. CASE EmptyText(t)
  <2>1. Obj(t) \in Objects
    BY <1>22 DEF IInv, CallInv, EmptyText, At
  <2> QED BY <1>22, <2>1 DEF IInv, TypeOK, EmptyText, Goto, Answer, PCs, goVars, objVars
<1> QED BY <1>1, <1>2, <1>3, <1>4, <1>5, <1>6, <1>7, <1>8, <1>9, <1>10, <1>11, <1>12, <1>13,
   <1>14, <1>15, <1>16, <1>17, <1>18, <1>19, <1>20, <1>21, <1>22 DEF Continue

\* A step inside a call keeps calls and objects in accord.
LEMMA CallStep ==
  ASSUME IInv, NEW t \in Threads, Continue(t)
  PROVE  CallInv'
<1>1. CASE NewClearsError(t)
  BY <1>1 DEF IInv, CallInv, Building, NewClearsError, At, Goto, Obj, objVars, callVars
<1>2. CASE BuildFails(t)
  BY <1>2 DEF IInv, CallInv, Building, BuildFails, At, Goto, Obj, callVars
<1>3. CASE Build(t)
  BY <1>3 DEF IInv, CallInv, Building, Build, At, Goto, Obj, callVars
<1>4. CASE Register(t)
  BY <1>4 DEF IInv, CallInv, Building, Register, At, Goto, Obj, objVars, callVars
<1>5. CASE NewReturns(t)
  BY <1>5 DEF IInv, TypeOK, CallInv, Building, NewReturns, At, Goto, Obj, callVars
<1>6. CASE NewRaises(t)
  BY <1>6 DEF IInv, TypeOK, CallInv, Building, Fetching, NewRaises, At, Goto, Obj, callVars
<1>7. CASE EnsureOpenRaises(t)
  BY <1>7 DEF IInv, CallInv, Building, EnsureOpenRaises, Goto, Obj, objVars
<1>8. CASE EnsureOpen(t)
  BY <1>8 DEF IInv, CallInv, Building, Fetching, EnsureOpen, At, Goto, Obj, objVars,
     callVars
<1>9. CASE ScanClearsError(t)
  BY <1>9 DEF IInv, CallInv, Building, Fetching, ScanClearsError, At, Goto, Obj, objVars,
     callVars
<1>10. CASE Lookup(t)
  BY <1>10 DEF IInv, CallInv, Building, Fetching, Lookup, At, Goto, Obj, objVars
<1>11. CASE LookupFails(t)
  BY <1>11 DEF IInv, CallInv, Building, Fetching, LookupFails, At, Goto, Obj, objVars,
     callVars
<1>12. CASE ReturnNull(t)
  BY <1>12 DEF IInv, CallInv, Building, Fetching, ReturnNull, At, Goto, Obj, objVars,
     callVars
<1>13. CASE ReturnReport(t)
  BY <1>13 DEF IInv, CallInv, Building, Fetching, ReturnReport, At, Goto, Obj, NewString,
     objVars
<1>14. CASE LastError(t)
  BY <1>14 DEF IInv, CallInv, Building, Fetching, LastError, At, Goto, Obj, NewString,
     objVars
<1>15. CASE TakeDecodes(t)
  BY <1>15 DEF IInv, CallInv, Building, Fetching, TakeDecodes, At, Goto, Obj, objVars
<1>16. CASE TakeFrees(t)
  BY <1>16 DEF IInv, CallInv, Building, TakeFrees, Goto, Obj, objVars
<1>17. CASE Count(t)
  BY <1>17 DEF IInv, CallInv, Building, Count, Goto, Obj, objVars, callVars
<1>18. CASE CloseLocks(t)
  BY <1>18 DEF IInv, CallInv, Building, Fetching, CloseLocks, At, Goto, Obj, callVars
<1>19. CASE CloseAgain(t)
  BY <1>19 DEF IInv, CallInv, Building, CloseAgain, Goto, Obj, callVars
<1>20. CASE CloseFirst(t)
  BY <1>20 DEF IInv, CallInv, Building, Fetching, CloseFirst, At, Goto, Obj, callVars
<1>21. CASE CloseNative(t)
  BY <1>21 DEF IInv, CallInv, Building, CloseNative, Goto, Obj, callVars
<1>22. CASE EmptyText(t)
  BY <1>22 DEF IInv, CallInv, Building, EmptyText, Goto, Obj, objVars
<1> QED BY <1>1, <1>2, <1>3, <1>4, <1>5, <1>6, <1>7, <1>8, <1>9, <1>10, <1>11, <1>12, <1>13,
   <1>14, <1>15, <1>16, <1>17, <1>18, <1>19, <1>20, <1>21, <1>22 DEF Continue

\* A step inside a call keeps the locks with the threads that hold them.
LEMMA LockStep ==
  ASSUME IInv, NEW t \in Threads, Continue(t)
  PROVE  LockInv'
<1>1. CASE NewClearsError(t)
  BY <1>1 DEF IInv, LockInv, InClose, NewClearsError, At, Goto, Obj,
     objVars, callVars
<1>2. CASE BuildFails(t)
  BY <1>2 DEF IInv, LockInv, InClose, BuildFails, At, Goto, Obj, callVars
<1>3. CASE Build(t)
  BY <1>3 DEF IInv, LockInv, InClose, Build, At, Goto, Obj, callVars
<1>4. CASE Register(t)
  BY <1>4 DEF IInv, LockInv, InClose, Register, At, Goto, Obj, objVars,
     callVars
<1>5. CASE NewReturns(t)
  BY <1>5 DEF IInv, LockInv, InClose, NewReturns, At, Goto, Obj, callVars
<1>6. CASE NewRaises(t)
  BY <1>6 DEF IInv, LockInv, InClose, NewRaises, At, Goto, Obj, callVars
<1>7. CASE EnsureOpenRaises(t)
  BY <1>7 DEF IInv, LockInv, InClose, EnsureOpenRaises, At, Goto, Obj,
     objVars
<1>8. CASE EnsureOpen(t)
  BY <1>8 DEF IInv, LockInv, InClose, EnsureOpen, At, Goto, Obj,
     objVars, callVars
<1>9. CASE ScanClearsError(t)
  BY <1>9 DEF IInv, LockInv, InClose, ScanClearsError, At, Goto, Obj,
     objVars, callVars
<1>10. CASE Lookup(t)
  BY <1>10 DEF IInv, LockInv, InClose, Lookup, At, Goto, Obj, objVars
<1>11. CASE LookupFails(t)
  BY <1>11 DEF IInv, LockInv, InClose, LookupFails, At, Goto, Obj,
     objVars, callVars
<1>12. CASE ReturnNull(t)
  BY <1>12 DEF IInv, LockInv, InClose, ReturnNull, At, Goto, Obj,
     objVars, callVars
<1>13. CASE ReturnReport(t)
  BY <1>13 DEF IInv, LockInv, InClose, ReturnReport, At, Goto, Obj,
     NewString, objVars
<1>14. CASE LastError(t)
  BY <1>14 DEF IInv, LockInv, InClose, LastError, At, Goto, Obj,
     NewString, objVars
<1>15. CASE TakeDecodes(t)
  BY <1>15 DEF IInv, LockInv, InClose, TakeDecodes, At, Goto, Obj, objVars
<1>16. CASE TakeFrees(t)
  BY <1>16 DEF IInv, LockInv, InClose, TakeFrees, At, Goto, Obj, objVars
<1>17. CASE Count(t)
  BY <1>17 DEF IInv, LockInv, InClose, Count, At, Goto, Obj, objVars,
     callVars
<1>18. CASE CloseLocks(t)
  BY <1>18, NobodyAssumption DEF IInv, TypeOK, CallInv, LockInv, InClose, CloseLocks, At,
     Goto, Obj, callVars
<1>19. CASE CloseAgain(t)
  BY <1>19 DEF IInv, TypeOK, LockInv, InClose, CloseAgain, At, Goto,
     Obj, LockReleased, callVars
<1>20. CASE CloseFirst(t)
  BY <1>20 DEF IInv, TypeOK, CallInv, LockInv, InClose, CloseFirst, At,
     Goto, Obj, callVars
<1>21. CASE CloseNative(t)
  BY <1>21 DEF IInv, TypeOK, LockInv, InClose, CloseNative, At, Goto,
     Obj, callVars
<1>22. CASE EmptyText(t)
  BY <1>22 DEF IInv, LockInv, InClose, EmptyText, At, Goto, Obj,
     objVars
<1> QED BY <1>1, <1>2, <1>3, <1>4, <1>5, <1>6, <1>7, <1>8, <1>9, <1>10, <1>11, <1>12, <1>13,
   <1>14, <1>15, <1>16, <1>17, <1>18, <1>19, <1>20, <1>21, <1>22 DEF Continue

\* A step inside a call keeps handles apart.
LEMMA HandleStep ==
  ASSUME IInv, NEW t \in Threads, Continue(t)
  PROVE  HandleInv'
<1>1. CASE NewClearsError(t)
  BY <1>1 DEF IInv, HandleInv, Registered, NewClearsError, At, Goto, Obj, objVars, callVars
<1>2. CASE BuildFails(t)
  BY <1>2 DEF IInv, TypeOK, CallInv, HandleInv, Registered, Building, BuildFails, At,
     Goto, Obj, ErrConfig, ZeroValue, callVars
<1>3. CASE Build(t)
  BY <1>3 DEF IInv, TypeOK, CallInv, HandleInv, Registered, Building, Build, At, Goto,
     Obj, FreshHandle, callVars
<1>4. CASE Register(t)
  BY <1>4 DEF IInv, CallInv, HandleInv, Registered, Register, At, Goto, Obj, With,
     objVars, callVars
<1>5. CASE NewReturns(t)
  BY <1>5 DEF IInv, HandleInv, Registered, NewReturns, At, Goto, Obj, goVars, callVars
<1>6. CASE NewRaises(t)
  BY <1>6 DEF IInv, CallInv, HandleInv, Registered, Building, NewRaises, At, Goto, Obj,
     goVars, callVars
<1>7. CASE EnsureOpenRaises(t)
  BY <1>7 DEF IInv, HandleInv, Registered, EnsureOpenRaises, Goto, Obj, goVars, objVars
<1>8. CASE EnsureOpen(t)
  BY <1>8 DEF IInv, HandleInv, Registered, EnsureOpen, Goto, Obj, goVars, objVars, callVars
<1>9. CASE ScanClearsError(t)
  BY <1>9 DEF IInv, HandleInv, Registered, ScanClearsError, Goto, Obj, objVars, callVars
<1>10. CASE Lookup(t)
  BY <1>10 DEF IInv, HandleInv, Registered, Lookup, Goto, Obj, goVars, objVars
<1>11. CASE LookupFails(t)
  BY <1>11 DEF IInv, HandleInv, Registered, LookupFails, Goto, Obj, goVars, objVars,
     callVars
<1>12. CASE ReturnNull(t)
  BY <1>12 DEF IInv, HandleInv, Registered, ReturnNull, Goto, Obj, objVars, callVars
<1>13. CASE ReturnReport(t)
  BY <1>13 DEF IInv, HandleInv, Registered, ReturnReport, Goto, Obj, NewString, goVars,
     objVars
<1>14. CASE LastError(t)
  BY <1>14 DEF IInv, HandleInv, Registered, LastError, Goto, Obj, NewString, goVars, objVars
<1>15. CASE TakeDecodes(t)
  BY <1>15 DEF IInv, HandleInv, Registered, TakeDecodes, Goto, Obj, goVars, objVars
<1>16. CASE TakeFrees(t)
  BY <1>16 DEF IInv, HandleInv, Registered, TakeFrees, Goto, Obj, goVars, objVars
<1>17. CASE Count(t)
  BY <1>17 DEF IInv, HandleInv, Registered, Count, Goto, Obj, objVars, callVars
<1>18. CASE CloseLocks(t)
  BY <1>18 DEF IInv, HandleInv, Registered, CloseLocks, Goto, Obj, goVars, callVars
<1>19. CASE CloseAgain(t)
  BY <1>19 DEF IInv, HandleInv, Registered, CloseAgain, Goto, Obj, goVars, callVars
<1>20. CASE CloseFirst(t)
  BY <1>20 DEF IInv, CallInv, HandleInv, Registered, Building, Fetching, CloseFirst, At,
     Goto, Obj, goVars, callVars
<1>21. CASE CloseNative(t)
  BY <1>21 DEF IInv, CallInv, LockInv, HandleInv, Registered, Building, CloseNative, At,
     Goto, Obj, Unregistered, Without, callVars
<1>22. CASE EmptyText(t)
  BY <1>22 DEF IInv, HandleInv, Registered, EmptyText, Goto, Obj, goVars, objVars
<1> QED BY <1>1, <1>2, <1>3, <1>4, <1>5, <1>6, <1>7, <1>8, <1>9, <1>10, <1>11, <1>12, <1>13,
   <1>14, <1>15, <1>16, <1>17, <1>18, <1>19, <1>20, <1>21, <1>22 DEF Continue

\* A step inside a call keeps the registry in accord with the objects.
LEMMA RegistryStep ==
  ASSUME IInv, NEW t \in Threads, Continue(t)
  PROVE  RegistryInv'
<1>1. CASE NewClearsError(t)
  BY <1>1 DEF IInv, RegistryInv, Closing, NewClearsError, At, Goto, objVars
<1>2. CASE BuildFails(t)
  BY <1>2 DEF IInv, TypeOK, HandleInv, RegistryInv, Closing, BuildFails, At, Goto
<1>3. CASE Build(t)
  BY <1>3 DEF IInv, TypeOK, HandleInv, RegistryInv, Closing, Build, At, Goto
<1>4. CASE Register(t)
  BY <1>4 DEF IInv, TypeOK, CallInv, LockInv, HandleInv, RegistryInv, Building, InClose,
     Closing, Register, At, Goto, With, objVars
<1>5. CASE NewReturns(t)
  BY <1>5 DEF IInv, RegistryInv, Closing, NewReturns, At, Goto, goVars
<1>6. CASE NewRaises(t)
  BY <1>6 DEF IInv, TypeOK, RegistryInv, Closing, NewRaises, At, Goto, goVars
<1>7. CASE EnsureOpenRaises(t)
  BY <1>7 DEF IInv, RegistryInv, Closing, EnsureOpenRaises, At, Goto, goVars, objVars
<1>8. CASE EnsureOpen(t)
  BY <1>8 DEF IInv, RegistryInv, Closing, EnsureOpen, At, Goto, goVars, objVars
<1>9. CASE ScanClearsError(t)
  BY <1>9 DEF IInv, RegistryInv, Closing, ScanClearsError, At, Goto, objVars
<1>10. CASE Lookup(t)
  BY <1>10 DEF IInv, RegistryInv, Closing, Lookup, At, Goto, goVars, objVars
<1>11. CASE LookupFails(t)
  BY <1>11 DEF IInv, RegistryInv, Closing, LookupFails, At, Goto, goVars, objVars
<1>12. CASE ReturnNull(t)
  BY <1>12 DEF IInv, RegistryInv, Closing, ReturnNull, At, Goto, objVars
<1>13. CASE ReturnReport(t)
  BY <1>13 DEF IInv, RegistryInv, Closing, ReturnReport, At, Goto, NewString, goVars,
     objVars
<1>14. CASE LastError(t)
  BY <1>14 DEF IInv, RegistryInv, Closing, LastError, At, Goto, NewString, goVars, objVars
<1>15. CASE TakeDecodes(t)
  BY <1>15 DEF IInv, RegistryInv, Closing, TakeDecodes, At, Goto, goVars, objVars
<1>16. CASE TakeFrees(t)
  BY <1>16 DEF IInv, RegistryInv, Closing, TakeFrees, At, Goto, goVars, objVars
<1>17. CASE Count(t)
  BY <1>17 DEF IInv, RegistryInv, Closing, Count, At, Goto, objVars
<1>18. CASE CloseLocks(t)
  BY <1>18 DEF IInv, RegistryInv, Closing, CloseLocks, At, Goto, goVars
<1>19. CASE CloseAgain(t)
  BY <1>19 DEF IInv, LockInv, RegistryInv, InClose, Closing, CloseAgain, At, Goto,
     LockReleased, goVars
<1>20. CASE CloseFirst(t)
  <2>1. Obj(t) \in Objects /\ lock[Obj(t)] = t /\ pc[t] = "locked"
    BY <1>20 DEF IInv, CallInv, LockInv, InClose, CloseFirst, At
  <2>2. /\ pc' = [pc EXCEPT ![t] = "closing"] /\ closed' = [closed EXCEPT ![Obj(t)] = TRUE]
        /\ UNCHANGED <<registry, handle, made, lock>>
    BY <1>20 DEF CloseFirst, Goto, goVars
  <2>3. ASSUME NEW h \in DOMAIN registry, closed'[registry[h]]
        PROVE  Closing(registry[h])'
    <3>1. registry[h] \in Objects
      BY DEF IInv, TypeOK
    <3>2. CASE registry[h] = Obj(t)
      BY <2>1, <2>2, <3>2, NobodyAssumption DEF IInv, TypeOK, Closing
    <3>3. CASE registry[h] # Obj(t)
      <4>1. Closing(registry[h])
        BY <2>2, <2>3, <3>1, <3>3 DEF IInv, RegistryInv
      <4> QED BY <2>1, <2>2, <4>1, <3>1 DEF Closing
    <3> QED BY <3>2, <3>3
  <2> QED BY <2>2, <2>3 DEF IInv, RegistryInv
<1>21. CASE CloseNative(t)
  BY <1>21 DEF IInv, TypeOK, LockInv, RegistryInv, Closing, CloseNative, Goto,
     Unregistered, Without
<1>22. CASE EmptyText(t)
  BY <1>22 DEF IInv, RegistryInv, Closing, EmptyText, At, Goto, goVars, objVars
<1> QED BY <1>1, <1>2, <1>3, <1>4, <1>5, <1>6, <1>7, <1>8, <1>9, <1>10, <1>11, <1>12, <1>13,
   <1>14, <1>15, <1>16, <1>17, <1>18, <1>19, <1>20, <1>21, <1>22 DEF Continue

\* A step inside a call keeps each string with one thread.
LEMMA StringStep ==
  ASSUME IInv, NEW t \in Threads, Continue(t)
  PROVE  StringInv'
<1>1. CASE NewClearsError(t)
  BY <1>1 DEF IInv, StringInv, HasString, NewClearsError, At, Goto, callVars
<1>2. CASE BuildFails(t)
  BY <1>2 DEF IInv, StringInv, HasString, BuildFails, At, Goto, callVars
<1>3. CASE Build(t)
  BY <1>3 DEF IInv, StringInv, HasString, Build, At, Goto, callVars
<1>4. CASE Register(t)
  BY <1>4 DEF IInv, StringInv, HasString, Register, At, Goto, callVars
<1>5. CASE NewReturns(t)
  BY <1>5 DEF IInv, StringInv, HasString, NewReturns, At, Goto, callVars
<1>6. CASE NewRaises(t)
  BY <1>6 DEF IInv, StringInv, HasString, NewRaises, At, Goto, callVars
<1>7. CASE EnsureOpenRaises(t)
  BY <1>7 DEF IInv, StringInv, HasString, EnsureOpenRaises, At, Goto
<1>8. CASE EnsureOpen(t)
  BY <1>8 DEF IInv, StringInv, HasString, EnsureOpen, At, Goto, callVars
<1>9. CASE ScanClearsError(t)
  BY <1>9 DEF IInv, StringInv, HasString, ScanClearsError, At, Goto, callVars
<1>10. CASE Lookup(t)
  BY <1>10 DEF IInv, StringInv, HasString, Lookup, At, Goto
<1>11. CASE LookupFails(t)
  BY <1>11 DEF IInv, StringInv, HasString, LookupFails, At, Goto, callVars
<1>12. CASE ReturnNull(t)
  BY <1>12 DEF IInv, StringInv, HasString, ReturnNull, At, Goto, callVars
<1>13. CASE ReturnReport(t)
  <2>1. PICK a \in Addresses \ DOMAIN heap : ReturnsReport(t, a)
    BY <1>13, ReturnReportFacts
  <2> QED
    BY <1>13, <2>1, ContentFacts DEF IInv, TypeOK, StringInv, HasString, ReturnsReport,
       Allocates, ReturnReport, At
<1>14. CASE LastError(t)
  <2>1. PICK a \in Addresses \ DOMAIN heap : ReturnsMessage(t, a)
    BY <1>14, LastErrorFacts
  <2> QED
    BY <1>14, <2>1, ContentFacts DEF IInv, TypeOK, StringInv, HasString, ReturnsMessage,
       Allocates, LastError, At
<1>15. CASE TakeDecodes(t)
  BY <1>15 DEF IInv, TypeOK, StringInv, HasString, TakeDecodes, At, Goto, HeapWhileDecoding
<1>16. CASE TakeFrees(t)
  <2>1. value' = value
    BY <1>16 DEF TakeFrees
  <2>2. /\ DOMAIN heap' = DOMAIN heap \ {ptr[t]}
        /\ \A b \in DOMAIN heap' : heap'[b] = heap[b]
        /\ pc[t] = "free" /\ pc' = [pc EXCEPT ![t] = "idle"]
        /\ ptr' = [ptr EXCEPT ![t] = Nobody]
    BY <1>16, TakeFreesFacts
  <2> QED
    BY <2>1, <2>2 DEF IInv, TypeOK, StringInv, HasString
<1>17. CASE Count(t)
  BY <1>17 DEF IInv, StringInv, HasString, Count, At, Goto, callVars
<1>18. CASE CloseLocks(t)
  BY <1>18 DEF IInv, StringInv, HasString, CloseLocks, At, Goto, callVars
<1>19. CASE CloseAgain(t)
  BY <1>19 DEF IInv, StringInv, HasString, CloseAgain, At, Goto, callVars
<1>20. CASE CloseFirst(t)
  BY <1>20 DEF IInv, StringInv, HasString, CloseFirst, At, Goto, callVars
<1>21. CASE CloseNative(t)
  BY <1>21 DEF IInv, StringInv, HasString, CloseNative, At, Goto, callVars
<1>22. CASE EmptyText(t)
  BY <1>22 DEF IInv, StringInv, HasString, EmptyText, At, Goto
<1> QED BY <1>1, <1>2, <1>3, <1>4, <1>5, <1>6, <1>7, <1>8, <1>9, <1>10, <1>11, <1>12, <1>13,
   <1>14, <1>15, <1>16, <1>17, <1>18, <1>19, <1>20, <1>21, <1>22 DEF Continue

\* A step inside a call keeps what a scan may come to.
LEMMA ScanStep ==
  ASSUME IInv, NEW t \in Threads, Continue(t)
  PROVE  ScanInv'
<1>1. CASE NewClearsError(t)
  BY <1>1 DEF IInv, ScanInv, InScan, MayRaise, MayReport, Justified, NewClearsError, Goto,
     Obj, objVars, callVars
<1>2. CASE BuildFails(t)
  BY <1>2 DEF IInv, CallInv, ScanInv, InScan, MayRaise, MayReport, Justified, Building,
     BuildFails, At, Goto, Obj, callVars
<1>3. CASE Build(t)
  BY <1>3 DEF IInv, CallInv, ScanInv, InScan, MayRaise, MayReport, Justified, Building,
     Build, At, Goto, Obj, callVars
<1>4. CASE Register(t)
  BY <1>4 DEF IInv, ScanInv, InScan, MayRaise, MayReport, Justified, Register, Goto, Obj,
     objVars, callVars
<1>5. CASE NewReturns(t)
  BY <1>5 DEF IInv, CallInv, ScanInv, InScan, MayRaise, MayReport, Justified, Fetching,
     NewReturns, At, Goto, Obj, callVars
<1>6. CASE NewRaises(t)
  BY <1>6 DEF IInv, CallInv, ScanInv, InScan, MayRaise, MayReport, Justified, Building,
     NewRaises, At, Goto, Obj, callVars
<1>7. CASE EnsureOpenRaises(t)
  BY <1>7 DEF IInv, ScanInv, InScan, MayRaise, MayReport, Justified, EnsureOpenRaises,
     Goto, Obj, objVars
<1>8. CASE EnsureOpen(t)
  BY <1>8 DEF IInv, ScanInv, InScan, MayRaise, MayReport, Justified, EnsureOpen, At, Goto,
     Obj, objVars, callVars
<1>9. CASE ScanClearsError(t)
  BY <1>9 DEF IInv, ScanInv, InScan, MayRaise, MayReport, Justified, ScanClearsError, At,
     Goto, Obj, objVars, callVars
<1>10. CASE Lookup(t)
  BY <1>10 DEF IInv, TypeOK, CallInv, HandleInv, RegistryInv, ScanInv, InScan, MayRaise,
     MayReport, Justified, Lookup, At, Goto, Obj, Known, objVars
<1>11. CASE LookupFails(t)
  BY <1>11 DEF IInv, TypeOK, CallInv, HandleInv, Registered, ScanInv, InScan, MayRaise,
     MayReport, Justified, LookupFails, At, Goto, Obj, Known, objVars, callVars
<1>12. CASE ReturnNull(t)
  BY <1>12 DEF IInv, ScanInv, InScan, MayRaise, MayReport, Justified, ReturnNull, At,
     Goto, Obj, objVars, callVars
<1>13. CASE ReturnReport(t)
  <2>1. PICK a \in Addresses \ DOMAIN heap : ReturnsReport(t, a)
    BY <1>13, ReturnReportFacts
  <2> QED
    BY <1>13, <2>1 DEF IInv, TypeOK, StringInv, HasString, ScanInv, InScan, MayRaise,
       MayReport, Justified, ReturnsReport, Allocates, ReturnReport, At, Obj, objVars
<1>14. CASE LastError(t)
  <2>1. PICK a \in Addresses \ DOMAIN heap : ReturnsMessage(t, a)
    BY <1>14, LastErrorFacts
  <2> QED
    BY <1>14, <2>1 DEF IInv, TypeOK, StringInv, HasString, ScanInv, InScan, MayRaise,
       MayReport, Justified, ReturnsMessage, Allocates, LastError, At, Obj, objVars
<1>15. CASE TakeDecodes(t)
  BY <1>15 DEF IInv, TypeOK, ScanInv, InScan, MayRaise, MayReport, Justified, TakeDecodes,
     At, Goto, Obj, HeapWhileDecoding, objVars
<1>16. CASE TakeFrees(t)
  <2>1. UNCHANGED <<objVars, call, native, value>>
    BY <1>16 DEF TakeFrees
  <2>2. /\ DOMAIN heap' = DOMAIN heap \ {ptr[t]}
        /\ \A b \in DOMAIN heap' : heap'[b] = heap[b]
        /\ pc[t] = "free" /\ pc' = [pc EXCEPT ![t] = "idle"]
        /\ ptr' = [ptr EXCEPT ![t] = Nobody]
    BY <1>16, TakeFreesFacts
  <2> QED
    BY <2>1, <2>2 DEF IInv, StringInv, HasString, ScanInv, InScan, MayRaise, MayReport,
       Justified, Obj, objVars
<1>17. CASE Count(t)
  BY <1>17 DEF IInv, ScanInv, InScan, MayRaise, MayReport, Justified, Count, Goto, Obj,
     objVars, callVars
<1>18. CASE CloseLocks(t)
  BY <1>18 DEF IInv, ScanInv, InScan, MayRaise, MayReport, Justified, CloseLocks, Goto,
     Obj, callVars
<1>19. CASE CloseAgain(t)
  BY <1>19 DEF IInv, ScanInv, InScan, MayRaise, MayReport, Justified, CloseAgain, Goto,
     Obj, callVars
<1>20. CASE CloseFirst(t)
  BY <1>20 DEF IInv, ScanInv, InScan, MayRaise, MayReport, Justified, CloseFirst, Goto,
     Obj, callVars
<1>21. CASE CloseNative(t)
  BY <1>21 DEF IInv, ScanInv, InScan, MayRaise, MayReport, Justified, CloseNative, Goto,
     Obj, callVars
<1>22. CASE EmptyText(t)
  BY <1>22 DEF IInv, ScanInv, InScan, MayRaise, MayReport, Justified, EmptyText,
     Goto, Obj, objVars
<1> QED BY <1>1, <1>2, <1>3, <1>4, <1>5, <1>6, <1>7, <1>8, <1>9, <1>10, <1>11, <1>12, <1>13,
   <1>14, <1>15, <1>16, <1>17, <1>18, <1>19, <1>20, <1>21, <1>22 DEF Continue

-----------------------------------------------------------------------------
(* The inductive invariant.                                                *)

\* A thread that begins a call, as the invariant sees it.
LEMMA BeginInv ==
  ASSUME IInv, NEW t \in Threads, NEW o \in Objects,
         BeginNew(t, o) \/ BeginScan(t, o) \/ BeginCount(t, o) \/ BeginClose(t, o)
  PROVE  IInv'
<1>1. PICK b \in Texts, entry \in {"new", "scan", "count", "close"} :
         /\ Begin(t, o, b, entry)
         /\ IF entry = "new" THEN BeginNew(t, o) ELSE made[o] = "made" /\ made' = made
  BY DEF BeginNew, BeginScan, BeginCount, BeginClose, Texts, objVars
<1>2. /\ pc[t] = "idle" /\ pc' = [pc EXCEPT ![t] = entry] /\ pc' \in [Threads -> PCs]
      /\ call' \in [Threads -> Call] /\ calls' \in 0 .. MaxCalls
      /\ \A u \in Threads \ {t} : call'[u] = call[u]
      /\ call'[t].obj = o /\ call'[t].open = (~closed[o])
  <2>1. entry \in PCs
    BY DEF PCs
  <2>2. TypeOK
    BY DEF IInv
  <2>3. call' = [call EXCEPT ![t] = [obj |-> o, text |-> b, open |-> ~closed[o]]]
    BY <1>1, <2>1, <2>2, BeginFacts
  <2>4. \A u \in Threads \ {t} : call'[u] = call[u]
    BY <2>2, <2>3
  <2> QED BY <1>1, <2>1, <2>2, <2>4, BeginFacts
<1>3. /\ UNCHANGED <<registry, nextHandle, lastErr, heap, handle, closed, lock, native, ptr, value>>
      /\ answer' = answer \/ answer' = [answer EXCEPT ![t] = Nobody]
  BY DEF BeginNew, BeginScan, BeginCount, BeginClose, goVars, objVars
<1>4. entry = "new" => made[o] = "absent" /\ made' = [made EXCEPT ![o] = "making"]
  BY <1>1 DEF BeginNew
<1>5. entry # "new" => made[o] = "made" /\ made' = made
  BY <1>1
<1>6. made' \in [Objects -> {"absent", "making", "made", "failed"}]
  BY <1>4, <1>5 DEF IInv, TypeOK
<1>7. answer' \in [Threads -> Objects \cup {"raised", Nobody}]
  BY <1>3 DEF IInv, TypeOK
<1>8. TypeOK'
  BY <1>2, <1>3, <1>6, <1>7 DEF IInv, TypeOK
<1>9. \A u \in Threads \ {t} : pc'[u] = pc[u] /\ Obj(u)' = Obj(u)
  BY <1>2 DEF Obj
<1>10. pc'[t] = entry /\ Obj(t)' = o
  BY <1>2 DEF Obj
<1>11. CallInv'
  BY <1>4, <1>5, <1>9, <1>10 DEF IInv, TypeOK, CallInv, Building
<1>12. LockInv'
  BY <1>2, <1>3, <1>9, <1>10 DEF IInv, TypeOK, LockInv, InClose
<1>13. HandleInv'
  BY <1>3, <1>4, <1>5, <1>9, <1>10 DEF IInv, TypeOK, HandleInv, Registered
<1>14. RegistryInv'
  <2>1. \A p \in Objects : Closing(p) => Closing(p)'
    BY <1>2, <1>3, NobodyAssumption DEF Closing
  <2> QED BY <1>3, <1>4, <1>5, <2>1 DEF IInv, TypeOK, RegistryInv
<1>15. StringInv'
  BY <1>2, <1>3, <1>9, <1>10 DEF IInv, StringInv, HasString
<1>16. ScanInv'
  <2>1. ASSUME NEW u \in Threads \ {t}, InScan(u)'
        PROVE  InScan(u)
    BY <1>4, <1>5, <1>6, <1>9, <2>1 DEF IInv, CallInv, InScan
  <2>2. \A u \in Threads \ {t} : call'[u] = call[u] /\ pc'[u] = pc[u]
    BY <1>2, <1>9
  <2>3. entry \in {"new", "count", "close"} => ~InScan(t)'
    BY <1>10 DEF InScan
  <2>4. entry = "scan" => call'[t].open \/ closed'[Obj(t)']
    BY <1>2, <1>3, <1>10
  <2> QED
    BY <1>3, <1>10, <2>1, <2>2, <2>3, <2>4 DEF IInv, ScanInv, MayRaise, MayReport,
       Justified, Obj
<1> QED BY <1>8, <1>11, <1>12, <1>13, <1>14, <1>15, <1>16 DEF IInv

\* Every step keeps the inductive invariant.
LEMMA StepInv == IInv /\ [Next]_vars => IInv'
<1> SUFFICES ASSUME IInv, [Next]_vars PROVE IInv'
  OBVIOUS
<1>1. ASSUME NEW t \in Threads, Continue(t)
      PROVE  IInv'
  BY <1>1, TypeStep, CallStep, LockStep, HandleStep, RegistryStep, StringStep, ScanStep
     DEF IInv
<1>2. ASSUME NEW t \in Threads, NEW o \in Objects,
             BeginNew(t, o) \/ BeginScan(t, o) \/ BeginCount(t, o) \/ BeginClose(t, o)
      PROVE  IInv'
  BY <1>2, BeginInv
<1>3. CASE UNCHANGED vars
  <2>1. /\ UNCHANGED <<registry, nextHandle, lastErr, heap, made, handle, closed, lock, pc>>
        /\ UNCHANGED <<call, native, ptr, value, answer, calls>>
    BY <1>3 DEF vars, goVars, objVars, callVars
  <2>2. TypeOK' /\ CallInv' /\ LockInv' /\ HandleInv'
    BY <2>1 DEF IInv, TypeOK, CallInv, LockInv, HandleInv, Registered, Obj
  <2>3. RegistryInv' /\ StringInv'
    BY <2>1 DEF IInv, RegistryInv, Closing, StringInv, HasString
  <2>4. ScanInv'
    BY <2>1 DEF IInv, ScanInv, InScan, MayRaise, MayReport, Justified, Obj
  <2> QED BY <2>2, <2>3, <2>4 DEF IInv
<1> QED BY <1>1, <1>2, <1>3 DEF Next

\* The inductive invariant holds in every reachable state.
LEMMA Inductive == Spec => []IInv
BY InitInv, StepInv, PTL DEF Spec

-----------------------------------------------------------------------------
(* The results.                                                            *)

\* Every reachable state is well typed.
THEOREM TypeCorrect == Spec => []TypeOK
<1>1. IInv => TypeOK
  BY DEF IInv
<1> QED BY <1>1, Inductive, PTL

\* No native scanner outlives its Scanner object or is lost by it.
THEOREM RegistryIsRight == Spec => []RegistryMatchesObjects
<1>1. ASSUME IInv PROVE RegistryMatchesObjects
  BY <1>1 DEF IInv, RegistryInv, HandleInv, Registered, RegistryMatchesObjects
<1> QED BY <1>1, Inductive, PTL

\* Every string the library returns is freed exactly once.
THEOREM FreesOnce == Spec => []StringsFreedOnce
<1>1. ASSUME IInv PROVE StringsFreedOnce
  <2>1. ASSUME NEW a \in DOMAIN heap
        PROVE  Cardinality(Holders(a)) = 1
    <3>1. PICK t \in Threads : HasString(t) /\ ptr[t] = a
      BY <1>1 DEF IInv, StringInv
    <3>2. Holders(a) = {t}
      BY <1>1, <3>1 DEF IInv, StringInv, HasString, Holders
    <3> QED BY <3>2, FS_Singleton
  <2>2. ASSUME NEW t \in Threads, pc[t] \in {"take", "free"}
        PROVE  ptr[t] \in DOMAIN heap
    BY <1>1, <2>2 DEF IInv, StringInv, HasString
  <2> QED BY <2>1, <2>2 DEF StringsFreedOnce
<1> QED BY <1>1, Inductive, PTL

-----------------------------------------------------------------------------
(* The refinement of ScannerService.                                       *)

statusMap == [o \in Objects |-> Status(o)]
scanMap == [t \in Threads |-> ScanOf(t)]

\* A step that changes no object that is made and begins or ends no scan is
\* invisible to the users of the scanners.
LEMMA Stutters ==
  ASSUME \A o \in Objects : Status(o)' = Status(o),
         \A t \in Threads : ScanOf(t)' = ScanOf(t), answer' = answer
  PROVE  UNCHANGED <<statusMap, scanMap, answer>>
BY DEF statusMap, scanMap

\* Nothing is constructed and no scan has begun at the start.
LEMMA ServiceInit == Init => Service!Init
<1> SUFFICES ASSUME Init PROVE Service!Init
  OBVIOUS
<1>1. \A o \in Objects : Status(o) = "absent"
  BY DEF Init, Status
<1>2. \A t \in Threads : ScanOf(t) = Nobody
  BY DEF Init, ScanOf, InScan
<1> QED BY <1>1, <1>2 DEF Init, Service!Init

\* The status of an object depends on whether it is made, closed, and has a
\* handle.
LEMMA StatusFacts ==
  ASSUME TypeOK, NEW o \in Objects
  PROVE  /\ made[o] # "made" => Status(o) = "absent"
         /\ made[o] = "made" /\ closed[o] => Status(o) = "closed"
         /\ made[o] = "made" /\ ~closed[o] /\ handle[o] = 0 => Status(o) = "dead"
         /\ made[o] = "made" /\ ~closed[o] /\ handle[o] # 0 => Status(o) = "open"
BY DEF Status

\* A step of one thread leaves the scans of the others alone.
LEMMA OtherScans ==
  ASSUME IInv, NEW t \in Threads, NEW u \in Threads \ {t},
         pc'[u] = pc[u], call'[u] = call[u],
         \A o \in Objects : made[o] \in {"made", "failed"} => made'[o] = made[o]
  PROVE  ScanOf(u)' = ScanOf(u)
<1>1. CASE pc[u] \in {"scan", "enter", "lookup", "scanning", "unknown", "null", "take", "free"}
  <2>1. Obj(u) \in Objects /\ made[Obj(u)] \in {"made", "failed"}
    BY <1>1 DEF IInv, CallInv, Building
  <2> QED BY <2>1 DEF ScanOf, InScan, Obj
<1>2. CASE pc[u] \notin {"scan", "enter", "lookup", "scanning", "unknown", "null", "take", "free"}
  BY <1>2 DEF ScanOf, InScan
<1> QED BY <1>1, <1>2

\* Inside a call a thread changes the place of no other thread, and constructs
\* at most its own object.
LEMMA Frame ==
  ASSUME IInv, NEW t \in Threads, Continue(t)
  PROVE  /\ \A u \in Threads \ {t} : pc'[u] = pc[u] /\ ScanOf(u)' = ScanOf(u)
         /\ call' = call
<1>1. call' = call /\ \E place \in PCs : pc' = [pc EXCEPT ![t] = place]
  <2>1. CASE NewClearsError(t)
    BY <2>1 DEF NewClearsError, Goto, PCs, callVars
  <2>2. CASE BuildFails(t)
    BY <2>2 DEF BuildFails, Goto, PCs, callVars
  <2>3. CASE Build(t)
    BY <2>3 DEF Build, Goto, PCs, callVars
  <2>4. CASE Register(t)
    BY <2>4 DEF Register, Goto, PCs, callVars
  <2>5. CASE NewReturns(t)
    BY <2>5 DEF NewReturns, Goto, PCs, callVars
  <2>6. CASE NewRaises(t)
    BY <2>6 DEF NewRaises, Goto, PCs, callVars
  <2>7. CASE EnsureOpenRaises(t)
    BY <2>7 DEF EnsureOpenRaises, Goto, PCs
  <2>8. CASE EnsureOpen(t)
    BY <2>8 DEF EnsureOpen, Goto, PCs, callVars
  <2>9. CASE ScanClearsError(t)
    BY <2>9 DEF ScanClearsError, Goto, PCs, callVars
  <2>10. CASE Lookup(t)
    BY <2>10 DEF Lookup, Goto, PCs
  <2>11. CASE LookupFails(t)
    BY <2>11 DEF LookupFails, Goto, PCs, callVars
  <2>12. CASE ReturnNull(t)
    BY <2>12 DEF ReturnNull, Goto, PCs, callVars
  <2>13. CASE ReturnReport(t)
    BY <2>13 DEF ReturnReport, Goto, PCs, NewString
  <2>14. CASE LastError(t)
    BY <2>14 DEF LastError, Goto, PCs, NewString
  <2>15. CASE TakeDecodes(t)
    BY <2>15 DEF TakeDecodes, Goto, PCs
  <2>16. CASE TakeFrees(t)
    BY <2>16 DEF TakeFrees, Goto, PCs
  <2>17. CASE Count(t)
    BY <2>17 DEF Count, Goto, PCs, callVars
  <2>18. CASE CloseLocks(t)
    BY <2>18 DEF CloseLocks, Goto, PCs, callVars
  <2>19. CASE CloseAgain(t)
    BY <2>19 DEF CloseAgain, Goto, PCs, callVars
  <2>20. CASE CloseFirst(t)
    BY <2>20 DEF CloseFirst, Goto, PCs, callVars
  <2>21. CASE CloseNative(t)
    BY <2>21 DEF CloseNative, Goto, PCs, callVars
  <2>22. CASE EmptyText(t)
    BY <2>22 DEF EmptyText, Goto, PCs
  <2> QED BY <2>1, <2>2, <2>3, <2>4, <2>5, <2>6, <2>7, <2>8, <2>9, <2>10, <2>11, <2>12,
     <2>13, <2>14, <2>15, <2>16, <2>17, <2>18, <2>19, <2>20, <2>21, <2>22 DEF Continue
<1>2. \A o \in Objects : made[o] \in {"made", "failed"} => made'[o] = made[o]
  <2>1. CASE NewReturns(t) \/ NewRaises(t)
    <3>1. Obj(t) \in Objects /\ made[Obj(t)] = "making"
      BY <2>1 DEF IInv, CallInv, NewReturns, NewRaises, At, Building
    <3> QED BY <2>1, <3>1 DEF IInv, TypeOK, NewReturns, NewRaises
  <2>2. CASE made' = made
    BY <2>2
  <2>3. NewReturns(t) \/ NewRaises(t) \/ made' = made
    <3>1. CASE NewClearsError(t)
      BY <3>1 DEF NewClearsError, objVars
    <3>2. CASE BuildFails(t)
      BY <3>2 DEF BuildFails
    <3>3. CASE Build(t)
      BY <3>3 DEF Build
    <3>4. CASE Register(t)
      BY <3>4 DEF Register, objVars
    <3>5. CASE EnsureOpenRaises(t)
      BY <3>5 DEF EnsureOpenRaises, objVars
    <3>6. CASE EnsureOpen(t)
      BY <3>6 DEF EnsureOpen, objVars
    <3>7. CASE ScanClearsError(t)
      BY <3>7 DEF ScanClearsError, objVars
    <3>8. CASE Lookup(t)
      BY <3>8 DEF Lookup, objVars
    <3>9. CASE LookupFails(t)
      BY <3>9 DEF LookupFails, objVars
    <3>10. CASE ReturnNull(t)
      BY <3>10 DEF ReturnNull, objVars
    <3>11. CASE ReturnReport(t)
      BY <3>11 DEF ReturnReport, objVars
    <3>12. CASE LastError(t)
      BY <3>12 DEF LastError, objVars
    <3>13. CASE TakeDecodes(t)
      BY <3>13 DEF TakeDecodes, objVars
    <3>14. CASE TakeFrees(t)
      BY <3>14 DEF TakeFrees, objVars
    <3>15. CASE Count(t)
      BY <3>15 DEF Count, objVars
    <3>16. CASE CloseLocks(t)
      BY <3>16 DEF CloseLocks
    <3>17. CASE CloseAgain(t)
      BY <3>17 DEF CloseAgain
    <3>18. CASE CloseFirst(t)
      BY <3>18 DEF CloseFirst
    <3>19. CASE CloseNative(t)
      BY <3>19 DEF CloseNative
    <3>20. CASE EmptyText(t)
      BY <3>20 DEF EmptyText, objVars
    <3> QED BY <3>1, <3>2, <3>3, <3>4, <3>5, <3>6, <3>7, <3>8, <3>9, <3>10, <3>11, <3>12,
       <3>13, <3>14, <3>15, <3>16, <3>17, <3>18, <3>19, <3>20 DEF Continue
  <2> QED BY <2>1, <2>2, <2>3
<1>3. ASSUME NEW u \in Threads \ {t}
      PROVE  pc'[u] = pc[u] /\ ScanOf(u)' = ScanOf(u)
  <2>1. pc'[u] = pc[u]
    BY <1>1
  <2>2. call'[u] = call[u]
    BY <1>1
  <2> QED BY <1>2, <2>1, <2>2, OtherScans
<1> QED BY <1>1, <1>3

\* The steps inside a call that no user of a scanner can see.
LEMMA HiddenSteps ==
  ASSUME IInv, NEW t \in Threads, Continue(t),
         ~NewReturns(t), ~EnsureOpenRaises(t), ~EmptyText(t), ~CloseFirst(t),
         TakeFrees(t) => made[Obj(t)] = "failed"
  PROVE  UNCHANGED <<statusMap, scanMap, answer>>
<1>1. ASSUME NEW o \in Objects PROVE Status(o)' = Status(o)
  <2>1. CASE NewClearsError(t)
    BY <2>1 DEF Status, NewClearsError, objVars
  <2>2. CASE BuildFails(t)
    BY <2>2 DEF Status, BuildFails
  <2>3. CASE Build(t)
    BY <2>3 DEF Status, Build
  <2>4. CASE Register(t)
    BY <2>4 DEF Status, Register, objVars
  <2>5. CASE NewRaises(t)
    BY <2>5 DEF IInv, CallInv, Building, At, Status, NewRaises
  <2>6. CASE EnsureOpen(t)
    BY <2>6 DEF Status, EnsureOpen, objVars
  <2>7. CASE ScanClearsError(t)
    BY <2>7 DEF Status, ScanClearsError, objVars
  <2>8. CASE Lookup(t)
    BY <2>8 DEF Status, Lookup, objVars
  <2>9. CASE LookupFails(t)
    BY <2>9 DEF Status, LookupFails, objVars
  <2>10. CASE ReturnNull(t)
    BY <2>10 DEF Status, ReturnNull, objVars
  <2>11. CASE ReturnReport(t)
    BY <2>11 DEF Status, ReturnReport, objVars
  <2>12. CASE LastError(t)
    BY <2>12 DEF Status, LastError, objVars
  <2>13. CASE TakeDecodes(t)
    BY <2>13 DEF Status, TakeDecodes, objVars
  <2>14. CASE Count(t)
    BY <2>14 DEF Status, Count, objVars
  <2>15. CASE CloseLocks(t)
    BY <2>15 DEF Status, CloseLocks
  <2>16. CASE CloseAgain(t)
    BY <2>16 DEF Status, CloseAgain
  <2>17. CASE CloseNative(t)
    BY <2>17 DEF Status, CloseNative
  <2>18. CASE TakeFrees(t)
    BY <2>18 DEF Status, TakeFrees, objVars
  <2> QED BY <2>1, <2>2, <2>3, <2>4, <2>5, <2>6, <2>7, <2>8, <2>9, <2>10, <2>11, <2>12,
     <2>13, <2>14, <2>15, <2>16, <2>17, <2>18 DEF Continue
<1>2. ScanOf(t)' = ScanOf(t)
  <2>0. call' = call
    BY Frame
  <2>1. CASE NewClearsError(t)
    BY <2>0, <2>1 DEF ScanOf, InScan, NewClearsError, At, Goto
  <2>2. CASE BuildFails(t)
    BY <2>0, <2>2 DEF ScanOf, InScan, BuildFails, At, Goto
  <2>3. CASE Build(t)
    BY <2>0, <2>3 DEF ScanOf, InScan, Build, At, Goto
  <2>4. CASE Register(t)
    BY <2>0, <2>4 DEF ScanOf, InScan, Register, At, Goto
  <2>5. CASE NewRaises(t)
    BY <2>0, <2>5 DEF IInv, CallInv, Building, ScanOf, InScan, NewRaises, At, Obj
  <2>6. CASE EnsureOpen(t)
    BY <2>0, <2>6 DEF ScanOf, InScan, EnsureOpen, At, Goto, Obj, objVars
  <2>7. CASE ScanClearsError(t)
    BY <2>0, <2>7 DEF ScanOf, InScan, ScanClearsError, At, Goto, Obj, objVars
  <2>8. CASE Lookup(t)
    BY <2>0, <2>8 DEF ScanOf, InScan, Lookup, At, Goto, Obj, objVars
  <2>9. CASE LookupFails(t)
    BY <2>0, <2>9 DEF ScanOf, InScan, LookupFails, At, Goto, Obj, objVars
  <2>10. CASE ReturnNull(t)
    BY <2>0, <2>10 DEF ScanOf, InScan, ReturnNull, At, Goto, Obj, objVars
  <2>11. CASE ReturnReport(t)
    BY <2>0, <2>11 DEF ScanOf, InScan, ReturnReport, At, Goto, Obj, objVars, NewString
  <2>12. CASE LastError(t)
    BY <2>0, <2>12 DEF ScanOf, InScan, LastError, At, Goto, Obj, objVars, NewString
  <2>13. CASE TakeDecodes(t)
    BY <2>0, <2>13 DEF ScanOf, InScan, TakeDecodes, At, Goto, Obj, objVars
  <2>14. CASE Count(t)
    BY <2>0, <2>14 DEF ScanOf, InScan, Count, At, Goto
  <2>15. CASE CloseLocks(t)
    BY <2>0, <2>15 DEF ScanOf, InScan, CloseLocks, At, Goto
  <2>16. CASE CloseAgain(t)
    BY <2>0, <2>16 DEF ScanOf, InScan, CloseAgain, At, Goto
  <2>17. CASE CloseNative(t)
    BY <2>0, <2>17 DEF ScanOf, InScan, CloseNative, At, Goto
  <2>18. CASE TakeFrees(t)
    BY <2>0, <2>18 DEF ScanOf, InScan, TakeFrees, Obj, objVars
  <2> QED BY <2>1, <2>2, <2>3, <2>4, <2>5, <2>6, <2>7, <2>8, <2>9, <2>10, <2>11, <2>12,
     <2>13, <2>14, <2>15, <2>16, <2>17, <2>18 DEF Continue
<1>3. answer' = answer
  <2>1. CASE NewClearsError(t)
    BY <2>1 DEF NewClearsError, callVars
  <2>2. CASE BuildFails(t)
    BY <2>2 DEF BuildFails, callVars
  <2>3. CASE Build(t)
    BY <2>3 DEF Build, callVars
  <2>4. CASE Register(t)
    BY <2>4 DEF Register, callVars
  <2>5. CASE NewRaises(t)
    BY <2>5 DEF NewRaises, callVars
  <2>6. CASE EnsureOpen(t)
    BY <2>6 DEF EnsureOpen, callVars
  <2>7. CASE ScanClearsError(t)
    BY <2>7 DEF ScanClearsError, callVars
  <2>8. CASE Lookup(t)
    BY <2>8 DEF Lookup
  <2>9. CASE LookupFails(t)
    BY <2>9 DEF LookupFails, callVars
  <2>10. CASE ReturnNull(t)
    BY <2>10 DEF ReturnNull, callVars
  <2>11. CASE ReturnReport(t)
    BY <2>11 DEF ReturnReport
  <2>12. CASE LastError(t)
    BY <2>12 DEF LastError
  <2>13. CASE TakeDecodes(t)
    BY <2>13 DEF TakeDecodes
  <2>14. CASE Count(t)
    BY <2>14 DEF Count, callVars
  <2>15. CASE CloseLocks(t)
    BY <2>15 DEF CloseLocks, callVars
  <2>16. CASE CloseAgain(t)
    BY <2>16 DEF CloseAgain, callVars
  <2>17. CASE CloseNative(t)
    BY <2>17 DEF CloseNative, callVars
  <2>18. CASE TakeFrees(t)
    BY <2>18 DEF TakeFrees
  <2> QED BY <2>1, <2>2, <2>3, <2>4, <2>5, <2>6, <2>7, <2>8, <2>9, <2>10, <2>11, <2>12,
     <2>13, <2>14, <2>15, <2>16, <2>17, <2>18 DEF Continue
<1>4. \A u \in Threads : ScanOf(u)' = ScanOf(u)
  BY <1>2, Frame
<1> QED BY <1>1, <1>3, <1>4, Stutters

\* A construction that returns: the object appears, with or without a handle.
LEMMA NewReturnsStep ==
  ASSUME IInv, IInv', NEW t \in Threads, NewReturns(t)
  PROVE  Service!Next
<1>1. PICK o \in Objects : o = Obj(t) /\ made[o] = "making" /\ ~closed[o]
  BY DEF IInv, CallInv, HandleInv, NewReturns, At, Building
<1>2. made' = [made EXCEPT ![o] = "made"] /\ UNCHANGED <<handle, closed, answer>>
  BY <1>1 DEF NewReturns, callVars
<1>3. Status(o) = "absent" /\ Status(o)' \in {"open", "dead"}
  BY <1>1, <1>2 DEF IInv, TypeOK, Status
<1>4. \A p \in Objects \ {o} : Status(p)' = Status(p)
  BY <1>2 DEF Status
<1>5. \A u \in Threads : ScanOf(u)' = ScanOf(u)
  <2>1. ~InScan(t) /\ ~InScan(t)'
    BY DEF NewReturns, At, Goto, InScan
  <2> QED BY <2>1, Frame DEF ScanOf, Continue
<1>6. scanMap' = scanMap
  BY <1>5 DEF scanMap
<1>7. PICK s \in {"open", "dead"} : Status(o)' = s
  BY <1>3
<1>8. statusMap' = [statusMap EXCEPT ![o] = s] /\ statusMap[o] = "absent"
  BY <1>1, <1>3, <1>4, <1>7 DEF statusMap
<1>9. Service!Construct(o)
  BY <1>2, <1>6, <1>8 DEF Service!Construct, statusMap, scanMap
<1> QED BY <1>1, <1>9 DEF Service!Next

\* The first close.
LEMMA CloseFirstStep ==
  ASSUME IInv, NEW t \in Threads, CloseFirst(t)
  PROVE  Service!Next
<1>1. PICK o \in Objects : o = Obj(t) /\ made[o] = "made" /\ ~closed[o]
  BY DEF IInv, CallInv, CloseFirst, At, Building, Fetching
<1>2. closed' = [closed EXCEPT ![o] = TRUE] /\ UNCHANGED <<handle, made, answer>>
  BY <1>1 DEF CloseFirst, callVars
<1>3. Status(o) \in {"open", "dead"} /\ Status(o)' = "closed"
  BY <1>1, <1>2 DEF IInv, TypeOK, Status
<1>4. \A p \in Objects \ {o} : Status(p)' = Status(p)
  BY <1>2 DEF Status
<1>5. \A u \in Threads : ScanOf(u)' = ScanOf(u)
  <2>1. ~InScan(t) /\ ~InScan(t)'
    BY DEF CloseFirst, At, Goto, InScan
  <2> QED BY <2>1, Frame DEF ScanOf, Continue
<1>6. scanMap' = scanMap
  BY <1>5 DEF scanMap
<1>7. statusMap' = [statusMap EXCEPT ![o] = "closed"] /\ statusMap[o] \in {"open", "dead"}
  BY <1>1, <1>3, <1>4 DEF statusMap
<1>8. Service!Close(o)
  BY <1>2, <1>6, <1>7 DEF Service!Close, statusMap, scanMap
<1> QED BY <1>1, <1>8 DEF Service!Next

\* What a scan that ends by this step leaves behind.
LEMMA ScanEnds ==
  ASSUME IInv, NEW t \in Threads, InScan(t), Continue(t), pc' = [pc EXCEPT ![t] = "idle"],
         UNCHANGED objVars, NEW a, answer' = [answer EXCEPT ![t] = a]
  PROVE  /\ statusMap' = statusMap /\ scanMap' = [scanMap EXCEPT ![t] = Nobody]
         /\ scanMap[t] = call[t] /\ scanMap[t] # Nobody
         /\ Obj(t) \in Objects /\ statusMap[Obj(t)] = Status(Obj(t))
         /\ made[Obj(t)] = "made"
<1>1. \A o \in Objects : Status(o)' = Status(o)
  BY DEF Status, objVars
<1>2. ~InScan(t)'
  BY DEF IInv, TypeOK, InScan
<1>3. \A u \in Threads \ {t} : ScanOf(u)' = ScanOf(u)
  BY Frame
<1>4. ScanOf(t) = call[t] /\ ScanOf(t)' = Nobody
  BY <1>2 DEF ScanOf
<1>5. Obj(t) \in Objects /\ made[Obj(t)] = "made"
  BY DEF IInv, CallInv, InScan
<1>6. call[t] # Nobody
  <2>1. call[t] \in Call /\ call[t] # NoCall
    BY <1>5, NobodyAssumption DEF IInv, TypeOK, Obj, NoCall
  <2>2. call[t] \in [obj : Objects, text : Texts, open : BOOLEAN]
    BY <1>5, <2>1, NobodyAssumption DEF Call
  <2> QED BY <2>2, NobodyAssumption
<1>7. statusMap' = statusMap /\ statusMap[Obj(t)] = Status(Obj(t))
  BY <1>1, <1>5 DEF statusMap
<1>8. scanMap' = [scanMap EXCEPT ![t] = Nobody] /\ scanMap[t] = call[t]
  BY <1>3, <1>4 DEF scanMap
<1> QED BY <1>5, <1>6, <1>7, <1>8

\* A scan of a closed scanner raises at once.
LEMMA EnsureOpenRaisesStep ==
  ASSUME IInv, NEW t \in Threads, EnsureOpenRaises(t)
  PROVE  Service!Next
<1>1. InScan(t) /\ closed[Obj(t)] /\ UNCHANGED objVars
  BY DEF IInv, CallInv, EnsureOpenRaises, At, InScan, Building, Fetching
<1>2. pc' = [pc EXCEPT ![t] = "idle"] /\ answer' = [answer EXCEPT ![t] = "raised"]
  BY DEF EnsureOpenRaises, Goto, Answer
<1>3. /\ statusMap' = statusMap /\ scanMap' = [scanMap EXCEPT ![t] = Nobody]
      /\ scanMap[t] = call[t] /\ scanMap[t] # Nobody
      /\ Obj(t) \in Objects /\ statusMap[Obj(t)] = Status(Obj(t)) /\ made[Obj(t)] = "made"
  BY <1>1, <1>2, ScanEnds DEF Continue
<1>4. statusMap[scanMap[t].obj] = "closed"
  BY <1>1, <1>3, StatusFacts DEF IInv, Obj
<1>5. Service!Raise(t)
  BY <1>2, <1>3, <1>4 DEF Service!Raise, Service!Finish, statusMap, scanMap
<1> QED BY <1>5 DEF Service!Next

\* A scan of an empty text answers at once, with or without a native half.
LEMMA EmptyTextStep ==
  ASSUME IInv, NEW t \in Threads, EmptyText(t)
  PROVE  Service!Next
<1>1. InScan(t) /\ call[t].open /\ call[t].text = "empty" /\ UNCHANGED objVars
  BY DEF IInv, CallInv, ScanInv, EmptyText, At, InScan, Building, Fetching
<1>2. pc' = [pc EXCEPT ![t] = "idle"] /\ answer' = [answer EXCEPT ![t] = Obj(t)]
  BY DEF EmptyText, Goto, Answer
<1>3. /\ statusMap' = statusMap /\ scanMap' = [scanMap EXCEPT ![t] = Nobody]
      /\ scanMap[t] = call[t] /\ scanMap[t] # Nobody
      /\ Obj(t) \in Objects /\ statusMap[Obj(t)] = Status(Obj(t)) /\ made[Obj(t)] = "made"
  BY <1>1, <1>2, ScanEnds DEF Continue
<1>4. Service!Report(t)
  BY <1>1, <1>2, <1>3 DEF Service!Report, Service!Finish, statusMap, scanMap, Obj
<1> QED BY <1>4 DEF Service!Next

\* A scan ends with the string it decoded: its own scanner's report, or an
\* exception it can account for.
LEMMA TakeFreesStep ==
  ASSUME IInv, NEW t \in Threads, TakeFrees(t), made[Obj(t)] # "failed"
  PROVE  Service!Next
<1> DEFINE a == IF value[t].kind = "report" THEN value[t].of ELSE "raised"
<1>1. InScan(t) /\ pc[t] = "free" /\ UNCHANGED objVars
  BY DEF IInv, CallInv, TakeFrees, At, InScan, Building
<1>2. pc' = [pc EXCEPT ![t] = "idle"] /\ answer' = [answer EXCEPT ![t] = a]
  BY DEF TakeFrees, Goto, Answer
<1>3. /\ statusMap' = statusMap /\ scanMap' = [scanMap EXCEPT ![t] = Nobody]
      /\ scanMap[t] = call[t] /\ scanMap[t] # Nobody
      /\ Obj(t) \in Objects /\ statusMap[Obj(t)] = Status(Obj(t)) /\ made[Obj(t)] = "made"
  <2> HIDE DEF a
  <2> QED BY <1>1, <1>2, ScanEnds DEF Continue
<1>4. Justified(t, value[t])
  BY <1>1 DEF IInv, ScanInv
<1>5. CASE value[t].kind = "report"
  <2>1. a = scanMap[t].obj /\ scanMap[t].open /\ scanMap[t].text # "breaks"
    BY <1>3, <1>4, <1>5 DEF Justified, MayReport, Obj
  <2>2. statusMap[scanMap[t].obj] # "dead"
    BY <1>3, <1>4, <1>5, StatusFacts DEF IInv, Justified, MayReport, Obj
  <2>3. Service!Report(t)
    <3> HIDE DEF a
    <3> QED BY <1>2, <1>3, <2>1, <2>2 DEF Service!Report, Service!Finish, statusMap, scanMap
  <2> QED BY <2>3 DEF Service!Next
<1>6. CASE value[t].kind # "report"
  <2>1. /\ scanMap[t].text = "breaks" \/ statusMap[scanMap[t].obj] \in {"dead", "closed"}
        /\ scanMap[t].text # "empty"
    BY <1>1, <1>3, <1>4, <1>6, StatusFacts DEF IInv, ScanInv, Justified, MayRaise, Obj
  <2>2. Service!Raise(t)
    BY <1>2, <1>3, <1>6, <2>1 DEF Service!Raise, Service!Finish, statusMap, scanMap
  <2> QED BY <2>2 DEF Service!Next
<1> QED BY <1>5, <1>6

\* A call begins: of these steps the service sees that of a scan.
LEMMA BeginStep ==
  ASSUME IInv, NEW t \in Threads, NEW o \in Objects,
         BeginNew(t, o) \/ BeginScan(t, o) \/ BeginCount(t, o) \/ BeginClose(t, o)
  PROVE  Service!Next \/ UNCHANGED <<statusMap, scanMap, answer>>
<1>1. PICK b \in Texts, entry \in {"new", "scan", "count", "close"} :
         /\ Begin(t, o, b, entry)
         /\ IF entry = "new" THEN made[o] = "absent" /\ made' = [made EXCEPT ![o] = "making"]
                             ELSE made[o] = "made" /\ made' = made
         /\ answer' = IF entry = "scan" THEN [answer EXCEPT ![t] = Nobody] ELSE answer
         /\ UNCHANGED <<handle, closed>>
  BY DEF BeginNew, BeginScan, BeginCount, BeginClose, Texts, objVars
<1>2. /\ pc[t] = "idle" /\ pc' = [pc EXCEPT ![t] = entry]
      /\ call' = [call EXCEPT ![t] = [obj |-> o, text |-> b, open |-> ~closed[o]]]
      /\ call'[t].obj = o
  <2>1. entry \in PCs /\ TypeOK
    BY DEF PCs, IInv
  <2> QED BY <1>1, <2>1, BeginFacts
<1>3. \A p \in Objects : Status(p)' = Status(p)
  BY <1>1 DEF IInv, TypeOK, Status
<1>4. \A p \in Objects : made[p] \in {"made", "failed"} => made'[p] = made[p]
  BY <1>1 DEF IInv, TypeOK
<1>5. ASSUME NEW u \in Threads \ {t} PROVE ScanOf(u)' = ScanOf(u)
  <2>1. pc'[u] = pc[u] /\ call'[u] = call[u]
    BY <1>2
  <2> QED BY <1>4, <2>1, OtherScans
<1>6. ScanOf(t) = Nobody
  BY <1>2 DEF ScanOf, InScan
<1>7. CASE entry # "scan"
  <2>1. ScanOf(t)' = Nobody
    BY <1>2, <1>7 DEF ScanOf, InScan
  <2>2. \A u \in Threads : ScanOf(u)' = ScanOf(u)
    BY <1>5, <1>6, <2>1
  <2> QED BY <1>1, <1>3, <1>7, <2>2, Stutters
<1>8. CASE entry = "scan"
  <2>1. made'[o] = "made" /\ made[o] = "made"
    BY <1>1, <1>8
  <2>2. ScanOf(t)' = [obj |-> o, text |-> b, open |-> ~closed[o]]
    BY <1>2, <1>8, <2>1 DEF IInv, TypeOK, ScanOf, InScan, Obj
  <2>3. Status(o) # "absent" /\ (~closed[o]) = (Status(o) # "closed")
    BY <2>1, StatusFacts DEF IInv
  <2>4. /\ scanMap[t] = Nobody
        /\ scanMap' = [scanMap EXCEPT ![t] =
                         [obj |-> o, text |-> b, open |-> ~closed[o]]]
    BY <1>5, <1>6, <2>2 DEF scanMap
  <2>5. statusMap' = statusMap /\ statusMap[o] = Status(o)
    BY <1>3 DEF statusMap
  <2>6. [obj |-> o, text |-> b, open |-> ~closed[o]]
          = [obj |-> o, text |-> b, open |-> statusMap[o] # "closed"]
    BY <2>3, <2>5
  <2>7. Service!Begin(t, o)
    BY <1>1, <1>8, <2>3, <2>4, <2>5, <2>6 DEF Service!Begin, Service!Texts, Texts, statusMap, scanMap
  <2> QED BY <2>7 DEF Service!Next
<1> QED BY <1>7, <1>8

\* The bridge implements the service: however the threads interleave, a scan
\* answers with its own scanner's report or raises for a reason its caller can
\* know.
THEOREM BridgeImplementsService == Spec => ImplementsService
<1>1. IInv /\ IInv' /\ [Next]_vars => [Service!Next]_(Service!vars)
  <2> SUFFICES ASSUME IInv, IInv', [Next]_vars
               PROVE  Service!Next \/ UNCHANGED <<statusMap, scanMap, answer>>
    BY DEF Service!vars, statusMap, scanMap
  <2>1. ASSUME NEW t \in Threads, Continue(t)
        PROVE  Service!Next \/ UNCHANGED <<statusMap, scanMap, answer>>
    BY <2>1, HiddenSteps, NewReturnsStep, CloseFirstStep, EnsureOpenRaisesStep,
       EmptyTextStep, TakeFreesStep
  <2>2. ASSUME NEW t \in Threads, NEW o \in Objects,
               BeginNew(t, o) \/ BeginScan(t, o) \/ BeginCount(t, o) \/ BeginClose(t, o)
        PROVE  Service!Next \/ UNCHANGED <<statusMap, scanMap, answer>>
    BY <2>2, BeginStep
  <2>3. CASE UNCHANGED vars
    <3>1. \A o \in Objects : Status(o)' = Status(o)
      BY <2>3 DEF vars, objVars, Status
    <3>2. (\A t \in Threads : ScanOf(t)' = ScanOf(t)) /\ answer' = answer
      BY <2>3 DEF vars, objVars, callVars, ScanOf, InScan, Obj
    <3> QED BY <3>1, <3>2, Stutters
  <2> QED BY <2>1, <2>2, <2>3 DEF Next
<1> QED BY <1>1, ServiceInit, Inductive, PTL DEF Spec, ImplementsService, Service!Spec

=============================================================================

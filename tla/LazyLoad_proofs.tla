--------------------------- MODULE LazyLoad_proofs ---------------------------
(***************************************************************************)
(* Proofs about LazyLoad, for any number of threads, requests, options and *)
(* calls: one scanner for each configuration, the host's descriptors left  *)
(* alone, and the descriptors Go has bound open once it is initialised.    *)
(***************************************************************************)
EXTENDS LazyLoad, FiniteSetTheorems, TLAPS

-----------------------------------------------------------------------------
(* The cache.                                                              *)

\* The threads that are past the lock of the cache, to construct a scanner.
LoadPCs == {"check", "open", "dup", "close", "dlopen", "init"}
Constructing(t) == asked[t] # Nobody /\ pc[t] \in LoadPCs \cup {"attr", "bind", "use"}

\* A thread that constructs for the cache holds its lock, and nobody stored its
\* key meanwhile.
LockInv ==
    /\ lock \in Threads \cup {Nobody}
    /\ pc \in [Threads -> PCs] /\ asked \in [Threads -> Requests \cup {Nobody}]
    /\ \A t \in Threads :
          /\ pc[t] \in {"read", "lock", "locked"} => asked[t] # Nobody
          /\ pc[t] = "locked" \/ Constructing(t) => lock = t
          /\ Constructing(t) => cache[KeyOf(asked[t])] = 0

Stored == {k \in Keys : cache[k] # 0}
Configs == {ConfigOf(r) : r \in Requests}

\* The cache numbers the scanners constructed for it, one for each key, each with
\* the configuration of every request with that key; answers come from it.
CacheInv ==
    /\ built \in Seq(Configs)
    /\ cache \in [Keys -> 0 .. Len(built)]
    /\ \A k, l \in Stored : cache[k] = cache[l] => k = l
    /\ \A r \in Requests : KeyOf(r) \in Stored => built[cache[KeyOf(r)]] = ConfigOf(r)
    /\ IsFiniteSet(Stored) /\ Len(built) = Cardinality(Stored)
    /\ answers \subseteq Requests \X (1 .. Len(built))
    /\ \A a \in answers : cache[KeyOf(a[1])] = a[2]

\* Every scanner was constructed in a call of its own.
Active == {t \in Threads : pc[t] # "idle"}
CallsInv ==
    /\ calls \in 0 .. MaxCalls
    /\ Len(built) + Cardinality(Active) <= calls

CInv == LockInv /\ CacheInv /\ CallsInv

\* Keys tell configurations apart: Freeze forgets whether a sequence is a list
\* or a tuple, and a configuration does not depend on that.
LEMMA SameKeySameConfig ==
  ASSUME NEW a \in Requests, NEW b \in Requests, KeyOf(a) = KeyOf(b)
  PROVE  ConfigOf(a) = ConfigOf(b)
<1>1. \A r \in Requests, o \in Options :
         /\ Freeze(Kwargs[r][o]).items = Kwargs[r][o].items
         /\ Kwargs[r][o] # None <=> Kwargs[r][o].kind # "none"
  <2> SUFFICES ASSUME NEW r \in Requests, NEW o \in Options
               PROVE  /\ Freeze(Kwargs[r][o]).items = Kwargs[r][o].items
                      /\ Kwargs[r][o] # None <=> Kwargs[r][o].kind # "none"
    OBVIOUS
  <2>1. PICK v : v = Kwargs[r][o]
    OBVIOUS
  <2>2. v = [kind |-> v.kind, items |-> v.items] /\ (v.kind = "none" => v = None)
    BY <2>1, KwargsAssumption
  <2>3. Freeze(v).items = v.items
    BY <2>2 DEF Freeze
  <2>4. v # None <=> v.kind # "none"
    BY <2>2 DEF None
  <2> QED BY <2>1, <2>3, <2>4
<1>2. ASSUME NEW o \in Options, NEW c \in Requests, NEW d \in Requests, KeyOf(c) = KeyOf(d),
             Kwargs[c][o] # None
      PROVE  Kwargs[d][o] # None /\ Kwargs[d][o].items = Kwargs[c][o].items
  <2>1. <<o, Freeze(Kwargs[c][o])>> \in KeyOf(c)
    BY <1>2 DEF KeyOf, InKey
  <2>2. <<o, Freeze(Kwargs[c][o])>> \in KeyOf(d)
    BY <1>2, <2>1
  <2>3. PICK p \in Options : /\ Kwargs[d][p] # None
                             /\ <<o, Freeze(Kwargs[c][o])>> = <<p, Freeze(Kwargs[d][p])>>
    BY <2>2 DEF KeyOf, InKey
  <2>4. p = o /\ Freeze(Kwargs[c][o]) = Freeze(Kwargs[d][o])
    BY <2>3
  <2> QED BY <1>1, <2>3, <2>4
<1>3. \A o \in Options : /\ Given(a, o) <=> Given(b, o)
                         /\ Given(a, o) => Kwargs[a][o].items = Kwargs[b][o].items
  BY <1>2 DEF Given, Truthy
<1>4. {o \in Options : Given(a, o)} = {o \in Options : Given(b, o)}
  BY <1>3
<1> QED BY <1>3, <1>4 DEF ConfigOf

\* The threads inside a call, counted.
LEMMA ActiveIsFinite ==
  ASSUME NEW A \in SUBSET Threads
  PROVE  IsFiniteSet(A) /\ Cardinality(A) \in Nat
BY SizesAssumption, FS_Subset, FS_CardinalityType

\* A thread that leaves its call, one that enters one, and one that does neither.
LEMMA ActiveChanges ==
  ASSUME NEW t \in Threads, pc \in [Threads -> PCs], NEW to \in PCs, pc' = [pc EXCEPT ![t] = to]
  PROVE  /\ Cardinality(Active) \in Nat /\ Cardinality(Active') \in Nat
         /\ pc[t] # "idle" /\ to = "idle" => Cardinality(Active') = Cardinality(Active) - 1
         /\ pc[t] = "idle" /\ to # "idle" => Cardinality(Active') = Cardinality(Active) + 1
         /\ pc[t] # "idle" /\ to # "idle" => Cardinality(Active') = Cardinality(Active)
<1>1. Active \in SUBSET Threads /\ Active' \in SUBSET Threads
  BY DEF Active
<1>2. /\ IsFiniteSet(Active) /\ Cardinality(Active) \in Nat
      /\ IsFiniteSet(Active') /\ Cardinality(Active') \in Nat
  BY <1>1, ActiveIsFinite
<1>3. ASSUME pc[t] # "idle", to = "idle"
      PROVE  Cardinality(Active') = Cardinality(Active) - 1
  <2>1. t \in Active /\ Active' = Active \ {t}
    BY <1>3 DEF Active
  <2> QED BY <1>2, <2>1, FS_RemoveElement
<1>4. ASSUME pc[t] = "idle", to # "idle"
      PROVE  Cardinality(Active') = Cardinality(Active) + 1
  <2>1. t \notin Active /\ Active' = Active \cup {t}
    BY <1>4 DEF Active
  <2> QED BY <1>2, <2>1, FS_AddElement
<1>5. ASSUME pc[t] # "idle", to # "idle"
      PROVE  Active' = Active
  BY <1>5 DEF Active
<1> QED BY <1>2, <1>3, <1>4, <1>5

\* Nothing is cached and no thread is in a call.
LEMMA CInit == Init => CInv
<1> SUFFICES ASSUME Init PROVE CInv
  OBVIOUS
<1>1. /\ lock = Nobody /\ built = <<>> /\ calls = 0 /\ answers = {}
      /\ cache = [k \in Keys |-> 0]
      /\ pc = [t \in Threads |-> "idle"] /\ asked = [t \in Threads |-> Nobody]
  BY DEF Init
<1>2. LockInv
  BY <1>1 DEF LockInv, Constructing, PCs, LoadPCs
<1>3. Stored = {} /\ Active = {}
  BY <1>1 DEF Stored, Active
<1>4. CacheInv
  <2>1. built \in Seq(Configs) /\ Len(built) = 0
    BY <1>1
  <2>2. cache \in [Keys -> 0 .. Len(built)]
    BY <1>1, <2>1
  <2> QED BY <1>1, <1>3, <2>1, <2>2, FS_EmptySet DEF CacheInv
<1>5. CallsInv
  BY <1>1, <1>3, FS_EmptySet, SizesAssumption DEF CallsInv
<1> QED BY <1>2, <1>4, <1>5 DEF CInv

\* A step that neither stores nor answers.
LEMMA CacheKept ==
  ASSUME CacheInv, UNCHANGED <<cache, built, answers>>
  PROVE  CacheInv'
<1>1. Stored' = Stored
  BY DEF Stored
<1> QED BY <1>1 DEF CacheInv

\* The thread answers with the scanner its key has.
LEMMA CacheAnswers ==
  ASSUME CacheInv, NEW r \in Requests, cache[KeyOf(r)] # 0, UNCHANGED <<cache, built>>,
         answers' = answers \cup {<<r, cache[KeyOf(r)]>>}
  PROVE  CacheInv'
<1>1. Stored' = Stored
  BY DEF Stored
<1>2. KeyOf(r) \in Keys
  BY DEF Keys
<1>3. cache[KeyOf(r)] \in 1 .. Len(built)
  <2>1. Len(built) \in Nat /\ cache[KeyOf(r)] \in 0 .. Len(built)
    BY <1>2 DEF CacheInv
  <2> QED BY <2>1
<1>4. answers' \subseteq Requests \X (1 .. Len(built))
  BY <1>3 DEF CacheInv
<1>5. \A a \in answers' : cache[KeyOf(a[1])] = a[2]
  BY DEF CacheInv
<1> QED BY <1>1, <1>4, <1>5 DEF CacheInv

\* The thread stores a new scanner under a key that had none.
LEMMA CacheStores ==
  ASSUME CacheInv, NEW r \in Requests, cache[KeyOf(r)] = 0,
         built' = Append(built, ConfigOf(r)),
         cache' = [cache EXCEPT ![KeyOf(r)] = Len(built')],
         answers' = answers \cup {<<r, Len(built')>>}
  PROVE  CacheInv' /\ Len(built') = Len(built) + 1
<1> DEFINE n == Len(built)
           key == KeyOf(r)
<1>1. key \in Keys /\ ConfigOf(r) \in Configs /\ key \notin Stored
  BY DEF Keys, Configs, Stored
<1>2. n \in Nat /\ built \in Seq(Configs) /\ cache \in [Keys -> 0 .. n]
  BY DEF CacheInv
<1>3. /\ built' \in Seq(Configs) /\ Len(built') = n + 1
      /\ built'[n + 1] = ConfigOf(r) /\ \A i \in 1 .. n : built'[i] = built[i]
  BY <1>1, <1>2
<1> HIDE DEF n, key
<1>4. cache' = [cache EXCEPT ![key] = n + 1] /\ answers' = answers \cup {<<r, n + 1>>}
  BY <1>3 DEF key
<1>5. \A k \in Keys : cache'[k] = IF k = key THEN n + 1 ELSE cache[k]
  BY <1>2, <1>4
<1>6. cache' \in [Keys -> 0 .. Len(built')]
  <2>1. \A k \in Keys : cache[k] \in 0 .. n + 1
    BY <1>2
  <2>2. n + 1 \in 0 .. n + 1
    BY <1>2
  <2>3. cache' \in [Keys -> 0 .. n + 1]
    BY <1>2, <1>4, <2>1, <2>2
  <2> QED BY <1>3, <2>3
<1>7. Stored' = Stored \cup {key}
  BY <1>1, <1>2, <1>5 DEF Stored
<1>8. \A k \in Stored : k \in Keys /\ k # key /\ cache'[k] = cache[k] /\ cache[k] \in 1 .. n
  BY <1>1, <1>2, <1>5 DEF Stored
<1>9. \A k, l \in Stored' : cache'[k] = cache'[l] => k = l
  <2>1. \A k, l \in Stored : cache[k] = cache[l] => k = l
    BY DEF CacheInv
  <2>2. \A k \in Stored : cache'[k] # n + 1
    BY <1>2, <1>8
  <2>3. cache'[key] = n + 1
    BY <1>1, <1>5
  <2> QED BY <1>7, <1>8, <2>1, <2>2, <2>3
<1>10. ASSUME NEW q \in Requests, KeyOf(q) \in Stored'
       PROVE  built'[cache'[KeyOf(q)]] = ConfigOf(q)
  <2>1. CASE KeyOf(q) = key
    <3>1. ConfigOf(q) = ConfigOf(r)
      BY <2>1, SameKeySameConfig DEF key
    <3> QED BY <1>1, <1>3, <1>5, <2>1, <3>1
  <2>2. CASE KeyOf(q) # key
    <3>1. KeyOf(q) \in Stored
      BY <1>7, <1>10, <2>2
    <3>2. built[cache[KeyOf(q)]] = ConfigOf(q)
      BY <3>1 DEF CacheInv
    <3> QED BY <1>3, <1>8, <3>1, <3>2
  <2> QED BY <2>1, <2>2
<1>11. IsFiniteSet(Stored') /\ Cardinality(Stored') = n + 1
  <2>1. IsFiniteSet(Stored) /\ Cardinality(Stored) = n
    BY DEF CacheInv, n
  <2> QED BY <1>1, <1>7, <2>1, FS_AddElement
<1>12. answers' \subseteq Requests \X (1 .. Len(built'))
  <2>1. answers \subseteq Requests \X (1 .. n)
    BY DEF CacheInv, n
  <2>2. 1 .. n \subseteq 1 .. n + 1 /\ n + 1 \in 1 .. n + 1
    BY <1>2
  <2> QED BY <1>3, <1>4, <2>1, <2>2
<1>13. ASSUME NEW a \in answers'
       PROVE  cache'[KeyOf(a[1])] = a[2]
  <2>1. CASE a = <<r, n + 1>>
    BY <1>1, <1>5, <2>1 DEF key
  <2>2. CASE a \in answers
    <3>1. cache[KeyOf(a[1])] = a[2] /\ a[2] \in 1 .. n /\ a[1] \in Requests
      BY <2>2 DEF CacheInv, n
    <3>2. KeyOf(a[1]) \in Stored
      BY <1>2, <3>1 DEF Stored, Keys
    <3> QED BY <1>8, <3>1, <3>2
  <2> QED BY <1>4, <2>1, <2>2
<1> QED BY <1>3, <1>6, <1>9, <1>10, <1>11, <1>12, <1>13 DEF CacheInv, n

\* A thread inside a call moves on without touching the cache.
LEMMA ThreadMoves ==
  ASSUME CInv, NEW t \in Threads, NEW to \in PCs, pc[t] # "idle", pc' = [pc EXCEPT ![t] = to],
         UNCHANGED <<asked, cache, built, answers, calls>>,
         lock' = lock \/ (lock = Nobody /\ lock' = t) \/ (lock = t /\ lock' = Nobody),
         to \in {"read", "lock", "locked"} => asked[t] # Nobody,
         asked[t] # Nobody /\ to \in LoadPCs \cup {"attr", "bind", "use"} =>
            Constructing(t) \/ (pc[t] = "locked" /\ cache[KeyOf(asked[t])] = 0),
         to = "locked" \/ (asked[t] # Nobody /\ to \in LoadPCs \cup {"attr", "bind", "use"})
            => lock' = t
  PROVE  CInv'
<1>1. /\ pc \in [Threads -> PCs] /\ lock \in Threads \cup {Nobody}
      /\ asked \in [Threads -> Requests \cup {Nobody}]
  BY DEF CInv, LockInv
<1>2. CacheInv'
  BY CacheKept DEF CInv
<1>3. CallsInv'
  <2>1. /\ Cardinality(Active) \in Nat /\ Cardinality(Active') \in Nat
        /\ Cardinality(Active') <= Cardinality(Active)
    <3>1. /\ Cardinality(Active) \in Nat /\ Cardinality(Active') \in Nat
          /\ to = "idle" => Cardinality(Active') = Cardinality(Active) - 1
          /\ to # "idle" => Cardinality(Active') = Cardinality(Active)
      BY <1>1, ActiveChanges
    <3> QED BY <3>1
  <2>2. Len(built) \in Nat /\ calls \in Nat /\ Len(built) + Cardinality(Active) <= calls
    BY SizesAssumption DEF CInv, CacheInv, CallsInv
  <2>3. Len(built) + Cardinality(Active') <= calls
    BY <2>1, <2>2
  <2> QED BY <2>3 DEF CInv, CallsInv
<1>4. LockInv'
  <2>1. pc' \in [Threads -> PCs] /\ lock' \in Threads \cup {Nobody}
    BY <1>1
  <2>2. ASSUME NEW u \in Threads
        PROVE  /\ pc'[u] \in {"read", "lock", "locked"} => asked'[u] # Nobody
               /\ pc'[u] = "locked" \/ Constructing(u)' => lock' = u
               /\ Constructing(u)' => cache'[KeyOf(asked'[u])] = 0
    <3>1. CASE u # t
      <4>1. pc'[u] = pc[u] /\ asked' = asked /\ cache' = cache
        BY <1>1, <3>1
      <4>2. Constructing(u)' <=> Constructing(u)
        BY <4>1 DEF Constructing
      <4>3. /\ pc[u] \in {"read", "lock", "locked"} => asked[u] # Nobody
            /\ pc[u] = "locked" \/ Constructing(u) => lock = u
            /\ Constructing(u) => cache[KeyOf(asked[u])] = 0
        BY DEF CInv, LockInv
      <4>4. lock = u => lock' = u
        BY <3>1, NobodyAssumption
      <4> QED BY <4>1, <4>2, <4>3, <4>4
    <3>2. CASE u = t
      <4>1. pc'[u] = to /\ asked' = asked /\ cache' = cache
        BY <1>1, <3>2
      <4>2. Constructing(u)' <=> asked[t] # Nobody /\ to \in LoadPCs \cup {"attr", "bind", "use"}
        BY <3>2, <4>1 DEF Constructing
      <4>3. Constructing(t) => cache[KeyOf(asked[t])] = 0
        BY DEF CInv, LockInv
      <4> QED BY <3>2, <4>1, <4>2, <4>3
    <3> QED BY <3>1, <3>2
  <2>3. asked' \in [Threads -> Requests \cup {Nobody}]
    BY <1>1
  <2> QED BY <2>1, <2>2, <2>3 DEF LockInv
<1> QED BY <1>2, <1>3, <1>4 DEF CInv

\* A call begins.
LEMMA CallBegins ==
  ASSUME CInv, NEW t \in Threads, NEW r \in Requests \cup {Nobody}, NEW entry \in {"read", "attr"},
         Call(t, r, entry), entry = "read" => r # Nobody, entry = "attr" => r = Nobody
  PROVE  CInv'
<1>1. /\ pc[t] = "idle" /\ calls < MaxCalls /\ calls' = calls + 1
      /\ asked' = [asked EXCEPT ![t] = r] /\ pc' = [pc EXCEPT ![t] = entry]
      /\ UNCHANGED <<cache, built, answers, lock>>
  BY DEF Call, At, Goto, shared
<1>2. /\ pc \in [Threads -> PCs] /\ lock \in Threads \cup {Nobody}
      /\ asked \in [Threads -> Requests \cup {Nobody}]
  BY DEF CInv, LockInv
<1>3. CacheInv'
  BY <1>1, CacheKept DEF CInv
<1>4. CallsInv'
  <2>1. entry \in PCs /\ entry # "idle"
    BY DEF PCs
  <2>2. Cardinality(Active') = Cardinality(Active) + 1 /\ Cardinality(Active) \in Nat
    BY <1>1, <1>2, <2>1, ActiveChanges
  <2>3. Len(built) \in Nat /\ calls \in Nat /\ Len(built) + Cardinality(Active) <= calls
    BY SizesAssumption DEF CInv, CacheInv, CallsInv
  <2>4. calls' \in 0 .. MaxCalls /\ Len(built') + Cardinality(Active') <= calls'
    BY <1>1, <2>2, <2>3, SizesAssumption
  <2> QED BY <2>4 DEF CallsInv
<1>5. LockInv'
  <2>1. pc' \in [Threads -> PCs] /\ asked' \in [Threads -> Requests \cup {Nobody}]
    BY <1>1, <1>2 DEF PCs
  <2>2. ASSUME NEW u \in Threads
        PROVE  /\ pc'[u] \in {"read", "lock", "locked"} => asked'[u] # Nobody
               /\ pc'[u] = "locked" \/ Constructing(u)' => lock' = u
               /\ Constructing(u)' => cache'[KeyOf(asked'[u])] = 0
    <3>1. CASE u # t
      <4>1. pc'[u] = pc[u] /\ asked'[u] = asked[u] /\ cache' = cache /\ lock' = lock
        BY <1>1, <1>2, <3>1
      <4>2. Constructing(u)' <=> Constructing(u)
        BY <4>1 DEF Constructing
      <4> QED BY <4>1, <4>2 DEF CInv, LockInv
    <3>2. CASE u = t
      BY <1>1, <1>2, <3>2 DEF Constructing, LoadPCs
    <3> QED BY <3>1, <3>2
  <2> QED BY <1>1, <1>2, <2>1, <2>2 DEF LockInv
<1> QED BY <1>3, <1>4, <1>5 DEF CInv

\* A thread that answers from the cache leaves its call, and the lock if it has it.
LEMMA CallAnswers ==
  ASSUME CInv, NEW t \in Threads, pc[t] # "idle", asked[t] # Nobody, Cached(t) # 0,
         Answer(t, Cached(t)), Goto(t, "idle"), lock' = lock \/ (lock = t /\ lock' = Nobody),
         UNCHANGED <<cache, built, asked, calls>>
  PROVE  CInv'
<1>1. /\ pc \in [Threads -> PCs] /\ lock \in Threads \cup {Nobody}
      /\ asked \in [Threads -> Requests \cup {Nobody}] /\ pc' = [pc EXCEPT ![t] = "idle"]
      /\ asked[t] \in Requests
  BY DEF CInv, LockInv, Goto
<1>2. CacheInv'
  BY <1>1, CacheAnswers DEF CInv, Cached, Answer
<1>3. CallsInv'
  <2>1. "idle" \in PCs
    BY DEF PCs
  <2>2. Cardinality(Active') = Cardinality(Active) - 1 /\ Cardinality(Active) \in Nat
    BY <1>1, <2>1, ActiveChanges
  <2>3. Len(built) \in Nat /\ calls \in Nat /\ Len(built) + Cardinality(Active) <= calls
    BY SizesAssumption DEF CInv, CacheInv, CallsInv
  <2>4. Len(built) + Cardinality(Active') <= calls
    BY <2>2, <2>3
  <2> QED BY <2>4 DEF CInv, CallsInv
<1>4. LockInv'
  <2>1. pc' \in [Threads -> PCs] /\ lock' \in Threads \cup {Nobody}
    BY <1>1 DEF PCs
  <2>2. ASSUME NEW u \in Threads
        PROVE  /\ pc'[u] \in {"read", "lock", "locked"} => asked'[u] # Nobody
               /\ pc'[u] = "locked" \/ Constructing(u)' => lock' = u
               /\ Constructing(u)' => cache'[KeyOf(asked'[u])] = 0
    <3>1. CASE u # t
      <4>1. pc'[u] = pc[u] /\ asked' = asked /\ cache' = cache /\ (lock = u => lock' = u)
        BY <1>1, <3>1
      <4>2. Constructing(u)' <=> Constructing(u)
        BY <4>1 DEF Constructing
      <4> QED BY <4>1, <4>2 DEF CInv, LockInv
    <3>2. CASE u = t
      BY <1>1, <3>2 DEF Constructing, LoadPCs
    <3> QED BY <3>1, <3>2
  <2> QED BY <1>1, <2>1, <2>2 DEF LockInv
<1> QED BY <1>2, <1>3, <1>4 DEF CInv

\* A constructed scanner is stored and the lock is left; no other thread was
\* constructing for the cache.
LEMMA CallStores ==
  ASSUME CInv, NEW t \in Threads, Store(t)
  PROVE  CInv'
<1>1. /\ pc[t] = "use" /\ asked[t] # Nobody /\ pc' = [pc EXCEPT ![t] = "idle"]
      /\ built' = Append(built, ConfigOf(asked[t]))
      /\ cache' = [cache EXCEPT ![KeyOf(asked[t])] = Len(built')]
      /\ answers' = answers \cup {<<asked[t], Len(built')>>}
      /\ lock' = Nobody /\ asked' = asked /\ calls' = calls
  BY DEF Store, At, Goto, Answer, locals
<1>2. /\ pc \in [Threads -> PCs] /\ lock \in Threads \cup {Nobody}
      /\ asked \in [Threads -> Requests \cup {Nobody}] /\ asked[t] \in Requests
  BY <1>1 DEF CInv, LockInv
<1>3. Constructing(t) /\ lock = t /\ cache[KeyOf(asked[t])] = 0
  BY <1>1 DEF CInv, LockInv, Constructing
<1>4. CacheInv' /\ Len(built') = Len(built) + 1
  <2>1. CacheInv
    BY DEF CInv
  <2> QED BY <1>1, <1>2, <1>3, <2>1, CacheStores
<1>5. CallsInv'
  <2>1. "idle" \in PCs
    BY DEF PCs
  <2>2. Cardinality(Active') = Cardinality(Active) - 1 /\ Cardinality(Active) \in Nat
    BY <1>1, <1>2, <2>1, ActiveChanges
  <2>3. Len(built) \in Nat /\ calls \in Nat /\ Len(built) + Cardinality(Active) <= calls
    BY SizesAssumption DEF CInv, CacheInv, CallsInv
  <2>4. Len(built') + Cardinality(Active') <= calls
    BY <1>4, <2>2, <2>3
  <2> QED BY <1>1, <2>4 DEF CInv, CallsInv
<1>6. LockInv'
  <2>1. pc' \in [Threads -> PCs] /\ lock' \in Threads \cup {Nobody}
    BY <1>1, <1>2 DEF PCs
  <2>2. ASSUME NEW u \in Threads
        PROVE  /\ pc'[u] \in {"read", "lock", "locked"} => asked'[u] # Nobody
               /\ pc'[u] # "locked" /\ ~Constructing(u)'
    <3>1. CASE u # t
      <4>1. pc'[u] = pc[u] /\ asked' = asked
        BY <1>1, <1>2, <3>1
      <4>2. Constructing(u)' <=> Constructing(u)
        BY <4>1 DEF Constructing
      <4>3. pc[u] # "locked" /\ ~Constructing(u)
        BY <1>3, <3>1 DEF CInv, LockInv
      <4> QED BY <4>1, <4>2, <4>3 DEF CInv, LockInv
    <3>2. CASE u = t
      BY <1>1, <1>2, <3>2 DEF Constructing, LoadPCs
    <3> QED BY <3>1, <3>2
  <2> QED BY <1>1, <1>2, <2>1, <2>2 DEF LockInv
<1> QED BY <1>4, <1>5, <1>6 DEF CInv

\* Every step keeps the invariant of the cache.
LEMMA CStep == CInv /\ [Next]_vars => CInv'
<1> SUFFICES ASSUME CInv, [Next]_vars PROVE CInv'
  OBVIOUS
<1>1. CASE UNCHANGED vars
  <2>1. UNCHANGED <<pc, asked, lock, cache, built, answers, calls>>
    BY <1>1 DEF vars, shared, locals
  <2>2. \A u : Constructing(u)' <=> Constructing(u)
    BY <2>1 DEF Constructing
  <2>3. LockInv'
    BY <2>1, <2>2 DEF CInv, LockInv
  <2>4. CacheInv' /\ CallsInv'
    BY <2>1, CacheKept DEF CInv, CallsInv, Active
  <2> QED BY <2>3, <2>4 DEF CInv
<1>2. ASSUME NEW t \in Threads, UseDirectly(t) \/ \E r \in Requests : GetScanner(t, r)
      PROVE  CInv'
  <2>1. CASE UseDirectly(t)
    BY <2>1, CallBegins DEF UseDirectly
  <2>2. ASSUME NEW r \in Requests, GetScanner(t, r)
        PROVE  CInv'
    BY <2>2, CallBegins, NobodyAssumption DEF GetScanner
  <2> QED BY <1>2, <2>1, <2>2
<1>3. ASSUME NEW t \in Threads, Continue(t)
      PROVE  CInv'
  <2>a. /\ pc \in [Threads -> PCs] /\ lock \in Threads \cup {Nobody}
        /\ asked \in [Threads -> Requests \cup {Nobody}]
        /\ pc[t] \in {"read", "lock", "locked"} => asked[t] # Nobody
        /\ pc[t] = "locked" \/ Constructing(t) => lock = t
    BY DEF CInv, LockInv
  <2>1. CASE CacheHit(t)
    <3>1. /\ pc[t] = "read" /\ asked[t] # Nobody /\ Cached(t) # 0 /\ Answer(t, Cached(t))
          /\ Goto(t, "idle") /\ lock' = lock /\ UNCHANGED <<cache, built, asked, calls>>
      BY <2>a, <2>1 DEF CacheHit, At, shared, locals
    <3> QED BY <3>1, CallAnswers
  <2>2. CASE HitUnderLock(t)
    <3>1. /\ pc[t] = "locked" /\ asked[t] # Nobody /\ Cached(t) # 0 /\ Answer(t, Cached(t))
          /\ Goto(t, "idle") /\ lock = t /\ lock' = Nobody /\ UNCHANGED <<cache, built, asked, calls>>
      BY <2>a, <2>2 DEF HitUnderLock, StillMissing, At, locals
    <3> QED BY <3>1, CallAnswers
  <2>3. CASE Store(t)
    BY <2>3, CallStores
  <2>4. CASE CacheMiss(t) \/ TakeLock(t)
    <3>1. /\ UNCHANGED <<asked, cache, built, answers, calls>> /\ asked[t] # Nobody
          /\ pc[t] # "idle"
          /\ \/ pc' = [pc EXCEPT ![t] = "lock"] /\ lock' = lock
             \/ pc' = [pc EXCEPT ![t] = "locked"] /\ lock = Nobody /\ lock' = t
      BY <2>a, <2>4 DEF CacheMiss, TakeLock, At, Goto, shared, locals
    <3>2. "lock" \in PCs /\ "locked" \in PCs
      BY DEF PCs
    <3> QED BY <3>1, <3>2, ThreadMoves DEF LoadPCs
  <2>5. CASE ConstructUnderLock(t)
    <3>1. /\ UNCHANGED <<asked, cache, built, answers, calls, lock>> /\ pc[t] = "locked" /\ lock = t
          /\ pc' = [pc EXCEPT ![t] = "attr"] /\ cache[KeyOf(asked[t])] = 0
      BY <2>a, <2>5 DEF ConstructUnderLock, StillMissing, Cached, At, Goto, shared, locals
    <3>2. "attr" \in PCs
      BY DEF PCs
    <3> QED BY <3>1, <3>2, ThreadMoves
  <2>6. CASE ConstructionRaises(t) \/ LibraryMissing(t) \/ DlopenFails(t)
    <3>1. /\ UNCHANGED <<asked, cache, built, answers, calls>> /\ pc[t] # "idle"
          /\ pc' = [pc EXCEPT ![t] = "idle"] /\ (lock' = lock \/ (lock = t /\ lock' = Nobody))
      BY <2>6 DEF ConstructionRaises, LibraryMissing, DlopenFails, Raise, LockLeft, At, Goto, locals
    <3>2. "idle" \in PCs
      BY DEF PCs
    <3> QED BY <3>1, <3>2, ThreadMoves DEF LoadPCs
  <2>7. CASE DirectUseReturns(t)
    <3>1. /\ UNCHANGED <<asked, cache, built, answers, calls, lock>> /\ pc[t] # "idle"
          /\ pc' = [pc EXCEPT ![t] = "idle"]
      BY <2>7 DEF DirectUseReturns, At, Goto, shared, locals
    <3>2. "idle" \in PCs
      BY DEF PCs
    <3> QED BY <3>1, <3>2, ThreadMoves DEF LoadPCs
  <2>8. CASE \/ AlreadyLoaded(t) \/ BeginLoad(t) \/ HandleIsUsable(t) \/ HandleIsUnusable(t)
             \/ OpenNull(t) \/ Dup(t) \/ CloseRedundant(t) \/ PackageInit(t) \/ SanitizeStdio(t)
             \/ DlopenAgain(t) \/ Bind(t)
    <3>1. /\ UNCHANGED <<asked, cache, built, answers, calls, lock>>
          /\ pc[t] \in LoadPCs \cup {"attr", "bind"}
          /\ \E to \in LoadPCs \cup {"bind", "use"} : pc' = [pc EXCEPT ![t] = to]
      BY <2>8 DEF AlreadyLoaded, BeginLoad, HandleIsUsable, HandleIsUnusable, OpenNull, Dup,
         CloseRedundant, PackageInit, SanitizeStdio, DlopenAgain, Bind, At, Goto, AfterHandle,
         shared, locals, LoadPCs
    <3>2. PICK to \in LoadPCs \cup {"bind", "use"} : pc' = [pc EXCEPT ![t] = to]
      BY <3>1
    <3>3. to \in PCs /\ pc[t] # "idle" /\ to \notin {"read", "lock", "locked"}
      BY <3>1 DEF PCs, LoadPCs
    <3>4. asked[t] # Nobody => Constructing(t) /\ lock' = t
      BY <2>a, <3>1 DEF Constructing
    <3> QED BY <3>1, <3>2, <3>3, <3>4, ThreadMoves
  <2> QED BY <1>3, <2>1, <2>2, <2>3, <2>4, <2>5, <2>6, <2>7, <2>8 DEF Continue, Load
<1> QED BY <1>1, <1>2, <1>3 DEF Next

\* The invariant of the cache holds in every reachable state.
LEMMA CInductive == Spec => []CInv
BY CInit, CStep, PTL DEF Spec

\* Identical configurations share one scanner, and no scanner is constructed to
\* be thrown away, whatever threads ask at once and whatever raises.
THEOREM ScannersAreShared == Spec => []OneScannerPerConfiguration
<1>1. CInv => OneScannerPerConfiguration
  <2> SUFFICES ASSUME CacheInv PROVE OneScannerPerConfiguration
    BY DEF CInv
  <2>1. \A a \in answers : /\ a[1] \in Requests /\ a[2] \in 1 .. Len(built)
                           /\ cache[KeyOf(a[1])] = a[2] /\ KeyOf(a[1]) \in Keys
    BY DEF CacheInv, Keys
  <2>2. \A a \in answers : KeyOf(a[1]) \in Stored
    <3>1. Len(built) \in Nat
      BY DEF CacheInv
    <3> QED BY <2>1, <3>1 DEF Stored
  <2>3. \A a, b \in answers : KeyOf(a[1]) = KeyOf(b[1]) <=> a[2] = b[2]
    BY <2>1, <2>2 DEF CacheInv
  <2>4. \A a \in answers : built[a[2]] = ConfigOf(a[1])
    BY <2>1, <2>2 DEF CacheInv
  <2>5. Len(built) = Cardinality({k \in Keys : cache[k] # 0})
    BY DEF CacheInv, Stored
  <2> QED BY <2>3, <2>4, <2>5 DEF OneScannerPerConfiguration
<1> QED BY <1>1, CInductive, PTL
-----------------------------------------------------------------------------
(* The descriptors.                                                        *)

\* The thread has a null device of its own open.
Owner(t) == pc[t] \in {"check", "dup", "close"} /\ repair[t].devnull >= 0

FileTypes ==
    /\ pc \in [Threads -> PCs]
    /\ fd \in [Descriptors -> {"closed", "host", "null", "go"}]
    /\ initial \in [Descriptors -> {"closed", "host"}]
    /\ \A d \in Descriptors : d > 2 => initial[d] = "closed"
    /\ go \subseteq Descriptors
    /\ \E a, b \in Descriptors : \A d \in Descriptors : fd[d] = "go" => d \in {a, b}
    /\ repair \in [Threads -> [at : Handles, devnull : -1 .. MaxFd, replaced : SUBSET Handles]]
    /\ overlap \in BOOLEAN

\* What the host had open it still has, and nothing else is its own; a null
\* device outside of the handles has a thread that will close it.
HostInv ==
    /\ \A d \in Descriptors : fd[d] = "host" <=> initial[d] = "host"
    /\ \A d \in Descriptors \ Handles :
          fd[d] = "null" => \E t \in Threads : Owner(t) /\ repair[t].devnull = d

\* Two threads never share a null device, and a repair only overwrites a handle
\* that the host had not open.
OwnerInv ==
    /\ \A t \in Threads : Owner(t) => fd[repair[t].devnull] = "null"
    /\ \A t, u \in Threads :
          Owner(t) /\ Owner(u) /\ t # u => repair[t].devnull # repair[u].devnull
    /\ \A t \in Threads :
          /\ pc[t] = "open" => repair[t].devnull = -1
          /\ pc[t] = "dup" => repair[t].devnull >= 0
          /\ pc[t] \in {"open", "dup"} => initial[repair[t].at] = "closed"

\* What the Go side has opened it keeps, unless a repair overwrites a handle; one
\* thread at most initialises the library, with nothing opened yet.
GoInv ==
    /\ \A d \in Descriptors : fd[d] = "go" => d \in go
    /\ \A d \in go \ Handles : fd[d] = "go"
InitInv ==
    /\ \A t, u \in Threads : pc[t] = "init" /\ pc[u] = "init" => t = u
    /\ \A t \in Threads :
          pc[t] = "init" => go = Handles /\ \A d \in Descriptors : fd[d] # "go"

\* The first handle, once a thread has looked at it or repaired it, stays usable:
\* a null device that takes its place does so only to repair it.
FirstOf(t) ==
    /\ Owner(t) /\ repair[t].devnull = 1 =>
          1 \in repair[t].replaced \/ (pc[t] = "dup" /\ repair[t].at = 1)
    /\ pc[t] \in {"check", "open", "dup"} /\ repair[t].at = 2 => Usable(1)
    /\ pc[t] \in {"close", "dlopen"} => Usable(1)
FirstInv == (go # {} => Usable(1)) /\ \A t \in Threads : FirstOf(t)

\* Without the overlap that two unusable handles make dangerous, the same is true
\* of the second handle.
Solo == ~(overlap /\ BothWereUnusable)
SoloInv ==
    /\ ~overlap => \A t, u \in Threads : Loading(t) /\ Loading(u) => t = u
    /\ ~overlap => \A t \in Threads : pc[t] = "open" => ~Usable(repair[t].at)
    /\ Solo => \A t \in Threads :
          /\ Owner(t) /\ repair[t].devnull \in Handles =>
                \/ repair[t].devnull \in repair[t].replaced
                \/ pc[t] = "dup" /\ repair[t].devnull = repair[t].at
          /\ pc[t] \in {"close", "dlopen"} => Usable(2)
    /\ Solo /\ go # {} => Usable(2)

FInv == FileTypes /\ HostInv /\ OwnerInv /\ GoInv /\ InitInv /\ FirstInv /\ SoloInv

\* The least descriptor with a property.
LEMMA SmallestIn ==
  ASSUME NEW T \in SUBSET Nat, T # {}
  PROVE  \E x \in T : \A y \in T : x <= y
<1>1. PICK x \in T : \A y \in T : <<y, x>> \notin OpToRel(<, Nat)
  BY WFMin, NatLessThanWellFounded, Zenon
<1>2. \A y \in T : ~ (y < x)
  <2>1. ASSUME NEW y \in T, y < x PROVE <<y, x>> \in OpToRel(<, Nat)
    BY <2>1, Zenon DEF OpToRel
  <2> QED BY <1>1, <2>1
<1>3. \A y \in T : x <= y
  BY <1>2
<1> QED BY <1>3

\* The handles and the descriptors above them, as numbers.
LEMMA Sizes == /\ Cardinality(Threads) \in Nat /\ MaxFd \in Nat
               /\ Handles \subseteq Descriptors /\ Descriptors \subseteq Nat /\ 3 .. MaxFd \subseteq Descriptors
<1>1. Cardinality(Threads) \in Nat /\ MaxFd \in Nat
  BY SizesAssumption, FS_CardinalityType
<1>2. MaxFd >= 4
  BY <1>1, SizesAssumption
<1> QED BY <1>1, <1>2 DEF Handles, Descriptors

\* The system opens the lowest closed descriptor, if there is one.
LEMMA LowestIsClosed ==
  ASSUME NEW table, \E d \in Descriptors : table[d] = "closed"
  PROVE  LET low == LowestClosed(table) IN
         /\ low \in Descriptors /\ table[low] = "closed"
         /\ \A e \in Descriptors : table[e] = "closed" => low <= e
<1> DEFINE T == {d \in Descriptors : table[d] = "closed"}
<1>1. T \in SUBSET Nat /\ T # {}
  BY Sizes
<1>2. PICK x \in T : \A y \in T : x <= y
  BY <1>1, SmallestIn
<1>3. x \in Descriptors /\ table[x] = "closed" /\ \A e \in Descriptors : table[e] = "closed" => x <= e
  BY <1>2
<1> QED BY <1>3 DEF LowestClosed

\* Above the handles only a, b and the null devices of other threads are open.
OnlyHeld(t, a, b, table) ==
    \A d \in 3 .. MaxFd : \/ table[d] = "closed" \/ d \in {a, b}
                          \/ \E u \in Threads \ {t} : repair[u].devnull = d

\* There is always a closed descriptor: the threads and the Go side cannot have
\* opened them all.
LEMMA ClosedIsLeft ==
  ASSUME NEW t \in Threads, NEW a, NEW b, NEW table, OnlyHeld(t, a, b, table)
  PROVE  \E d \in Descriptors : table[d] = "closed"
<1> DEFINE Others == Threads \ {t}
           Taken == {repair[u].devnull : u \in Others}
           f == [u \in Others |-> repair[u].devnull]
<1>1. IsFiniteSet(Others) /\ Cardinality(Others) = Cardinality(Threads) - 1
  BY SizesAssumption, FS_RemoveElement
<1>2. f \in Surjection(Others, Taken)
  <2>1. f \in [Others -> Taken] /\ \A y \in Taken : \E x \in Others : f[x] = y
    OBVIOUS
  <2> QED BY <2>1 DEF Surjection
<1>3. IsFiniteSet(Taken) /\ Cardinality(Taken) <= Cardinality(Others)
  BY <1>1, <1>2, FS_Surjection
<1>4. IsFiniteSet({a, b}) /\ Cardinality({a, b}) <= 2 /\ Cardinality({a, b}) \in Nat
  <2>1. IsFiniteSet({a}) /\ Cardinality({a}) = 1 /\ {a, b} = {a} \cup {b}
    BY FS_Singleton
  <2>2. IsFiniteSet({b}) /\ Cardinality({b}) = 1
    BY FS_Singleton
  <2>3. IsFiniteSet({a} \cap {b})
    BY <2>1, FS_Subset
  <2> DEFINE k == Cardinality({a} \cap {b})
             n == Cardinality({a} \cup {b})
  <2>4. k \in Nat
    BY <2>3, FS_CardinalityType
  <2>5. IsFiniteSet({a} \cup {b}) /\ n = 1 + 1 - k
    BY <2>1, <2>2, FS_Union
  <2>6. n \in Nat
    BY <2>5, FS_CardinalityType
  <2>7. IsFiniteSet({a, b}) /\ Cardinality({a, b}) = n
    BY <2>1, <2>5
  <2> HIDE DEF k, n
  <2>8. n <= 2
    BY <2>4, <2>5
  <2> QED BY <2>6, <2>7, <2>8
<1>5. /\ IsFiniteSet(Taken \cup {a, b})
      /\ Cardinality(Taken \cup {a, b}) <= Cardinality(Others) + 2
  <2>1. IsFiniteSet(Taken \cap {a, b})
    BY <1>4, FS_Subset
  <2>2. Cardinality(Taken \cap {a, b}) \in Nat /\ Cardinality(Taken) \in Nat
    BY <1>3, <2>1, FS_CardinalityType
  <2>3. /\ IsFiniteSet(Taken \cup {a, b})
        /\ Cardinality(Taken \cup {a, b})
             = Cardinality(Taken) + Cardinality({a, b}) - Cardinality(Taken \cap {a, b})
    BY <1>3, <1>4, FS_Union
  <2>4. Cardinality(Others) \in Nat
    BY <1>1, FS_CardinalityType
  <2> HIDE DEF Others, Taken
  <2> QED BY <1>3, <1>4, <2>2, <2>3, <2>4
<1>6. Cardinality(3 .. MaxFd) = MaxFd - 2 /\ MaxFd >= Cardinality(Threads) + 4
  <2>1. MaxFd \in Nat /\ MaxFd >= 4
    BY Sizes, SizesAssumption
  <2>2. Cardinality(3 .. MaxFd) = IF 3 > MaxFd THEN 0 ELSE MaxFd - 3 + 1
    BY <2>1, FS_Interval
  <2> QED BY <2>1, <2>2, SizesAssumption
<1>7. ~ (3 .. MaxFd \subseteq Taken \cup {a, b})
  <2>1. SUFFICES ASSUME 3 .. MaxFd \subseteq Taken \cup {a, b} PROVE FALSE
    OBVIOUS
  <2>2. Cardinality(3 .. MaxFd) <= Cardinality(Taken \cup {a, b})
    BY <1>5, <2>1, FS_Subset
  <2>3. Cardinality(Taken \cup {a, b}) \in Nat
    BY <1>5, FS_CardinalityType
  <2> HIDE DEF Others, Taken
  <2> QED BY <1>1, <1>5, <1>6, <2>2, <2>3, Sizes
<1>8. PICK d \in 3 .. MaxFd : d \notin Taken \cup {a, b}
  BY <1>7
<1>9. table[d] = "closed"
  BY <1>8 DEF OnlyHeld
<1> QED BY <1>8, <1>9, Sizes

\* What the invariant says of the locals of a repair.
LEMMA RepairTypes ==
  ASSUME FileTypes, NEW t \in Threads
  PROVE  /\ repair[t].at \in Handles /\ repair[t].replaced \in SUBSET Handles
         /\ repair[t].devnull \in Int /\ repair[t].devnull >= -1
         /\ repair[t].devnull >= 0 => repair[t].devnull \in Descriptors
<1>1. repair[t] \in [at : Handles, devnull : -1 .. MaxFd, replaced : SUBSET Handles]
  BY DEF FileTypes
<1>2. /\ repair[t].at \in Handles /\ repair[t].replaced \in SUBSET Handles
      /\ repair[t].devnull \in -1 .. MaxFd
  BY <1>1
<1> QED BY <1>2, Sizes DEF Descriptors

\* At the start no descriptor is Go's or a repair's.
LEMMA FInit == Init => FInv
<1> SUFFICES ASSUME Init PROVE FInv
  OBVIOUS
<1>1. /\ fd \in [Descriptors -> {"closed", "host"}] /\ initial = fd
      /\ \A d \in Descriptors : d > 2 => fd[d] = "closed"
      /\ go = {} /\ overlap = FALSE
      /\ pc = [t \in Threads |-> "idle"] /\ repair = [t \in Threads |-> NoRepair]
  BY DEF Init
<1>2. /\ \A t \in Threads : ~Owner(t) /\ ~Loading(t) /\ pc[t] = "idle"
  BY <1>1 DEF Owner, Loading
<1>3. FileTypes
  <2>1. pc \in [Threads -> PCs] /\ overlap \in BOOLEAN
    BY <1>1 DEF PCs
  <2>2. fd \in [Descriptors -> {"closed", "host", "null", "go"}]
    BY <1>1
  <2>3. repair \in [Threads -> [at : Handles, devnull : -1 .. MaxFd, replaced : SUBSET Handles]]
    <3>1. NoRepair \in [at : Handles, devnull : -1 .. MaxFd, replaced : SUBSET Handles]
      BY Sizes DEF NoRepair, Handles
    <3> QED BY <1>1, <3>1
  <2>4. \E a, b \in Descriptors : \A d \in Descriptors : fd[d] = "go" => d \in {a, b}
    <3>1. \A d \in Descriptors : fd[d] # "go"
      BY <1>1
    <3>2. 1 \in Descriptors
      BY Sizes DEF Handles
    <3> QED BY <3>1, <3>2
  <2> QED BY <1>1, <2>1, <2>2, <2>3, <2>4 DEF FileTypes
<1>4. HostInv
  BY <1>1 DEF HostInv
<1>5. OwnerInv /\ GoInv /\ InitInv /\ FirstInv /\ SoloInv
  BY <1>1, <1>2 DEF OwnerInv, GoInv, InitInv, FirstInv, FirstOf, SoloInv
<1> QED BY <1>3, <1>4, <1>5 DEF FInv

\* What the Go side has bound and opened is as it was.
LEMMA GoKept ==
  ASSUME GoInv, go' = go, \A d \in Descriptors : fd'[d] = "go" => fd[d] = "go",
         \A d \in go \ Handles : fd[d] = "go" => fd'[d] = "go"
  PROVE  GoInv'
BY DEF GoInv

\* No thread begins to initialise the library.
LEMMA InitKept ==
  ASSUME InitInv, go' = go, \A d \in Descriptors : fd'[d] = "go" => fd[d] = "go",
         \A u \in Threads : pc'[u] = "init" => pc[u] = "init"
  PROVE  InitInv'
BY DEF InitInv

\* One thread moves, and the first handle stays usable.
LEMMA FirstKept ==
  ASSUME FirstInv, NEW t \in Threads, go' = go, Usable(1) => Usable(1)', FirstOf(t)',
         \A u \in Threads : u # t => /\ pc'[u] = pc[u] /\ repair'[u] = repair[u]
                                     /\ Owner(u)' <=> Owner(u)
  PROVE  FirstInv'
<1>1. ASSUME NEW u \in Threads, u # t
      PROVE  FirstOf(u)'
  <2>1. FirstOf(u) /\ pc'[u] = pc[u] /\ repair'[u] = repair[u] /\ (Owner(u)' <=> Owner(u))
    BY <1>1 DEF FirstInv
  <2> QED BY <2>1 DEF FirstOf
<1> QED BY <1>1 DEF FirstInv

\* A step of one thread that opens and closes nothing, and leaves the thread its
\* null device.
LEMMA FilesKept ==
  ASSUME FInv, UNCHANGED <<fd, go, initial>>,
         \A u \in Threads : (Owner(u)' <=> Owner(u)) /\ repair'[u].devnull = repair[u].devnull
  PROVE  /\ HostInv' /\ GoInv'
         /\ \A u \in Threads : Owner(u)' => fd'[repair'[u].devnull] = "null"
         /\ \A u, v \in Threads :
               Owner(u)' /\ Owner(v)' /\ u # v => repair'[u].devnull # repair'[v].devnull
<1>1. HostInv'
  BY DEF FInv, HostInv
<1>2. GoInv'
  BY DEF FInv, GoInv, Usable
<1>3. \A u \in Threads : Owner(u)' => fd'[repair'[u].devnull] = "null"
  BY DEF FInv, OwnerInv
<1>4. \A u, v \in Threads :
         Owner(u)' /\ Owner(v)' /\ u # v => repair'[u].devnull # repair'[v].devnull
  BY DEF FInv, OwnerInv
<1> QED BY <1>1, <1>2, <1>3, <1>4

\* A thread that is not repairing moves on, outside of the load.
LEMMA QuietStep ==
  ASSUME FInv, NEW t \in Threads, NEW to \in PCs, pc' = [pc EXCEPT ![t] = to],
         pc[t] \notin {"check", "open", "dup", "close"},
         to \notin {"check", "open", "dup", "close", "dlopen", "init"},
         UNCHANGED <<fd, go, repair, initial, overlap>>
  PROVE  FInv'
<1>1. pc \in [Threads -> PCs] /\ FileTypes'
  BY DEF FInv, FileTypes
<1>2. \A u \in Threads : pc'[u] = IF u = t THEN to ELSE pc[u]
  BY <1>1
<1>3. \A u \in Threads : (Owner(u)' <=> Owner(u)) /\ (Loading(u)' => Loading(u))
  BY <1>2 DEF Owner, Loading
<1>4. \A u \in Threads : pc'[u] \in {"check", "open", "dup", "close", "dlopen"} => pc'[u] = pc[u]
  BY <1>2
<1>5. HostInv' /\ GoInv' /\ OwnerInv'
  <2>1. \A u \in Threads : /\ pc'[u] = "open" => repair'[u].devnull = -1
                           /\ pc'[u] = "dup" => repair'[u].devnull >= 0
                           /\ pc'[u] \in {"open", "dup"} => initial'[repair'[u].at] = "closed"
    BY <1>4 DEF FInv, OwnerInv
  <2> QED BY <1>3, <2>1, FilesKept DEF OwnerInv
<1>6. SoloInv'
  <2>1. (Solo' <=> Solo) /\ fd' = fd /\ repair' = repair
    BY DEF Solo, BothWereUnusable
  <2>2. SoloInv
    BY DEF FInv
  <2>3. ~overlap' => \A u, v \in Threads : Loading(u)' /\ Loading(v)' => u = v
    BY <1>3, <2>2 DEF SoloInv
  <2>4. ~overlap' => \A u \in Threads : pc'[u] = "open" => ~Usable(repair[u].at)'
    BY <1>4, <2>1, <2>2 DEF SoloInv, Usable
  <2>5. ASSUME Solo', NEW u \in Threads
        PROVE  /\ Owner(u)' /\ repair'[u].devnull \in Handles =>
                    \/ repair'[u].devnull \in repair'[u].replaced
                    \/ pc'[u] = "dup" /\ repair'[u].devnull = repair'[u].at
               /\ pc'[u] \in {"close", "dlopen"} => Usable(2)'
    <3>1. CASE pc'[u] \in {"check", "open", "dup", "close", "dlopen"}
      BY <1>3, <1>4, <2>1, <2>2, <2>5, <3>1 DEF SoloInv, Usable
    <3>2. CASE pc'[u] \notin {"check", "open", "dup", "close", "dlopen"}
      BY <3>2 DEF Owner
    <3> QED BY <3>1, <3>2
  <2>6. Solo' /\ go' # {} => Usable(2)'
    BY <2>1, <2>2 DEF SoloInv, Usable
  <2> QED BY <2>3, <2>4, <2>5, <2>6 DEF SoloInv
<1>7. InitInv'
  <2>1. \A u \in Threads : pc'[u] = "init" => pc[u] = "init"
    BY <1>2
  <2> QED BY <2>1, InitKept DEF FInv
<1>8. FirstInv'
  <2>1. FirstOf(t)'
    BY <1>2 DEF FirstOf, Owner
  <2> QED BY <1>2, <1>3, <2>1, FirstKept DEF FInv, Usable
<1> QED BY <1>1, <1>5, <1>6, <1>7, <1>8 DEF FInv

\* What a step does for the thread that takes it and leaves to the others.
LEMMA OneThreadSteps ==
  ASSUME FileTypes, NEW t \in Threads, NEW to \in PCs, NEW r, pc' = [pc EXCEPT ![t] = to],
         repair' = [repair EXCEPT ![t] = r],
         r \in [at : Handles, devnull : -1 .. MaxFd, replaced : SUBSET Handles]
  PROVE  /\ \A u \in Threads : u # t => pc'[u] = pc[u] /\ repair'[u] = repair[u]
         /\ pc'[t] = to /\ repair'[t] = r
         /\ \A u \in Threads : u # t => (Owner(u)' <=> Owner(u)) /\ (Loading(u)' <=> Loading(u))
         /\ pc' \in [Threads -> PCs]
         /\ repair' \in [Threads -> [at : Handles, devnull : -1 .. MaxFd, replaced : SUBSET Handles]]
<1> DEFINE Repairs == [at : Handles, devnull : -1 .. MaxFd, replaced : SUBSET Handles]
<1>1. pc \in [Threads -> PCs] /\ repair \in [Threads -> Repairs] /\ r \in Repairs
  BY DEF FileTypes
<1> HIDE DEF Repairs
<1>2. /\ \A u \in Threads : u # t => pc'[u] = pc[u] /\ repair'[u] = repair[u]
      /\ pc'[t] = to /\ repair'[t] = r
      /\ pc' \in [Threads -> PCs] /\ repair' \in [Threads -> Repairs]
  BY <1>1
<1>3. \A u \in Threads : u # t => (Owner(u)' <=> Owner(u)) /\ (Loading(u)' <=> Loading(u))
  BY <1>2 DEF Owner, Loading
<1> QED BY <1>2, <1>3 DEF Repairs

\* A repair begins with no null device, at the first handle.
LEMMA BeginLoadKeeps ==
  ASSUME FInv, NEW t \in Threads, BeginLoad(t)
  PROVE  FInv'
<1>1. /\ pc[t] = "attr" /\ pc' = [pc EXCEPT ![t] = "check"]
      /\ repair' = [repair EXCEPT ![t] = NoRepair]
      /\ overlap' = (overlap \/ \E u \in Threads \ {t} : Loading(u))
      /\ UNCHANGED <<fd, go, initial>>
  BY DEF BeginLoad, At, Goto, FreshRepair, files, fixed
<1>2. /\ "check" \in PCs /\ NoRepair \in [at : Handles, devnull : -1 .. MaxFd, replaced : SUBSET Handles]
      /\ NoRepair.at = 1 /\ NoRepair.devnull = -1
  BY Sizes DEF PCs, NoRepair, Handles
<1>3. /\ \A u \in Threads : u # t => pc'[u] = pc[u] /\ repair'[u] = repair[u]
      /\ pc'[t] = "check" /\ repair'[t] = NoRepair
      /\ \A u \in Threads : u # t => (Owner(u)' <=> Owner(u)) /\ (Loading(u)' <=> Loading(u))
      /\ pc' \in [Threads -> PCs]
      /\ repair' \in [Threads -> [at : Handles, devnull : -1 .. MaxFd, replaced : SUBSET Handles]]
  <2>1. FileTypes
    BY DEF FInv
  <2> QED BY <1>1, <1>2, <2>1, OneThreadSteps
<1>4. ~Owner(t) /\ ~Owner(t)'
  BY <1>1, <1>2, <1>3 DEF Owner
<1>5. FileTypes'
  <2>1. overlap' \in BOOLEAN
    BY <1>1
  <2> QED BY <1>1, <1>3, <2>1 DEF FInv, FileTypes
<1>6. HostInv'
  BY <1>1, <1>3, <1>4 DEF FInv, HostInv
<1>7. OwnerInv'
  BY <1>1, <1>3, <1>4 DEF FInv, OwnerInv
<1>8. GoInv'
  BY <1>1, <1>3, <1>4 DEF FInv, GoInv, Usable
<1>9. SoloInv'
  <2>1. (overlap => overlap') /\ (Solo' => Solo)
    BY <1>1 DEF Solo, BothWereUnusable
  <2>2. SoloInv
    BY DEF FInv
  <2>3. ~overlap' => \A u, v \in Threads : Loading(u)' /\ Loading(v)' => u = v
    BY <1>1, <1>3
  <2>4. ~overlap' => \A u \in Threads : pc'[u] = "open" => ~Usable(repair[u].at)'
    BY <1>1, <1>3, <2>1, <2>2 DEF SoloInv, Usable
  <2>5. ASSUME Solo', NEW u \in Threads
        PROVE  /\ Owner(u)' /\ repair'[u].devnull \in Handles =>
                    \/ repair'[u].devnull \in repair'[u].replaced
                    \/ pc'[u] = "dup" /\ repair'[u].devnull = repair'[u].at
               /\ pc'[u] \in {"close", "dlopen"} => Usable(2)'
    <3>1. CASE u = t
      BY <1>2, <1>3, <1>4, <3>1
    <3>2. CASE u # t
      BY <1>1, <1>3, <2>1, <2>2, <2>5, <3>2 DEF SoloInv, Usable
    <3> QED BY <3>1, <3>2
  <2>6. Solo' /\ go' # {} => Usable(2)'
    BY <1>1, <2>1, <2>2 DEF SoloInv, Usable
  <2> QED BY <2>3, <2>4, <2>5, <2>6 DEF SoloInv
<1>10. InitInv' /\ FirstInv'
  <2>1. \A u \in Threads : pc'[u] = "init" => pc[u] = "init"
    BY <1>3
  <2>2. FirstOf(t)'
    BY <1>2, <1>3, <1>4 DEF FirstOf
  <2> QED BY <1>1, <1>3, <2>1, <2>2, InitKept, FirstKept DEF FInv, Usable
<1> QED BY <1>5, <1>6, <1>7, <1>8, <1>9, <1>10 DEF FInv

\* The step of a repair that only looks at a handle: the thread keeps its null
\* device.
LEMMA LookKeeps ==
  ASSUME FInv, NEW t \in Threads, HandleIsUsable(t) \/ HandleIsUnusable(t)
  PROVE  FInv'
<1> DEFINE at == repair[t].at
           devnull == repair[t].devnull
           Repairs == [at : Handles, devnull : -1 .. MaxFd, replaced : SUBSET Handles]
<1>1. PICK to \in PCs, r \in Repairs :
        /\ pc' = [pc EXCEPT ![t] = to] /\ repair' = [repair EXCEPT ![t] = r]
        /\ r.devnull = devnull /\ r.replaced = repair[t].replaced
        /\ \/ Usable(at) /\ r.at = 2 /\ to = (IF at = 1 THEN "check" ELSE "close")
           \/ ~Usable(at) /\ r.at = at /\ to = (IF devnull < 0 THEN "open" ELSE "dup")
  <2>1. repair \in [Threads -> Repairs]
    BY DEF FInv, FileTypes
  <2>2. CASE HandleIsUsable(t)
    <3> DEFINE new == [repair[t] EXCEPT !.at = 2]
    <3>1. /\ Usable(at) /\ repair' = [repair EXCEPT ![t] = new]
          /\ pc' = [pc EXCEPT ![t] = IF at = 1 THEN "check" ELSE "close"]
      BY <2>1, <2>2 DEF HandleIsUsable, Goto, AfterHandle, R
    <3>2. new \in Repairs /\ new.at = 2 /\ new.devnull = devnull /\ new.replaced = repair[t].replaced
      BY <2>1 DEF Handles
    <3>3. (IF at = 1 THEN "check" ELSE "close") \in PCs
      BY DEF PCs
    <3> HIDE DEF new, Repairs
    <3> QED BY <3>1, <3>2, <3>3
  <2>3. CASE HandleIsUnusable(t)
    <3>1. /\ ~Usable(at) /\ UNCHANGED repair
          /\ pc' = [pc EXCEPT ![t] = IF devnull < 0 THEN "open" ELSE "dup"]
      BY <2>3 DEF HandleIsUnusable, Goto, R, locals
    <3>2. repair' = [repair EXCEPT ![t] = repair[t]] /\ repair[t] \in Repairs
      <4> HIDE DEF Repairs
      <4> QED BY <2>1, <3>1
    <3>3. (IF devnull < 0 THEN "open" ELSE "dup") \in PCs
      BY DEF PCs
    <3> HIDE DEF Repairs
    <3> QED BY <3>1, <3>2, <3>3
  <2> QED BY <2>2, <2>3
<1>2. pc[t] = "check" /\ UNCHANGED <<fd, go, initial, overlap>>
  BY DEF HandleIsUsable, HandleIsUnusable, At, files, fixed
<1>3. /\ at \in Handles /\ devnull \in Int /\ devnull >= -1
      /\ devnull >= 0 => devnull \in Descriptors
  <2>1. FileTypes
    BY DEF FInv
  <2> QED BY <2>1, RepairTypes
<1>4. /\ \A u \in Threads : u # t => pc'[u] = pc[u] /\ repair'[u] = repair[u]
      /\ pc'[t] = to /\ repair'[t] = r
      /\ \A u \in Threads : u # t => (Owner(u)' <=> Owner(u)) /\ (Loading(u)' <=> Loading(u))
      /\ pc' \in [Threads -> PCs] /\ repair' \in [Threads -> Repairs]
  <2>1. FileTypes
    BY DEF FInv
  <2> QED BY <1>1, <2>1, OneThreadSteps
<1> HIDE DEF Repairs
<1>5. (Owner(t)' <=> Owner(t)) /\ Loading(t)
  BY <1>1, <1>2, <1>3, <1>4 DEF Owner, Loading
<1>6. FileTypes'
  BY <1>2, <1>4 DEF FInv, FileTypes, Repairs
<1>7. HostInv' /\ GoInv' /\ OwnerInv'
  <2>1. \A u \in Threads : (Owner(u)' <=> Owner(u)) /\ repair'[u].devnull = repair[u].devnull
    BY <1>1, <1>4, <1>5
  <2>2. ~Usable(at) => initial[at] = "closed"
    BY <1>3, Sizes DEF FInv, FileTypes, HostInv, Usable
  <2>3. \A u \in Threads : /\ pc'[u] = "open" => repair'[u].devnull = -1
                           /\ pc'[u] = "dup" => repair'[u].devnull >= 0
                           /\ pc'[u] \in {"open", "dup"} => initial'[repair'[u].at] = "closed"
    <3>1. /\ to = "open" => r.devnull = -1
          /\ to = "dup" => r.devnull >= 0
          /\ to \in {"open", "dup"} => initial[r.at] = "closed"
      BY <1>1, <1>3, <2>2
    <3> QED BY <1>2, <1>4, <3>1 DEF FInv, OwnerInv
  <2> QED BY <1>2, <2>1, <2>3, FilesKept DEF OwnerInv
<1>8. SoloInv'
  <2>1. (Solo' <=> Solo) /\ fd' = fd
    BY <1>2 DEF Solo, BothWereUnusable
  <2>2. SoloInv
    BY DEF FInv
  <2>3. ~overlap' => \A u, v \in Threads : Loading(u)' /\ Loading(v)' => u = v
    BY <1>2, <1>4, <1>5, <2>2 DEF SoloInv
  <2>4. ~overlap' => \A u \in Threads : pc'[u] = "open" => ~Usable(repair[u].at)'
    <3>1. to = "open" => ~Usable(r.at)
      BY <1>1
    <3> QED BY <1>2, <1>4, <2>1, <2>2, <3>1 DEF SoloInv, Usable
  <2>5. ASSUME Solo', NEW u \in Threads
        PROVE  /\ Owner(u)' /\ repair'[u].devnull \in Handles =>
                    \/ repair'[u].devnull \in repair'[u].replaced
                    \/ pc'[u] = "dup" /\ repair'[u].devnull = repair'[u].at
               /\ pc'[u] \in {"close", "dlopen"} => Usable(2)'
    <3>1. CASE u = t
      <4>1. Owner(t)' /\ r.devnull \in Handles => r.devnull \in r.replaced
        BY <1>1, <1>2, <1>5, <2>1, <2>2, <2>5 DEF SoloInv
      <4>2. at = 2 /\ to = "close" => Usable(2)
        BY <1>1
      <4>3. to = "close" => at = 2
        BY <1>1, <1>3 DEF Handles
      <4>4. to # "dlopen"
        BY <1>1
      <4> QED BY <1>4, <2>1, <3>1, <4>1, <4>2, <4>3, <4>4 DEF Usable
    <3>2. CASE u # t
      BY <1>2, <1>4, <2>1, <2>2, <2>5, <3>2 DEF SoloInv, Usable
    <3> QED BY <3>1, <3>2
  <2>6. Solo' /\ go' # {} => Usable(2)'
    BY <1>2, <2>1, <2>2 DEF SoloInv, Usable
  <2> QED BY <2>3, <2>4, <2>5, <2>6 DEF SoloInv
<1>9. InitInv' /\ FirstInv'
  <2>1. \A u \in Threads : pc'[u] = "init" => pc[u] = "init"
    BY <1>1, <1>2, <1>4
  <2>2. FirstOf(t)'
    <3>1. FirstOf(t)
      BY DEF FInv, FirstInv
    <3>2. Owner(t)' /\ r.devnull = 1 => 1 \in r.replaced
      BY <1>1, <1>2, <1>5, <3>1 DEF FirstOf
    <3>3. at = 2 => Usable(1)
      BY <1>2, <3>1 DEF FirstOf
    <3>4. /\ to \in {"check", "open", "dup"} /\ r.at = 2 => Usable(1)
          /\ to \in {"close", "dlopen"} => Usable(1)
      BY <1>1, <1>3, <3>3 DEF Handles
    <3> QED BY <1>2, <1>4, <3>2, <3>4 DEF FirstOf, Usable
  <2> QED BY <1>2, <1>4, <2>1, <2>2, InitKept, FirstKept DEF FInv, Usable
<1> QED BY <1>6, <1>7, <1>8, <1>9 DEF FInv

\* While a thread has no null device there is a closed descriptor for it.
LEMMA RoomToOpen ==
  ASSUME FInv, NEW t \in Threads, ~Owner(t)
  PROVE  /\ \E d \in Descriptors : fd[d] = "closed"
         /\ (\A d \in Descriptors : fd[d] # "go") => \A a : \E d \in Descriptors : [fd EXCEPT ![a] = "go"][d] = "closed"
<1>1. \A d \in Descriptors \ Handles : fd[d] = "null" =>
         \E u \in Threads \ {t} : repair[u].devnull = d
  BY DEF FInv, HostInv
<1>2. \A d \in 3 .. MaxFd : d \in Descriptors \ Handles /\ fd[d] # "host"
  <2>1. \A d \in 3 .. MaxFd : d \in Descriptors /\ d > 2
    BY Sizes
  <2>2. \A d \in 3 .. MaxFd : initial[d] = "closed"
    BY <2>1 DEF FInv, FileTypes
  <2> QED BY <2>1, <2>2 DEF FInv, HostInv, Handles
<1>3. \A d \in 3 .. MaxFd : \/ fd[d] = "closed" \/ fd[d] = "go"
                            \/ \E u \in Threads \ {t} : repair[u].devnull = d
  <2>1. \A d \in Descriptors : fd[d] \in {"closed", "host", "null", "go"}
    BY DEF FInv, FileTypes
  <2> QED BY <1>1, <1>2, <2>1
<1>4. \E d \in Descriptors : fd[d] = "closed"
  <2>1. PICK a, b \in Descriptors : \A d \in Descriptors : fd[d] = "go" => d \in {a, b}
    BY DEF FInv, FileTypes
  <2>2. OnlyHeld(t, a, b, fd)
    BY <1>2, <1>3, <2>1 DEF OnlyHeld
  <2> QED BY <2>2, ClosedIsLeft
<1>5. ASSUME \A d \in Descriptors : fd[d] # "go", NEW a
      PROVE  \E d \in Descriptors : [fd EXCEPT ![a] = "go"][d] = "closed"
  <2>1. \A d \in 3 .. MaxFd : fd[d] # "go"
    BY <1>2, <1>5
  <2>2. \A d \in Descriptors : d # a => [fd EXCEPT ![a] = "go"][d] = fd[d]
    BY DEF FInv, FileTypes
  <2>3. OnlyHeld(t, a, a, [fd EXCEPT ![a] = "go"])
    BY <1>2, <1>3, <2>1, <2>2 DEF OnlyHeld
  <2> QED BY <2>3, ClosedIsLeft
<1> QED BY <1>4, <1>5

\* A thread opens its null device: a descriptor that nobody had, and, unless two
\* threads repair both handles at once, not the other handle.
LEMMA OpenKeeps ==
  ASSUME FInv, NEW t \in Threads, OpenNull(t)
  PROVE  FInv'
<1> DEFINE d == LowestClosed(fd)
           at == repair[t].at
           Repairs == [at : Handles, devnull : -1 .. MaxFd, replaced : SUBSET Handles]
           r == [repair[t] EXCEPT !.devnull = d]
<1>1. /\ pc[t] = "open" /\ pc' = [pc EXCEPT ![t] = "dup"] /\ fd' = [fd EXCEPT ![d] = "null"]
      /\ repair' = [repair EXCEPT ![t] = r]
      /\ UNCHANGED <<go, initial, overlap>>
  <2>1. repair \in [Threads -> Repairs]
    BY DEF FInv, FileTypes
  <2> QED BY <2>1 DEF OpenNull, At, Goto, fixed
<1>2. at \in Handles /\ FileTypes /\ ~Owner(t) /\ initial[at] = "closed" /\ Loading(t)
  <2>1. FileTypes
    BY DEF FInv
  <2> QED BY <1>1, <2>1, RepairTypes DEF Owner, FInv, OwnerInv, Loading
<1>3. d \in Descriptors /\ fd[d] = "closed" /\ \A e \in Descriptors : fd[e] = "closed" => d <= e
  <2>1. \E e \in Descriptors : fd[e] = "closed"
    BY <1>2, RoomToOpen
  <2> QED BY <2>1, LowestIsClosed
<1>4. r \in Repairs /\ r.at = at /\ r.devnull = d /\ r.replaced = repair[t].replaced
  <2>1. d \in -1 .. MaxFd
    BY <1>3, Sizes DEF Descriptors
  <2>2. repair[t] \in Repairs
    BY <1>2 DEF FileTypes
  <2> HIDE DEF d
  <2> QED BY <2>1, <2>2
<1> HIDE DEF d, r
<1>5. /\ \A u \in Threads : u # t => pc'[u] = pc[u] /\ repair'[u] = repair[u]
      /\ pc'[t] = "dup" /\ repair'[t] = r
      /\ \A u \in Threads : u # t => (Owner(u)' <=> Owner(u)) /\ (Loading(u)' <=> Loading(u))
      /\ pc' \in [Threads -> PCs] /\ repair' \in [Threads -> Repairs]
  <2>1. "dup" \in PCs
    BY DEF PCs
  <2> QED BY <1>1, <1>2, <1>4, <2>1, OneThreadSteps
<1> HIDE DEF Repairs
<1>6. /\ \A e \in Descriptors : fd'[e] = IF e = d THEN "null" ELSE fd[e]
      /\ fd' \in [Descriptors -> {"closed", "host", "null", "go"}]
  BY <1>1, <1>3 DEF FInv, FileTypes
<1>7. Owner(t)'
  BY <1>3, <1>4, <1>5, Sizes DEF Owner
<1>8. \A e \in Descriptors : Usable(e) => Usable(e)'
  BY <1>3, <1>6 DEF Usable
<1>9. FileTypes'
  BY <1>1, <1>5, <1>6 DEF FInv, FileTypes, Repairs
<1>10. HostInv'
  <2>1. \A e \in Descriptors : fd'[e] = "host" <=> initial'[e] = "host"
    BY <1>1, <1>3, <1>6 DEF FInv, HostInv
  <2>2. ASSUME NEW e \in Descriptors \ Handles, fd'[e] = "null"
        PROVE  \E u \in Threads : Owner(u)' /\ repair'[u].devnull = e
    <3>1. CASE e = d
      BY <1>4, <1>5, <1>7, <3>1
    <3>2. CASE e # d
      <4>1. PICK u \in Threads : Owner(u) /\ repair[u].devnull = e
        BY <1>6, <2>2, <3>2 DEF FInv, HostInv
      <4> QED BY <1>2, <1>5, <4>1
    <3> QED BY <3>1, <3>2
  <2> QED BY <2>1, <2>2 DEF HostInv
<1>11. \A u \in Threads : Owner(u) => fd[repair[u].devnull] = "null" /\ repair[u].devnull # d
                                      /\ repair[u].devnull \in Descriptors
  BY <1>2, <1>3, RepairTypes DEF FInv, OwnerInv, Owner
<1>12. OwnerInv'
  <2>1. \A u \in Threads : Owner(u)' => fd'[repair'[u].devnull] = "null"
    BY <1>3, <1>4, <1>5, <1>6, <1>11
  <2>2. \A u, v \in Threads :
           Owner(u)' /\ Owner(v)' /\ u # v => repair'[u].devnull # repair'[v].devnull
    BY <1>4, <1>5, <1>11 DEF FInv, OwnerInv
  <2>3. \A u \in Threads :
           /\ pc'[u] = "open" => repair'[u].devnull = -1
           /\ pc'[u] = "dup" => repair'[u].devnull >= 0
           /\ pc'[u] \in {"open", "dup"} => initial'[repair'[u].at] = "closed"
    <3>1. d >= 0
      BY <1>3, Sizes
    <3> QED BY <1>1, <1>2, <1>4, <1>5, <3>1 DEF FInv, OwnerInv
  <2> QED BY <2>1, <2>2, <2>3 DEF OwnerInv
<1>13. GoInv' /\ InitInv' /\ FirstInv'
  <2>1. /\ \A e \in Descriptors : fd'[e] = "go" => fd[e] = "go"
        /\ \A e \in go \ Handles : fd[e] = "go" => fd'[e] = "go"
    BY <1>2, <1>3, <1>6 DEF FileTypes
  <2>2. \A u \in Threads : pc'[u] = "init" => pc[u] = "init"
    BY <1>5
  <2>3. FirstOf(t)'
    <3>1. at = 2 => Usable(1)
      BY <1>1 DEF FInv, FirstInv, FirstOf
    <3>2. d = 1 => at = 1
      BY <1>2, <1>3, <3>1 DEF Handles, Usable
    <3> QED BY <1>4, <1>5, <1>8, <3>1, <3>2, Sizes DEF FirstOf, Handles
  <2> QED BY <1>1, <1>5, <1>8, <2>1, <2>2, <2>3, GoKept, InitKept, FirstKept, Sizes DEF FInv, Handles
<1>14. SoloInv'
  <2>1. (Solo' <=> Solo) /\ 1 \in Descriptors /\ 2 \in Descriptors
    BY <1>1, Sizes DEF Solo, BothWereUnusable, Handles
  <2>2. SoloInv
    BY DEF FInv
  <2>3. ~overlap' => \A u, v \in Threads : Loading(u)' /\ Loading(v)' => u = v
    BY <1>1, <1>2, <1>5, <2>2 DEF SoloInv
  <2>4. ~overlap' => \A u \in Threads : pc'[u] = "open" => ~Usable(repair[u].at)'
    <3>1. ASSUME ~overlap', NEW u \in Threads, pc'[u] = "open" PROVE FALSE
      <4>1. u # t /\ Loading(u)' /\ Loading(t)'
        BY <1>5, <3>1 DEF Loading
      <4> QED BY <2>3, <3>1, <4>1
    <3> QED BY <3>1
  <2>5. ASSUME Solo', NEW u \in Threads
        PROVE  /\ Owner(u)' /\ repair'[u].devnull \in Handles =>
                    \/ repair'[u].devnull \in repair'[u].replaced
                    \/ pc'[u] = "dup" /\ repair'[u].devnull = repair'[u].at
               /\ pc'[u] \in {"close", "dlopen"} => Usable(2)'
    <3>1. CASE u = t
      <4>1. at = 2 => Usable(1)
        BY <1>1 DEF FInv, FirstInv, FirstOf
      <4>2. d \in Handles => d = at
        <5>1. CASE ~overlap
          <6>1. ~Usable(at)
            BY <1>1, <2>2, <5>1 DEF SoloInv
          <6>2. at \in Descriptors /\ d <= at
            BY <1>2, <1>3, <6>1, Sizes DEF Usable
          <6>3. at = 1 \/ at = 2
            BY <1>2 DEF Handles
          <6>4. d # 1 \/ at # 2
            BY <1>3, <4>1 DEF Usable
          <6> QED BY <6>2, <6>3, <6>4 DEF Handles
        <5>2. CASE ~BothWereUnusable
          <6>1. initial[1] = "host" \/ initial[2] = "host"
            BY <2>1, <5>2 DEF BothWereUnusable, FInv, FileTypes
          <6>2. initial[d] # "host"
            BY <1>3 DEF FInv, HostInv
          <6> QED BY <1>2, <6>1, <6>2 DEF Handles
        <5> QED BY <2>1, <2>5, <5>1, <5>2 DEF Solo
      <4> QED BY <1>4, <1>5, <1>8, <2>1, <3>1, <4>1, <4>2
    <3>2. CASE u # t
      BY <1>1, <1>5, <1>8, <2>1, <2>2, <2>5, <3>2 DEF SoloInv
    <3> QED BY <3>1, <3>2
  <2>6. Solo' /\ go' # {} => Usable(2)'
    BY <1>1, <1>8, <2>1, <2>2 DEF SoloInv
  <2> QED BY <2>3, <2>4, <2>5, <2>6 DEF SoloInv
<1> QED BY <1>9, <1>10, <1>12, <1>13, <1>14 DEF FInv

\* A thread overwrites a handle that the host had not open with its null device.
LEMMA DupKeeps ==
  ASSUME FInv, NEW t \in Threads, Dup(t)
  PROVE  FInv'
<1> DEFINE at == repair[t].at
           devnull == repair[t].devnull
           Repairs == [at : Handles, devnull : -1 .. MaxFd, replaced : SUBSET Handles]
           r == [repair[t] EXCEPT !.at = 2, !.replaced = @ \cup {at}]
           to == IF at = 1 THEN "check" ELSE "close"
<1>1. /\ pc[t] = "dup" /\ pc' = [pc EXCEPT ![t] = to] /\ fd' = [fd EXCEPT ![at] = fd[devnull]]
      /\ repair' = [repair EXCEPT ![t] = r]
      /\ UNCHANGED <<go, initial, overlap>>
  <2>1. repair \in [Threads -> Repairs]
    BY DEF FInv, FileTypes
  <2> QED BY <2>1 DEF Dup, At, Goto, AfterHandle, R, fixed
<1>2. /\ at \in Handles /\ FileTypes /\ Owner(t) /\ initial[at] = "closed" /\ Loading(t)
      /\ devnull \in Descriptors /\ fd[devnull] = "null" /\ devnull >= 0
      /\ repair[t].replaced \in SUBSET Handles
  <2>1. FileTypes
    BY DEF FInv
  <2>2. devnull >= 0 /\ initial[at] = "closed"
    BY <1>1 DEF FInv, OwnerInv
  <2>3. Owner(t)
    BY <1>1, <2>2 DEF Owner
  <2>4. fd[devnull] = "null"
    BY <2>3 DEF FInv, OwnerInv
  <2> QED BY <1>1, <2>1, <2>2, <2>3, <2>4, RepairTypes DEF Loading
<1>3. at \in Descriptors /\ fd[at] # "host"
  BY <1>2, Sizes DEF FInv, HostInv
<1>4. r \in Repairs /\ r.at = 2 /\ r.devnull = devnull /\ r.replaced = repair[t].replaced \cup {at}
  <2>1. repair[t] \in Repairs
    BY <1>2 DEF FileTypes
  <2>2. repair[t].replaced \cup {at} \in SUBSET Handles /\ 2 \in Handles
    BY <1>2 DEF Handles
  <2>3. PICK new : new = repair[t].replaced \cup {at}
    OBVIOUS
  <2>4. r = [repair[t] EXCEPT !.at = 2, !.replaced = new]
    BY <2>3
  <2>5. r \in Repairs /\ r.at = 2 /\ r.devnull = devnull /\ r.replaced = new
    <3> HIDE DEF at
    <3> QED BY <2>1, <2>2, <2>3, <2>4
  <2> QED BY <2>3, <2>5
<1>5. to \in PCs /\ to \in {"check", "close"}
  BY DEF PCs
<1> HIDE DEF r
<1>6. /\ \A u \in Threads : u # t => pc'[u] = pc[u] /\ repair'[u] = repair[u]
      /\ pc'[t] = to /\ repair'[t] = r
      /\ \A u \in Threads : u # t => (Owner(u)' <=> Owner(u)) /\ (Loading(u)' <=> Loading(u))
      /\ pc' \in [Threads -> PCs] /\ repair' \in [Threads -> Repairs]
  BY <1>1, <1>2, <1>4, <1>5, OneThreadSteps
<1> HIDE DEF Repairs
<1>7. /\ \A e \in Descriptors : fd'[e] = IF e = at THEN "null" ELSE fd[e]
      /\ fd' \in [Descriptors -> {"closed", "host", "null", "go"}]
  BY <1>1, <1>2, <1>3 DEF FileTypes
<1>8. \A e \in Descriptors : Usable(e) => Usable(e)'
  BY <1>7 DEF Usable
<1>9. /\ \A u \in Threads : (Owner(u)' <=> Owner(u)) /\ repair'[u].devnull = repair[u].devnull
      /\ \A u \in Threads : Loading(u)' <=> Loading(u)
  BY <1>2, <1>4, <1>5, <1>6 DEF Owner, Loading
<1>10. FileTypes'
  BY <1>1, <1>2, <1>6, <1>7 DEF FileTypes, Repairs
<1>11. HostInv'
  <2>1. \A e \in Descriptors : fd'[e] = "host" <=> initial'[e] = "host"
    BY <1>1, <1>3, <1>7 DEF FInv, HostInv
  <2>2. \A e \in Descriptors \ Handles : fd'[e] = "null" => fd[e] = "null"
    BY <1>2, <1>7
  <2> QED BY <1>9, <2>1, <2>2 DEF FInv, HostInv
<1>12. OwnerInv'
  <2>1. \A u \in Threads : Owner(u)' => fd'[repair'[u].devnull] = "null"
    <3>1. \A u \in Threads : Owner(u) => fd[repair[u].devnull] = "null" /\ repair[u].devnull \in Descriptors
      BY <1>2, RepairTypes DEF FInv, OwnerInv, Owner
    <3> QED BY <1>7, <1>9, <3>1
  <2>2. \A u, v \in Threads :
           Owner(u)' /\ Owner(v)' /\ u # v => repair'[u].devnull # repair'[v].devnull
    BY <1>9 DEF FInv, OwnerInv
  <2>3. \A u \in Threads :
           /\ pc'[u] = "open" => repair'[u].devnull = -1
           /\ pc'[u] = "dup" => repair'[u].devnull >= 0
           /\ pc'[u] \in {"open", "dup"} => initial'[repair'[u].at] = "closed"
    BY <1>1, <1>5, <1>6 DEF FInv, OwnerInv
  <2> QED BY <2>1, <2>2, <2>3 DEF OwnerInv
<1>13. GoInv' /\ InitInv' /\ FirstInv'
  <2>1. /\ \A e \in Descriptors : fd'[e] = "go" => fd[e] = "go"
        /\ \A e \in go \ Handles : fd[e] = "go" => fd'[e] = "go"
    BY <1>2, <1>7 DEF FileTypes
  <2>2. \A u \in Threads : pc'[u] = "init" => pc[u] = "init"
    BY <1>5, <1>6
  <2>3. FirstOf(t)'
    <3>1. FirstOf(t)
      BY DEF FInv, FirstInv
    <3>2. devnull = 1 => 1 \in repair[t].replaced \cup {at}
      BY <1>2, <3>1 DEF FirstOf
    <3>3. Usable(1)'
      BY <1>1, <1>2, <1>3, <1>7, <1>8, <3>1, Sizes DEF FirstOf, Handles, Usable
    <3> QED BY <1>4, <1>6, <3>2, <3>3 DEF FirstOf
  <2> QED BY <1>1, <1>6, <1>8, <2>1, <2>2, <2>3, GoKept, InitKept, FirstKept, Sizes DEF FInv, Handles
<1>14. SoloInv'
  <2>1. (Solo' <=> Solo) /\ 1 \in Descriptors /\ 2 \in Descriptors
    BY <1>1, Sizes DEF Solo, BothWereUnusable, Handles
  <2>2. SoloInv
    BY DEF FInv
  <2>3. ~overlap' => \A u, v \in Threads : Loading(u)' /\ Loading(v)' => u = v
    BY <1>1, <1>9, <2>2 DEF SoloInv
  <2>4. ~overlap' => \A u \in Threads : pc'[u] = "open" => ~Usable(repair[u].at)'
    <3>1. ASSUME ~overlap', NEW u \in Threads, pc'[u] = "open" PROVE FALSE
      <4>1. u # t /\ Loading(u)' /\ Loading(t)'
        BY <1>2, <1>5, <1>6, <1>9, <3>1 DEF Loading
      <4> QED BY <2>3, <3>1, <4>1
    <3> QED BY <3>1
  <2>5. ASSUME Solo', NEW u \in Threads
        PROVE  /\ Owner(u)' /\ repair'[u].devnull \in Handles =>
                    \/ repair'[u].devnull \in repair'[u].replaced
                    \/ pc'[u] = "dup" /\ repair'[u].devnull = repair'[u].at
               /\ pc'[u] \in {"close", "dlopen"} => Usable(2)'
    <3>1. CASE u = t
      <4>2. devnull \in Handles => devnull \in repair[t].replaced \cup {at}
        BY <1>2, <2>1, <2>2, <2>5 DEF SoloInv
      <4>3. fd'[at] # "closed"
        BY <1>3, <1>7
      <4>4. (at = 1 /\ to = "check") \/ (at = 2 /\ to = "close")
        BY <1>2 DEF Handles
      <4>6. to = "close" => Usable(2)'
        BY <4>3, <4>4 DEF Usable
      <4>7. to \notin {"open", "dup", "dlopen"}
        BY <1>5
      <4> HIDE DEF to
      <4> QED BY <1>4, <1>6, <3>1, <4>2, <4>6, <4>7
    <3>2. CASE u # t
      BY <1>1, <1>6, <1>8, <2>1, <2>2, <2>5, <3>2 DEF SoloInv
    <3> QED BY <3>1, <3>2
  <2>6. Solo' /\ go' # {} => Usable(2)'
    BY <1>1, <1>8, <2>1, <2>2 DEF SoloInv
  <2> QED BY <2>3, <2>4, <2>5, <2>6 DEF SoloInv
<1> QED BY <1>10, <1>11, <1>12, <1>13, <1>14 DEF FInv

\* A thread closes its own null device, unless it has become a handle.
LEMMA CloseKeeps ==
  ASSUME FInv, NEW t \in Threads, CloseRedundant(t)
  PROVE  FInv'
<1> DEFINE devnull == repair[t].devnull
<1>1. /\ pc[t] = "close" /\ pc' = [pc EXCEPT ![t] = "dlopen"]
      /\ fd' = IF Redundant(t) THEN [fd EXCEPT ![devnull] = "closed"] ELSE fd
      /\ UNCHANGED <<go, repair, initial, overlap>>
  BY DEF CloseRedundant, At, Goto, R, fixed, locals
<1>2. /\ FileTypes /\ Loading(t) /\ repair[t].replaced \in SUBSET Handles
      /\ devnull >= 0 => devnull \in Descriptors /\ Owner(t)
      /\ Owner(t) => fd[devnull] = "null" /\ devnull >= 0
      /\ Redundant(t) <=> devnull >= 0 /\ devnull \notin repair[t].replaced
  <2>1. FileTypes
    BY DEF FInv
  <2>2. Owner(t) => fd[devnull] = "null" /\ devnull >= 0
    BY DEF Owner, FInv, OwnerInv
  <2> QED BY <1>1, <2>1, <2>2, RepairTypes DEF Owner, Loading, Redundant, R
<1>3. /\ pc' \in [Threads -> PCs] /\ pc'[t] = "dlopen" /\ \A u \in Threads : u # t => pc'[u] = pc[u]
  BY <1>1, <1>2 DEF FileTypes, PCs
<1>4. /\ \A u \in Threads : u # t => (Owner(u)' <=> Owner(u))
      /\ \A u \in Threads : Loading(u)' <=> Loading(u)
      /\ ~Owner(t)'
  BY <1>1, <1>2, <1>3 DEF Owner, Loading
<1>5. /\ \A e \in Descriptors : fd'[e] = IF Redundant(t) /\ e = devnull THEN "closed" ELSE fd[e]
      /\ fd' \in [Descriptors -> {"closed", "host", "null", "go"}]
  BY <1>1, <1>2 DEF FileTypes
<1>6. Redundant(t) => fd[devnull] = "null" /\ Owner(t)
  BY <1>2
<1>7. FileTypes'
  BY <1>1, <1>2, <1>3, <1>5 DEF FileTypes
<1>8. HostInv'
  <2>1. \A e \in Descriptors : fd'[e] = "host" <=> initial'[e] = "host"
    BY <1>1, <1>5, <1>6 DEF FInv, HostInv
  <2>2. ASSUME NEW e \in Descriptors \ Handles, fd'[e] = "null"
        PROVE  \E u \in Threads : Owner(u)' /\ repair'[u].devnull = e
    <3>1. fd[e] = "null" /\ ~(Redundant(t) /\ e = devnull)
      BY <1>5, <2>2
    <3>2. PICK u \in Threads : Owner(u) /\ repair[u].devnull = e
      BY <3>1 DEF FInv, HostInv
    <3>3. u # t
      BY <1>2, <3>1, <3>2
    <3> QED BY <1>1, <1>4, <3>2, <3>3
  <2> QED BY <2>1, <2>2 DEF HostInv
<1>9. \A u \in Threads : u # t /\ Owner(u) =>
         /\ fd[repair[u].devnull] = "null" /\ repair[u].devnull \in Descriptors
         /\ Redundant(t) => repair[u].devnull # devnull
  <2>1. \A u \in Threads : Owner(u) => fd[repair[u].devnull] = "null" /\ repair[u].devnull \in Descriptors
    BY <1>2, RepairTypes DEF FInv, OwnerInv, Owner
  <2> QED BY <1>6, <2>1 DEF FInv, OwnerInv
<1>10. OwnerInv'
  <2>1. \A u \in Threads : Owner(u)' => fd'[repair'[u].devnull] = "null"
    BY <1>1, <1>4, <1>5, <1>9
  <2>2. \A u, v \in Threads :
           Owner(u)' /\ Owner(v)' /\ u # v => repair'[u].devnull # repair'[v].devnull
    BY <1>1, <1>4 DEF FInv, OwnerInv
  <2>3. \A u \in Threads :
           /\ pc'[u] = "open" => repair'[u].devnull = -1
           /\ pc'[u] = "dup" => repair'[u].devnull >= 0
           /\ pc'[u] \in {"open", "dup"} => initial'[repair'[u].at] = "closed"
    BY <1>1, <1>3 DEF FInv, OwnerInv
  <2> QED BY <2>1, <2>2, <2>3 DEF OwnerInv
<1>11. GoInv' /\ InitInv' /\ FirstInv'
  <2>1. /\ \A e \in Descriptors : fd'[e] = "go" => fd[e] = "go"
        /\ \A e \in go \ Handles : fd[e] = "go" => fd'[e] = "go"
    BY <1>2, <1>5, <1>6 DEF FileTypes
  <2>2. \A u \in Threads : pc'[u] = "init" => pc[u] = "init"
    BY <1>3
  <2>3. FirstOf(t)
    BY DEF FInv, FirstInv
  <2>4. Usable(1) => Usable(1)'
    <3>1. Redundant(t) => devnull # 1
      BY <1>1, <1>2, <2>3 DEF FirstOf
    <3> QED BY <1>5, <3>1, Sizes DEF Usable, Handles
  <2>5. FirstOf(t)'
    BY <1>1, <1>3, <1>4, <2>3, <2>4 DEF FirstOf
  <2> QED BY <1>1, <1>3, <1>4, <2>1, <2>2, <2>4, <2>5, GoKept, InitKept, FirstKept DEF FInv
<1>12. SoloInv'
  <2>1. (Solo' <=> Solo) /\ 1 \in Descriptors /\ 2 \in Descriptors
    BY <1>1, Sizes DEF Solo, BothWereUnusable, Handles
  <2>2. SoloInv
    BY DEF FInv
  <2>3. ~overlap' => \A u, v \in Threads : Loading(u)' /\ Loading(v)' => u = v
    BY <1>1, <1>4, <2>2 DEF SoloInv
  <2>4. ~overlap' => \A u \in Threads : pc'[u] = "open" => ~Usable(repair[u].at)'
    <3>1. ASSUME ~overlap', NEW u \in Threads, pc'[u] = "open" PROVE FALSE
      <4>1. u # t /\ Loading(u)' /\ Loading(t)'
        BY <1>2, <1>3, <1>4, <3>1 DEF Loading
      <4> QED BY <2>3, <3>1, <4>1
    <3> QED BY <3>1
  <2>5. ASSUME Solo
        PROVE  \A e \in Handles : Usable(e) => Usable(e)'
    <3>1. Redundant(t) => devnull \notin Handles
      BY <1>1, <1>2, <2>2, <2>5 DEF SoloInv
    <3> QED BY <1>5, <3>1, Sizes DEF Usable
  <2>6. ASSUME Solo', NEW u \in Threads
        PROVE  /\ Owner(u)' /\ repair'[u].devnull \in Handles =>
                    \/ repair'[u].devnull \in repair'[u].replaced
                    \/ pc'[u] = "dup" /\ repair'[u].devnull = repair'[u].at
               /\ pc'[u] \in {"close", "dlopen"} => Usable(2)'
    <3>a. \A e \in {1, 2} : Usable(e) => Usable(e)'
      BY <2>1, <2>5, <2>6 DEF Handles
    <3>1. CASE u = t
      <4>1. Usable(2)
        BY <1>1, <2>1, <2>2, <2>6 DEF SoloInv
      <4> QED BY <1>3, <1>4, <3>a, <3>1, <4>1
    <3>2. CASE u # t
      BY <1>1, <1>3, <1>4, <2>1, <2>2, <2>6, <3>a, <3>2 DEF SoloInv
    <3> QED BY <3>1, <3>2
  <2>7. Solo' /\ go' # {} => Usable(2)'
    <3>1. Solo => \A e \in {1, 2} : Usable(e) => Usable(e)'
      BY <2>5 DEF Handles
    <3> QED BY <1>1, <2>1, <2>2, <3>1 DEF SoloInv
  <2> QED BY <2>3, <2>4, <2>6, <2>7 DEF SoloInv
<1> QED BY <1>7, <1>8, <1>10, <1>11, <1>12 DEF FInv

\* The Go side opens two descriptors that nobody had.
LEMMA GoOpens ==
  ASSUME FInv, NEW t \in Threads, SanitizeStdio(t), ~keepStdio
  PROVE  \E out, err \in Descriptors :
           /\ out # err /\ fd[out] = "closed" /\ fd[err] = "closed"
           /\ go' = go \cup {out, err}
           /\ \A e \in Descriptors : fd'[e] = IF e \in {out, err} THEN "go" ELSE fd[e]
           /\ fd' \in [Descriptors -> {"closed", "host", "null", "go"}]
<1> DEFINE out == LowestClosed(fd)
           between == [fd EXCEPT ![out] = "go"]
           err == LowestClosed(between)
<1>1. /\ fd \in [Descriptors -> {"closed", "host", "null", "go"}]
      /\ ~Owner(t) /\ \A d \in Descriptors : fd[d] # "go"
  BY DEF FInv, FileTypes, SanitizeStdio, At, Owner, InitInv
<1>2. out \in Descriptors /\ fd[out] = "closed"
  <2>1. \E d \in Descriptors : fd[d] = "closed"
    BY <1>1, RoomToOpen
  <2> QED BY <2>1, LowestIsClosed
<1>3. err \in Descriptors /\ between[err] = "closed"
  <2>1. \E d \in Descriptors : between[d] = "closed"
    <3> HIDE DEF out
    <3> QED BY <1>1, RoomToOpen
  <2> HIDE DEF between
  <2> QED BY <2>1, LowestIsClosed
<1>4. go' = go \cup {out, err} /\ fd' = [fd EXCEPT ![out] = "go", ![err] = "go"]
  BY DEF SanitizeStdio
<1> HIDE DEF out, err
<1>5. out # err /\ fd[err] = "closed"
  BY <1>1, <1>2, <1>3
<1>6. /\ \A e \in Descriptors : fd'[e] = IF e \in {out, err} THEN "go" ELSE fd[e]
      /\ fd' \in [Descriptors -> {"closed", "host", "null", "go"}]
  BY <1>1, <1>2, <1>3, <1>4, <1>5
<1> QED BY <1>2, <1>3, <1>4, <1>5, <1>6

\* The packages of the library are initialised: Go binds the handles as they are.
LEMMA PackageInitKeeps ==
  ASSUME FInv, NEW t \in Threads, PackageInit(t)
  PROVE  FInv'
<1>1. /\ pc[t] = "dlopen" /\ pc' = [pc EXCEPT ![t] = "init"] /\ "init" \in PCs
      /\ go = {} /\ go' = Handles /\ UNCHANGED <<fd, repair, initial, overlap>>
  BY DEF PackageInit, At, Goto, fixed, locals, PCs
<1>2. /\ FileTypes /\ pc' \in [Threads -> PCs] /\ pc'[t] = "init" /\ Loading(t) /\ FirstOf(t)
      /\ \A u \in Threads : u # t => pc'[u] = pc[u]
  BY <1>1 DEF FInv, FileTypes, Loading, FirstInv
<1>3. /\ \A u \in Threads : (Owner(u)' <=> Owner(u)) /\ (Loading(u)' <=> Loading(u))
      /\ ~Owner(t)'
  BY <1>1, <1>2 DEF Owner, Loading
<1>4. FileTypes'
  BY <1>1, <1>2, Sizes DEF FileTypes
<1>5. HostInv' /\ OwnerInv'
  BY <1>1, <1>2, <1>3 DEF FInv, HostInv, OwnerInv
<1>6. \A d \in Descriptors : fd[d] # "go"
  BY <1>1 DEF FInv, GoInv
<1>7. GoInv'
  BY <1>1, <1>6 DEF GoInv
<1>8. InitInv'
  <2>1. \A u \in Threads : pc[u] # "init"
    BY <1>1 DEF FInv, InitInv, Handles
  <2> QED BY <1>1, <1>2, <1>6, <2>1 DEF InitInv
<1>9. FirstInv'
  <2>1. Usable(1)'
    BY <1>1, <1>2 DEF FirstOf, Usable
  <2>2. ASSUME NEW u \in Threads PROVE FirstOf(u)'
    BY <1>1, <1>2, <1>3, <2>1 DEF FInv, FirstInv, FirstOf
  <2> QED BY <2>1, <2>2 DEF FirstInv
<1>10. SoloInv'
  <2>1. (Solo' <=> Solo) /\ SoloInv
    BY <1>1 DEF FInv, Solo, BothWereUnusable
  <2>2. Solo => Usable(2)'
    BY <1>1, <2>1 DEF SoloInv, Usable
  <2>3. \A u \in Threads : u # t => pc'[u] = pc[u] /\ repair'[u] = repair[u]
    BY <1>1, <1>2
  <2>4. /\ ~overlap' => \A u, v \in Threads : Loading(u)' /\ Loading(v)' => u = v
        /\ ~overlap' => \A u \in Threads : pc'[u] = "open" => ~Usable(repair[u].at)'
    BY <1>1, <1>2, <1>3, <2>1 DEF SoloInv, Usable
  <2>5. ASSUME Solo', NEW u \in Threads
        PROVE  /\ Owner(u)' /\ repair'[u].devnull \in Handles =>
                    \/ repair'[u].devnull \in repair'[u].replaced
                    \/ pc'[u] = "dup" /\ repair'[u].devnull = repair'[u].at
               /\ pc'[u] \in {"close", "dlopen"} => Usable(2)'
    <3>1. CASE u = t
      BY <1>2, <1>3, <3>1
    <3>2. CASE u # t
      BY <1>1, <1>3, <2>1, <2>2, <2>3, <2>5, <3>2 DEF SoloInv
    <3> QED BY <3>1, <3>2
  <2> QED BY <2>1, <2>2, <2>4, <2>5 DEF SoloInv
<1> QED BY <1>4, <1>5, <1>7, <1>8, <1>9, <1>10 DEF FInv

\* The init of cbind leaves the handles bound and opens Go's own null device.
LEMMA SanitizeKeeps ==
  ASSUME FInv, NEW t \in Threads, SanitizeStdio(t)
  PROVE  FInv'
<1>1. /\ pc[t] = "init" /\ pc' = [pc EXCEPT ![t] = "bind"] /\ "bind" \in PCs
      /\ UNCHANGED <<repair, initial, overlap>>
      /\ keepStdio => UNCHANGED <<fd, go>>
  BY DEF SanitizeStdio, At, Goto, fixed, files, locals, PCs
<1>2. CASE keepStdio
  BY <1>1, <1>2, QuietStep
<1>3. CASE ~keepStdio
  <2>1. /\ FileTypes /\ pc' \in [Threads -> PCs] /\ pc'[t] = "bind" /\ Loading(t)
        /\ \A u \in Threads : u # t => pc'[u] = pc[u]
    BY <1>1 DEF FInv, FileTypes, Loading
  <2>2. /\ \A u \in Threads : (Owner(u)' <=> Owner(u)) /\ (Loading(u)' => Loading(u) /\ u # t)
        /\ ~Owner(t)
    BY <1>1, <2>1 DEF Owner, Loading
  <2>3. PICK out, err \in Descriptors :
           /\ out # err /\ fd[out] = "closed" /\ fd[err] = "closed"
           /\ go' = go \cup {out, err}
           /\ \A e \in Descriptors : fd'[e] = IF e \in {out, err} THEN "go" ELSE fd[e]
           /\ fd' \in [Descriptors -> {"closed", "host", "null", "go"}]
    BY <1>3, GoOpens
  <2>a. go = Handles /\ (\A d \in Descriptors : fd[d] # "go") /\ \A u \in Threads : u # t => pc[u] # "init"
    BY <1>1 DEF FInv, InitInv
  <2>4. FileTypes'
    <3>1. go' \subseteq Descriptors /\ \A d \in Descriptors : fd'[d] = "go" => d \in {out, err}
      BY <2>1, <2>3, <2>a, Sizes
    <3> QED BY <1>1, <2>1, <2>3, <3>1 DEF FileTypes
  <2>5. HostInv'
    <3>1. \A e \in Descriptors : fd'[e] = "host" <=> initial'[e] = "host"
      BY <1>1, <2>3 DEF FInv, HostInv
    <3>2. \A e \in Descriptors \ Handles : fd'[e] = "null" => fd[e] = "null"
      BY <2>3
    <3> QED BY <1>1, <2>2, <3>1, <3>2 DEF FInv, HostInv
  <2>6. \A u \in Threads : Owner(u) => /\ fd[repair[u].devnull] = "null"
                                       /\ repair[u].devnull \in Descriptors
    BY <2>1, RepairTypes DEF FInv, OwnerInv, Owner
  <2>7. OwnerInv'
    <3>1. \A u \in Threads : Owner(u)' => fd'[repair'[u].devnull] = "null"
      BY <1>1, <2>2, <2>3, <2>6
    <3>2. \A u, v \in Threads :
             Owner(u)' /\ Owner(v)' /\ u # v => repair'[u].devnull # repair'[v].devnull
      BY <1>1, <2>2 DEF FInv, OwnerInv
    <3>3. \A u \in Threads :
             /\ pc'[u] = "open" => repair'[u].devnull = -1
             /\ pc'[u] = "dup" => repair'[u].devnull >= 0
             /\ pc'[u] \in {"open", "dup"} => initial'[repair'[u].at] = "closed"
      BY <1>1, <2>1 DEF FInv, OwnerInv
    <3> QED BY <3>1, <3>2, <3>3 DEF OwnerInv
  <2>8. GoInv' /\ InitInv'
    <3>1. \A e \in Descriptors : fd'[e] = "go" => e \in go'
      BY <2>3, <2>a
    <3>2. \A e \in go' \ Handles : fd'[e] = "go"
      BY <2>3, <2>a
    <3>3. \A u \in Threads : pc'[u] # "init"
      BY <2>1, <2>a
    <3> QED BY <3>1, <3>2, <3>3 DEF GoInv, InitInv
  <2>9. SoloInv'
    <3>1. /\ Solo' <=> Solo
          /\ \A e \in Descriptors : Usable(e) => Usable(e)'
          /\ 1 \in Descriptors /\ 2 \in Descriptors
      <4>1. Solo' <=> Solo
        BY <1>1 DEF Solo, BothWereUnusable
      <4>2. \A e \in Descriptors : Usable(e) => Usable(e)'
        BY <2>3 DEF Usable
      <4> QED BY <4>1, <4>2, Sizes DEF Handles
    <3>2. SoloInv
      BY DEF FInv
    <3>3. ~overlap' => \A u, v \in Threads : Loading(u)' /\ Loading(v)' => u = v
      BY <1>1, <2>2, <3>2 DEF SoloInv
    <3>4. ~overlap' => \A u \in Threads : pc'[u] = "open" => ~Usable(repair[u].at)'
      <4>1. ASSUME ~overlap', NEW u \in Threads, pc'[u] = "open" PROVE FALSE
        <5>1. u # t /\ Loading(u) /\ Loading(t) /\ ~overlap
          BY <1>1, <2>1, <4>1 DEF Loading
        <5> QED BY <3>2, <5>1 DEF SoloInv
      <4> QED BY <4>1
    <3>5. ASSUME Solo', NEW u \in Threads
          PROVE  /\ Owner(u)' /\ repair'[u].devnull \in Handles =>
                      \/ repair'[u].devnull \in repair'[u].replaced
                      \/ pc'[u] = "dup" /\ repair'[u].devnull = repair'[u].at
                 /\ pc'[u] \in {"close", "dlopen"} => Usable(2)'
      <4>1. CASE u = t
        BY <2>1, <2>2, <4>1
      <4>2. CASE u # t
        BY <1>1, <2>1, <2>2, <3>1, <3>2, <3>5, <4>2 DEF SoloInv
      <4> QED BY <4>1, <4>2
    <3>6. Solo' /\ go' # {} => Usable(2)'
      BY <1>1, <2>a, <3>1, <3>2 DEF Handles, SoloInv
    <3> QED BY <3>3, <3>4, <3>5, <3>6 DEF SoloInv
  <2>10. FirstInv'
    <3>1. Usable(1)
      BY <2>a DEF FInv, FirstInv, Handles
    <3>2. Usable(1)'
      BY <2>3, <3>1, Sizes DEF Usable, Handles
    <3>3. ASSUME NEW u \in Threads PROVE FirstOf(u)'
      BY <1>1, <2>1, <2>2, <3>2 DEF FInv, FirstInv, FirstOf
    <3> QED BY <3>2, <3>3 DEF FirstInv
  <2> QED BY <2>4, <2>5, <2>7, <2>8, <2>9, <2>10 DEF FInv
<1> QED BY <1>2, <1>3

\* Every step keeps the invariant of the descriptors.
LEMMA FStep == FInv /\ [Next]_vars => FInv'
<1> SUFFICES ASSUME FInv, [Next]_vars PROVE FInv'
  OBVIOUS
<1>1. CASE UNCHANGED vars
  <2>1. UNCHANGED <<fd, go, repair, initial, overlap, pc>>
    BY <1>1 DEF vars, files, fixed, locals
  <2>2. \A t \in Threads : (Owner(t)' <=> Owner(t)) /\ (Loading(t)' <=> Loading(t))
    BY <2>1 DEF Owner, Loading
  <2>3. FileTypes' /\ HostInv' /\ OwnerInv' /\ GoInv' /\ InitInv' /\ FirstInv'
    BY <2>1, <2>2 DEF FInv, FileTypes, HostInv, OwnerInv, GoInv, InitInv, FirstInv, FirstOf, Usable
  <2>4. SoloInv'
    BY <2>1, <2>2 DEF FInv, SoloInv, Solo, BothWereUnusable, Usable
  <2> QED BY <2>3, <2>4 DEF FInv
<1>2. ASSUME NEW t \in Threads, \/ UseDirectly(t) \/ \E r \in Requests : GetScanner(t, r)
      PROVE  FInv'
  <2>1. /\ pc[t] = "idle" /\ UNCHANGED <<fd, go, repair, initial, overlap>>
        /\ \E to \in {"read", "attr"} : pc' = [pc EXCEPT ![t] = to]
    BY <1>2 DEF UseDirectly, GetScanner, Call, At, Goto, files, fixed
  <2> QED BY <2>1, QuietStep DEF PCs
<1>3. ASSUME NEW t \in Threads, Continue(t)
      PROVE  FInv'
  <2>1. CASE BeginLoad(t)
    BY <2>1, BeginLoadKeeps
  <2>2. CASE HandleIsUsable(t) \/ HandleIsUnusable(t)
    BY <2>2, LookKeeps
  <2>3. CASE OpenNull(t)
    BY <2>3, OpenKeeps
  <2>4. CASE Dup(t)
    BY <2>4, DupKeeps
  <2>5. CASE CloseRedundant(t)
    BY <2>5, CloseKeeps
  <2>6. CASE PackageInit(t) \/ SanitizeStdio(t)
    BY <2>6, PackageInitKeeps, SanitizeKeeps
  <2>7. CASE \/ CacheHit(t) \/ CacheMiss(t) \/ TakeLock(t) \/ HitUnderLock(t)
             \/ ConstructUnderLock(t) \/ ConstructionRaises(t) \/ Store(t) \/ DirectUseReturns(t)
             \/ AlreadyLoaded(t) \/ LibraryMissing(t) \/ DlopenFails(t) \/ DlopenAgain(t)
             \/ Bind(t)
    <3>1. /\ pc[t] \in {"read", "lock", "locked", "use", "attr", "dlopen", "bind"}
          /\ UNCHANGED <<fd, go, repair, initial, overlap>>
          /\ \E to \in {"idle", "lock", "locked", "attr", "bind", "use"} : pc' = [pc EXCEPT ![t] = to]
      BY <2>7 DEF CacheHit, CacheMiss, TakeLock, HitUnderLock, ConstructUnderLock,
         ConstructionRaises, Store, DirectUseReturns, AlreadyLoaded, LibraryMissing, DlopenFails,
         DlopenAgain, Bind, Raise, At, Goto, files, fixed, locals
    <3> QED BY <3>1, QuietStep DEF PCs
  <2> QED BY <1>3, <2>1, <2>2, <2>3, <2>4, <2>5, <2>6, <2>7 DEF Continue, Load
<1> QED BY <1>1, <1>2, <1>3 DEF Next

\* The invariant of the descriptors holds in every reachable state.
LEMMA FInductive == Spec => []FInv
BY FInit, FStep, PTL DEF Spec

\* "Working streams are left alone", whatever first uses overlap, and nothing is
\* left open but repaired handles and what the Go side has opened.
THEOREM HostFilesAreUntouched == Spec => []HostFilesUntouched
<1>1. FInv => HostFilesUntouched
  <2> SUFFICES ASSUME FInv PROVE HostFilesUntouched
    OBVIOUS
  <2>1. \A d \in Descriptors : initial[d] = "host" => fd[d] = "host"
    BY DEF FInv, HostInv
  <2>2. ASSUME \A t \in Threads : ~Loading(t), NEW d \in Descriptors \ Handles, fd[d] # initial[d]
        PROVE  fd[d] = "go"
    <3>1. fd[d] # "host" /\ fd[d] # "closed" /\ fd[d] \in {"closed", "host", "null", "go"}
      BY <2>1, <2>2 DEF FInv, HostInv, FileTypes
    <3>2. fd[d] # "null"
      BY <2>2 DEF FInv, HostInv, Owner, Loading
    <3> QED BY <3>1, <3>2
  <2> QED BY <2>1, <2>2 DEF HostFilesUntouched
<1> QED BY <1>1, FInductive, PTL

\* The descriptors the Go side has bound stay open, the host's handles from the
\* moment its packages are initialised: stdout whoever loads the library, stderr
\* unless both were unusable and two repairs overlapped.
THEOREM GoDescriptorsStayOpen == Spec => []GoHandlesStayOpen
<1>1. FInv => GoHandlesStayOpen
  <2> SUFFICES ASSUME FInv, NEW d \in go, ~(d = 2 /\ overlap /\ BothWereUnusable)
               PROVE  Usable(d)
    BY DEF GoHandlesStayOpen
  <2>1. CASE d = 1
    BY <2>1 DEF FInv, FirstInv
  <2>2. CASE d = 2
    BY <2>2 DEF FInv, SoloInv, Solo
  <2>3. CASE d \notin Handles
    BY <2>3 DEF FInv, GoInv, Usable
  <2> QED BY <2>1, <2>2, <2>3 DEF Handles
<1> QED BY <1>1, FInductive, PTL

\* The types, and a null device that is about to be copied over a handle is open.
THEOREM TypeCorrect == Spec => []TypeOK
<1> DEFINE Flag == dll \in BOOLEAN
<1>1. Spec => []Flag
  <2>1. Init => Flag
    BY DEF Init
  <2>2. Flag /\ [Next]_vars => Flag'
    <3> SUFFICES ASSUME Flag, [Next]_vars PROVE Flag'
      OBVIOUS
    <3>1. dll' = dll \/ dll' = TRUE
      BY DEF Next, Continue, Load, CacheHit, CacheMiss, TakeLock, HitUnderLock, ConstructUnderLock,
         ConstructionRaises, Store, DirectUseReturns, AlreadyLoaded, LibraryMissing, BeginLoad,
         HandleIsUsable, HandleIsUnusable, OpenNull, Dup, CloseRedundant, DlopenFails,
         PackageInit, SanitizeStdio, DlopenAgain, Bind, UseDirectly, GetScanner, Call, Raise, shared, vars
    <3> QED BY <3>1
  <2> QED BY <2>1, <2>2, PTL DEF Spec
<1>2. CInv /\ FInv /\ Flag => TypeOK
  <2> SUFFICES ASSUME CInv, FInv, Flag PROVE TypeOK
    OBVIOUS
  <2>1. Len(built) \in 0 .. MaxCalls
    <3>1. Cardinality(Active) \in Nat
      BY ActiveIsFinite DEF Active
    <3>2. Len(built) \in Nat
      BY DEF CInv, CacheInv
    <3> QED BY <3>1, <3>2, SizesAssumption DEF CInv, CallsInv
  <2>2. \A t \in Threads : pc[t] = "dup" => Usable(R(t).devnull)
    BY DEF FInv, OwnerInv, Owner, Usable, R
  <2>3. /\ fd \in [Descriptors -> {"closed", "host", "null", "go"}]
        /\ go \subseteq Descriptors /\ overlap \in BOOLEAN
        /\ repair \in [Threads -> [at : Handles, devnull : -1 .. MaxFd, replaced : SUBSET Handles]]
    BY DEF FInv, FileTypes
  <2>4. /\ cache \in [Keys -> 0 .. Len(built)] /\ calls \in 0 .. MaxCalls
        /\ lock \in Threads \cup {Nobody}
        /\ pc \in [Threads -> PCs] /\ asked \in [Threads -> Requests \cup {Nobody}]
        /\ answers \subseteq Requests \X (1 .. Len(built))
    BY DEF CInv, LockInv, CacheInv, CallsInv
  <2> QED BY <2>1, <2>2, <2>3, <2>4 DEF TypeOK
<1> HIDE DEF Flag
<1> QED BY <1>1, <1>2, CInductive, FInductive, PTL
=============================================================================

-------------------------- MODULE Selection_proofs --------------------------
(***************************************************************************)
(* Proofs about Selection, for any pool, parser, profiles and lists: the   *)
(* scanner made looks for exactly the detectors the config asks for, each  *)
(* listed once and warmed, and a config is rejected exactly if it is a     *)
(* mistake.                                                                *)
(***************************************************************************)
EXTENDS Selection, WellFoundedInduction, TLAPS

-----------------------------------------------------------------------------
(* The pool.                                                               *)

\* Induction up to a bound, for a set.
LEMMA EveryCount ==
  ASSUME NEW N \in Nat, NEW S, 0 \in S, \A n \in 0 .. N - 1 : n \in S => n + 1 \in S
  PROVE  \A n \in 0 .. N : n \in S
<1> DEFINE T == (0 .. N) \ S
<1> SUFFICES ASSUME T # {} PROVE FALSE
  OBVIOUS
<1>1. T \subseteq Nat
  OBVIOUS
<1>2. PICK x \in T : \A y \in T : <<y, x>> \notin OpToRel(<, Nat)
  <2> HIDE DEF T
  <2> QED BY <1>1, WFMin, NatLessThanWellFounded, Zenon
<1>3. x \in 0 .. N /\ x \notin S
  BY <1>2, Zenon
<1>4. x # 0
  BY <1>3, Zenon
<1>5. /\ x - 1 \in 0 .. N - 1 /\ x - 1 \in 0 .. N
      /\ x - 1 \in Nat /\ x \in Nat /\ x - 1 < x /\ x = (x - 1) + 1
  BY <1>3, <1>4
<1>6. x - 1 \notin T
  <2>1. ASSUME x - 1 \in T PROVE <<x - 1, x>> \in OpToRel(<, Nat)
    BY <1>5, Zenon DEF OpToRel
  <2> QED BY <1>2, <2>1
<1>7. x \in S
  BY <1>5, <1>6
<1> QED BY <1>3, <1>7

\* The pool before the duplicates are dropped.
LEMMA PoolFacts ==
  /\ BaseAndExtras \in Seq(ID) /\ Len(BaseAndExtras) \in Nat
  /\ DOMAIN BaseAndExtras = 1 .. Len(BaseAndExtras)
  /\ ToSet(BaseAndExtras) = ToSet(Base) \cup ToSet(ExtraDetectors)
<1>1. ExtraDetectors \in Seq(ID)
  BY DetectorsAssumption DEF ExtraDetectors, CatchAllID, Whole, ID
<1>2. Base \in Seq(ID)
  BY DetectorsAssumption
<1> HIDE DEF ID
<1>3. BaseAndExtras \in Seq(ID)
  BY <1>1, <1>2 DEF BaseAndExtras
<1>4. ASSUME NEW d PROVE d \in ToSet(BaseAndExtras) <=> d \in ToSet(Base) \cup ToSet(ExtraDetectors)
  <2> DEFINE e == ExtraDetectors
  <2>1. e \in Seq(ID)
    BY <1>1
  <2> HIDE DEF e
  <2> SUFFICES d \in ToSet(Base \o e) <=> d \in ToSet(Base) \cup ToSet(e)
    BY DEF BaseAndExtras, e
  <2>2. ASSUME d \in ToSet(Base \o e) PROVE d \in ToSet(Base) \cup ToSet(e)
    BY <1>2, <2>1, <2>2 DEF ToSet
  <2>3. ASSUME d \in ToSet(Base) PROVE d \in ToSet(Base \o e)
    BY <1>2, <2>1, <2>3 DEF ToSet
  <2>4. ASSUME d \in ToSet(e) PROVE d \in ToSet(Base \o e)
    <3>1. PICK k \in 1 .. Len(e) : d = e[k]
      BY <2>1, <2>4 DEF ToSet
    <3>2. Len(Base) + k \in DOMAIN (Base \o e) /\ (Base \o e)[Len(Base) + k] = d
      BY <1>2, <2>1, <3>1
    <3> QED BY <3>2 DEF ToSet
  <2> QED BY <2>2, <2>3, <2>4
<1> QED BY <1>3, <1>4

\* Kept, up to m detectors of the pool.
Keeps(f, m) ==
    /\ f \in [0 .. m -> Seq(ID)]
    /\ f[0] = <<>>
    /\ \A n \in 1 .. m :
          f[n] = IF BaseAndExtras[n] \in ToSet(f[n - 1]) THEN f[n - 1]
                 ELSE Append(f[n - 1], BaseAndExtras[n])

\* The recursion of Kept has a solution, whatever the length of the pool.
LEMMA KeepsExists == \E f : Keeps(f, Len(BaseAndExtras))
<1> DEFINE N == Len(BaseAndExtras)
           S == {m \in 0 .. N : \E f : Keeps(f, m)}
<1>0. N \in Nat /\ \A n \in 1 .. N : BaseAndExtras[n] \in ID
  BY PoolFacts
<1> HIDE DEF N
<1>1. 0 \in S
  <2>1. Keeps([n \in 0 .. 0 |-> <<>>], 0)
    BY DEF Keeps
  <2> QED BY <1>0, <2>1
<1>2. ASSUME NEW m \in 0 .. N - 1, m \in S PROVE m + 1 \in S
  <2>1. PICK f : Keeps(f, m)
    BY <1>2
  <2>2. m \in 0 .. m /\ m \in Nat /\ m + 1 \in 1 .. N /\ m + 1 \in 0 .. N
    BY <1>0
  <2> DEFINE last == IF BaseAndExtras[m + 1] \in ToSet(f[m]) THEN f[m]
                     ELSE Append(f[m], BaseAndExtras[m + 1])
             g == [n \in 0 .. m + 1 |-> IF n = m + 1 THEN last ELSE f[n]]
  <2>3. last \in Seq(ID)
    <3>1. f[m] \in Seq(ID) /\ BaseAndExtras[m + 1] \in ID
      BY <1>0, <2>1, <2>2 DEF Keeps
    <3>2. Append(f[m], BaseAndExtras[m + 1]) \in Seq(ID)
      BY <3>1
    <3> QED BY <3>1, <3>2
  <2>4. \A n \in 0 .. m + 1 : n = m + 1 \/ n \in 0 .. m
    BY <2>2
  <2>5. g \in [0 .. m + 1 -> Seq(ID)]
    <3> HIDE DEF last
    <3> QED BY <2>1, <2>3, <2>4 DEF Keeps
  <2>6. g[0] = <<>>
    <3>1. 0 \in 0 .. m + 1 /\ 0 # m + 1
      BY <2>2
    <3>2. g[0] = f[0]
      BY <3>1
    <3> QED BY <2>1, <3>2 DEF Keeps
  <2>7. ASSUME NEW n \in 1 .. m + 1
        PROVE  g[n] = IF BaseAndExtras[n] \in ToSet(g[n - 1]) THEN g[n - 1]
                      ELSE Append(g[n - 1], BaseAndExtras[n])
    <3>1. CASE n = m + 1
      <4>1. m + 1 \in 0 .. m + 1 /\ m \in 0 .. m + 1 /\ m # m + 1 /\ n - 1 = m
        BY <2>2, <3>1
      <4>2. g[n] = last
        BY <3>1, <4>1
      <4>3. g[n - 1] = f[m]
        BY <4>1
      <4> HIDE DEF g
      <4> QED BY <3>1, <4>2, <4>3
    <3>2. CASE n \in 1 .. m
      <4>1. /\ n \in 0 .. m + 1 /\ n - 1 \in 0 .. m + 1
            /\ n # m + 1 /\ n - 1 # m + 1
        BY <2>2, <3>2
      <4>2. g[n] = f[n] /\ g[n - 1] = f[n - 1]
        BY <4>1
      <4> HIDE DEF g
      <4> QED BY <2>1, <3>2, <4>2 DEF Keeps
    <3> QED BY <2>2, <3>1, <3>2
  <2> HIDE DEF g
  <2>8. Keeps(g, m + 1)
    BY <2>5, <2>6, <2>7 DEF Keeps
  <2> QED BY <2>2, <2>8
<1>3. \A m \in 0 .. N : m \in S
  <2> HIDE DEF S
  <2> QED BY <1>0, <1>1, <1>2, EveryCount
<1>4. N \in S
  BY <1>0, <1>3
<1> QED BY <1>4 DEF N

\* Kept, step by step.
LEMMA KeptSteps == Keeps(Kept, Len(BaseAndExtras))
<1> DEFINE N == Len(BaseAndExtras)
           body(f) == [n \in 0 .. N |->
                          IF n = 0 THEN <<>>
                          ELSE IF BaseAndExtras[n] \in ToSet(f[n - 1]) THEN f[n - 1]
                          ELSE Append(f[n - 1], BaseAndExtras[n])]
<1>1. N \in Nat
  BY PoolFacts
<1>2. PICK f : Keeps(f, N)
  BY KeepsExists
<1>3. Kept = CHOOSE g : g = body(g)
  BY DEF Kept
<1>4. f = body(f)
  <2> HIDE DEF N
  <2>1. ASSUME NEW n \in 0 .. N PROVE f[n] = body(f)[n]
    <3>1. n = 0 \/ (n # 0 /\ n \in 1 .. N)
      BY <1>1
    <3> QED BY <1>2, <3>1 DEF Keeps
  <2>2. f = [n \in 0 .. N |-> f[n]]
    BY <1>2 DEF Keeps
  <2>3. body(f) = [n \in 0 .. N |-> body(f)[n]]
    OBVIOUS
  <2> HIDE DEF body
  <2> QED BY <2>1, <2>2, <2>3
<1>5. Kept = body(Kept)
  <2> HIDE DEF body
  <2> QED BY <1>3, <1>4
<1> HIDE DEF N
<1>6. Kept[0] = <<>>
  BY <1>1, <1>5
<1>7. ASSUME NEW n \in 1 .. N
      PROVE  Kept[n] = IF BaseAndExtras[n] \in ToSet(Kept[n - 1]) THEN Kept[n - 1]
                       ELSE Append(Kept[n - 1], BaseAndExtras[n])
  <2>1. n \in 0 .. N /\ n # 0
    BY <1>1
  <2>2. Kept[n] = body(Kept)[n]
    BY <1>5
  <2> QED BY <2>1, <2>2
<1>8. \A n \in 0 .. N : n \in {m \in 0 .. N : Kept[m] \in Seq(ID)}
  <2> DEFINE S == {m \in 0 .. N : Kept[m] \in Seq(ID)}
  <2>1. 0 \in S
    <3>1. <<>> \in Seq(ID)
      OBVIOUS
    <3>2. Kept[0] \in Seq(ID)
      BY <1>6, <3>1
    <3>3. 0 \in 0 .. N
      BY <1>1
    <3> QED BY <3>2, <3>3
  <2>2. ASSUME NEW n \in 0 .. N - 1, n \in S PROVE n + 1 \in S
    <3>1. n + 1 \in 1 .. N /\ n + 1 \in 0 .. N /\ (n + 1) - 1 = n
      BY <1>1
    <3>2. BaseAndExtras[n + 1] \in ID
      BY <3>1, PoolFacts DEF N
    <3>3. Kept[n] \in Seq(ID)
      BY <2>2
    <3>4. Append(Kept[n], BaseAndExtras[n + 1]) \in Seq(ID)
      BY <3>2, <3>3
    <3>5. Kept[n + 1] \in Seq(ID)
      BY <1>7, <3>1, <3>3, <3>4
    <3> QED BY <3>1, <3>5
  <2> HIDE DEF S
  <2>3. \A n \in 0 .. N : n \in S
    BY <1>1, <2>1, <2>2, EveryCount
  <2> QED BY <2>3 DEF S
<1>9. Kept \in [0 .. N -> Seq(ID)]
  BY <1>5, <1>8
<1> QED BY <1>6, <1>7, <1>9 DEF Keeps, N

\* What is kept after n detectors: each of them, once.
KeptWell(n) ==
    IsInjective(Kept[n]) /\ ToSet(Kept[n]) = {BaseAndExtras[i] : i \in 1 .. n}

\* Appending a new element.
LEMMA AppendElements ==
  ASSUME NEW S, NEW s \in Seq(S), NEW d \in S
  PROVE  /\ Append(s, d) \in Seq(S) /\ Len(Append(s, d)) = Len(s) + 1
         /\ ToSet(Append(s, d)) = ToSet(s) \cup {d}
         /\ IsInjective(s) /\ d \notin ToSet(s) => IsInjective(Append(s, d))
<1> DEFINE t == Append(s, d)
<1>1. /\ Len(s) \in Nat /\ DOMAIN s = 1 .. Len(s)
      /\ t \in Seq(S) /\ Len(t) = Len(s) + 1 /\ DOMAIN t = 1 .. Len(s) + 1
      /\ t[Len(s) + 1] = d
      /\ \A i \in 1 .. Len(s) : t[i] = s[i]
  OBVIOUS
<1> HIDE DEF t
<1>2. \A i \in 1 .. Len(s) + 1 : i \in 1 .. Len(s) \/ i = Len(s) + 1
  BY <1>1
<1>3. \A i \in 1 .. Len(s) : i \in 1 .. Len(s) + 1
  BY <1>1
<1>4. Len(s) + 1 \in 1 .. Len(s) + 1
  BY <1>1
<1>5. ToSet(t) = ToSet(s) \cup {d}
  <2>1. ASSUME NEW e \in ToSet(t) PROVE e \in ToSet(s) \cup {d}
    BY <1>1, <1>2 DEF ToSet
  <2>2. ASSUME NEW e \in ToSet(s) \cup {d} PROVE e \in ToSet(t)
    BY <1>1, <1>3, <1>4 DEF ToSet
  <2> QED BY <2>1, <2>2
<1>6. ASSUME IsInjective(s), d \notin ToSet(s) PROVE IsInjective(t)
  <2>1. \A i \in 1 .. Len(s) : t[i] # d
    BY <1>1, <1>6 DEF ToSet
  <2> QED BY <1>1, <1>2, <1>6, <2>1 DEF IsInjective
<1> QED BY <1>1, <1>5, <1>6 DEF t

\* The pool, its duplicates dropped.
LEMMA AllDetectorsFacts ==
  /\ AllDetectors \in Seq(ID) /\ Len(AllDetectors) \in Nat
  /\ DOMAIN AllDetectors = 1 .. Len(AllDetectors)
  /\ IsInjective(AllDetectors)
  /\ ToSet(AllDetectors) = ToSet(Base) \cup ToSet(ExtraDetectors)
<1> DEFINE N == Len(BaseAndExtras)
           S == {n \in 0 .. N : KeptWell(n)}
<1>1. N \in Nat /\ \A n \in 1 .. N : BaseAndExtras[n] \in ID
  BY PoolFacts
<1> HIDE DEF N
<1>2. Keeps(Kept, N)
  BY KeptSteps DEF N
<1>3. 0 \in S
  <2>1. Kept[0] = <<>>
    BY <1>2 DEF Keeps
  <2>2. KeptWell(0)
    BY <2>1 DEF KeptWell, IsInjective, ToSet
  <2> QED BY <1>1, <2>2
<1>4. ASSUME NEW n \in 0 .. N - 1, n \in S PROVE n + 1 \in S
  <2>1. /\ n \in Nat /\ n \in 0 .. N /\ n + 1 \in 1 .. N /\ n + 1 \in 0 .. N
        /\ (n + 1) - 1 = n
    BY <1>1
  <2> DEFINE d == BaseAndExtras[n + 1]
             k == Kept[n]
  <2>2. Kept[n + 1] = IF d \in ToSet(k) THEN k ELSE Append(k, d)
    BY <1>2, <2>1 DEF Keeps
  <2>3. d \in ID /\ k \in Seq(ID)
    BY <1>1, <1>2, <2>1 DEF Keeps
  <2>4. IsInjective(k) /\ ToSet(k) = {BaseAndExtras[i] : i \in 1 .. n}
    BY <1>4 DEF KeptWell
  <2>5. ToSet(k) \cup {d} = {BaseAndExtras[i] : i \in 1 .. n + 1}
    <3>1. \A i \in 1 .. n + 1 : i \in 1 .. n \/ i = n + 1
      BY <2>1
    <3>2. n + 1 \in 1 .. n + 1 /\ \A i \in 1 .. n : i \in 1 .. n + 1
      BY <2>1
    <3>3. ASSUME NEW e \in {BaseAndExtras[i] : i \in 1 .. n + 1} PROVE e \in ToSet(k) \cup {d}
      BY <2>4, <3>1
    <3>4. ASSUME NEW e \in ToSet(k) \cup {d} PROVE e \in {BaseAndExtras[i] : i \in 1 .. n + 1}
      BY <2>4, <3>2
    <3> QED BY <3>3, <3>4
  <2> HIDE DEF d, k
  <2>6. CASE d \in ToSet(k)
    <3>1. ToSet(k) \cup {d} = ToSet(k) /\ Kept[n + 1] = k
      BY <2>2, <2>6
    <3> QED BY <2>1, <2>4, <2>5, <3>1 DEF KeptWell
  <2>7. CASE d \notin ToSet(k)
    <3>1. IsInjective(Append(k, d)) /\ ToSet(Append(k, d)) = ToSet(k) \cup {d}
      BY <2>3, <2>4, <2>7, AppendElements
    <3> QED BY <2>1, <2>2, <2>5, <2>7, <3>1 DEF KeptWell
  <2> QED BY <2>6, <2>7
<1>5. N \in S
  <2> HIDE DEF S
  <2>1. \A n \in 0 .. N : n \in S
    BY <1>1, <1>3, <1>4, EveryCount
  <2> QED BY <1>1, <2>1
<1>6. AllDetectors \in Seq(ID) /\ IsInjective(AllDetectors)
  BY <1>1, <1>2, <1>5 DEF Keeps, AllDetectors, N, KeptWell
<1>7. ToSet(AllDetectors) = ToSet(BaseAndExtras)
  BY <1>5, PoolFacts DEF AllDetectors, N, KeptWell, ToSet
<1>8. Len(AllDetectors) \in Nat /\ DOMAIN AllDetectors = 1 .. Len(AllDetectors)
  BY <1>6
<1> QED BY <1>6, <1>7, <1>8, PoolFacts

-----------------------------------------------------------------------------
(* Selectors.                                                              *)

\* A set of IDs the selectors stand for has a detector as inSet reads it
\* exactly if one of the selectors means it.
LEMMA InSetIsMeant ==
  ASSUME NEW list \in SUBSET Selectors, NEW d \in ID
  PROVE  /\ ParseDetectorIDs(list) \subseteq ID
         /\ InSet(d, ParseDetectorIDs(list)) <=> \E s \in list : Means(s, d)
<1> DEFINE ids(s) == IF s = HighEntropy THEN {CatchAllID} ELSE Expansion[s]
<1>1. Whole(d.type) \in ID /\ Whole(d.type).type = d.type /\ Whole(d.type).version = 0
  BY DEF Whole, ID
<1>2. CatchAllID \in ID
  BY DetectorsAssumption DEF CatchAllID, Whole, ID
<1>3. \A s \in list : ids(s) \subseteq ID
  BY <1>2, ParserAssumption
<1>4. \A id : id \in ParseDetectorIDs(list) <=> \E s \in list : id \in ids(s)
  BY DEF ParseDetectorIDs
<1>5. \A s : Means(s, d) <=> \E id \in ids(s) : id.type = d.type /\ id.version \in {0, d.version}
  BY DEF Means
<1>6. ASSUME NEW id \in ID
      PROVE  id.type = d.type /\ id.version \in {0, d.version} <=>
                 id = d \/ (d.version # 0 /\ id = Whole(d.type))
  <2>1. \A a, b \in ID : a = b <=> a.type = b.type /\ a.version = b.version
    BY DEF ID
  <2>2. id = d <=> id.type = d.type /\ id.version = d.version
    BY <2>1
  <2>3. id = Whole(d.type) <=> id.type = d.type /\ id.version = 0
    BY <1>1, <2>1
  <2> QED BY <2>2, <2>3
<1>7. ParseDetectorIDs(list) \subseteq ID
  BY <1>3, <1>4
<1>8. InSet(d, ParseDetectorIDs(list)) <=>
          \E id \in ParseDetectorIDs(list) : id = d \/ (d.version # 0 /\ id = Whole(d.type))
  BY DEF InSet
<1> HIDE DEF ids
<1>9. InSet(d, ParseDetectorIDs(list)) => \E s \in list : Means(s, d)
  BY <1>4, <1>5, <1>6, <1>7, <1>8
<1>10. (\E s \in list : Means(s, d)) => InSet(d, ParseDetectorIDs(list))
  BY <1>3, <1>4, <1>5, <1>6, <1>8
<1> QED BY <1>7, <1>9, <1>10

\* Two sets of IDs together.
LEMMA InSetOfUnion ==
  ASSUME NEW d, NEW S, NEW T
  PROVE  InSet(d, S \cup T) <=> InSet(d, S) \/ InSet(d, T)
BY DEF InSet

\* The lists of a config are of selectors, and so is a profile.
LEMMA ListsAreSelectors ==
  ASSUME TypeOK
  PROVE  /\ cfg.include \in SUBSET Selectors /\ cfg.exclude \in SUBSET Selectors
         /\ Profile \in DOMAIN Profiles => ProfileNames \in SUBSET Selectors
<1>1. cfg.include \in SUBSET Selectors /\ cfg.exclude \in SUBSET Selectors
  BY DEF TypeOK, Lists
<1>2. ASSUME Profile \in DOMAIN Profiles PROVE ProfileNames \in SUBSET Selectors
  BY <1>2, ParserAssumption, ProfilesAssumption DEF ProfileNames
<1> QED BY <1>1, <1>2

-----------------------------------------------------------------------------
(* The inductive invariant.                                                *)

\* What the lists parsed so far have turned into.
IncludesParsed == {"exclude", "explicit", "filter", "warm", "built"}
ExcludesParsed == {"explicit", "filter", "warm", "built"}
AllParsed == {"filter", "warm", "built"}

ParsedInv ==
    /\ pc \in {"include"} \cup IncludesParsed => Profile \in DOMAIN Profiles
    /\ pc = "include" => selected = ParseDetectorIDs(ProfileNames)
    /\ pc \in IncludesParsed =>
          /\ ~ParseFails(cfg.include)
          /\ selected = ParseDetectorIDs(ProfileNames) \cup ParseDetectorIDs(cfg.include)
    /\ pc \in ExcludesParsed =>
          ~ParseFails(cfg.exclude) /\ excludes = ParseDetectorIDs(cfg.exclude)
    /\ pc \in AllParsed =>
          explicit = ParseDetectorIDs(NamedSelectors(ProfileNames)
                                      \cup NamedSelectors(cfg.include))

\* The list holds what is chosen among the detectors looked at, each once.
Chosen(d) == Wanted(d) /\ ~InSet(d, excludes)
LookedAt == {AllDetectors[i] : i \in 1 .. at - 1}
ListInv ==
    /\ at \in 1 .. Len(AllDetectors) + 1
    /\ out \in Seq(ID) /\ IsInjective(out)
    /\ ToSet(out) = {d \in LookedAt : Chosen(d)}
    /\ pc \in {"profile", "include", "exclude", "explicit"} => at = 1
    /\ pc \in {"warm", "built"} => at = Len(AllDetectors) + 1 /\ out # <<>>

\* The warm-up has called what it passed, and lists a failure of it once.
WarmInv ==
    /\ warmAt \in 0 .. Len(out) + 1
    /\ warmed = 1 .. warmAt - 1
    /\ errs \in Seq(0 .. Len(out)) /\ IsInjective(errs)
    /\ \A k \in DOMAIN errs : errs[k] < warmAt
    /\ warmAt = 0 => errs = <<>>
    /\ pc \notin {"warm", "built"} => warmAt = 0
    /\ pc = "built" => warmAt = Len(out) + 1

Mistaken ==
    \/ Profile \notin DOMAIN Profiles
    \/ \E s \in cfg.include \cup cfg.exclude : s \in Typos \ {HighEntropy}
    \/ Effective = {}
FailedInv == pc = "failed" => Mistaken

SInv == TypeOK /\ ParsedInv /\ ListInv /\ WarmInv /\ FailedInv

\* The types of what is parsed.
LEMMA ParsedAreIDs ==
  ASSUME NEW list \in SUBSET Selectors
  PROVE  ParseDetectorIDs(list) \subseteq ID
<1>1. CatchAllID \in ID
  BY DetectorsAssumption DEF CatchAllID, Whole, ID
<1> QED BY <1>1, InSetIsMeant

\* The facts of a detector of the pool that is looked at next.
LEMMA NextDetector ==
  ASSUME at \in 1 .. Len(AllDetectors)
  PROVE  AllDetectors[at] \in ID /\ AllDetectors[at] \notin LookedAt
<1>1. AllDetectors[at] \in ID
  BY AllDetectorsFacts
<1>2. \A i \in 1 .. at - 1 : i \in DOMAIN AllDetectors /\ i # at
  BY AllDetectorsFacts
<1>3. at \in DOMAIN AllDetectors
  BY AllDetectorsFacts
<1>4. \A i \in 1 .. at - 1 : AllDetectors[i] # AllDetectors[at]
  BY <1>2, <1>3, AllDetectorsFacts DEF IsInjective
<1> QED BY <1>1, <1>4 DEF LookedAt

\* Once the whole pool was looked at, the list is the one asked for.
LEMMA FullList ==
  ASSUME SInv, pc \in AllParsed, at = Len(AllDetectors) + 1
  PROVE  ToSet(out) = Effective
<1>1. LookedAt = ToSet(Base) \cup ToSet(ExtraDetectors)
  <2>1. LookedAt = ToSet(AllDetectors)
    BY AllDetectorsFacts DEF LookedAt, ToSet
  <2> QED BY <2>1, AllDetectorsFacts
<1>2. LookedAt \subseteq ID
  <2>1. \A i \in DOMAIN AllDetectors : AllDetectors[i] \in ID
    BY AllDetectorsFacts
  <2>2. ToSet(AllDetectors) \subseteq ID
    BY <2>1 DEF ToSet
  <2> QED BY <1>1, <2>2, AllDetectorsFacts
<1>3. /\ Profile \in DOMAIN Profiles
      /\ selected = ParseDetectorIDs(ProfileNames) \cup ParseDetectorIDs(cfg.include)
      /\ excludes = ParseDetectorIDs(cfg.exclude)
      /\ explicit = ParseDetectorIDs(NamedSelectors(ProfileNames) \cup NamedSelectors(cfg.include))
  BY DEF SInv, ParsedInv, AllParsed, ExcludesParsed, IncludesParsed
<1>4. /\ cfg.include \in SUBSET Selectors /\ cfg.exclude \in SUBSET Selectors
      /\ ProfileNames \in SUBSET Selectors
  BY <1>3, ListsAreSelectors DEF SInv
<1> DEFINE named == NamedSelectors(ProfileNames) \cup NamedSelectors(cfg.include)
<1>5. /\ named \in SUBSET Selectors
      /\ \A s : s \in named <=> s \in Requested /\ s # All
  BY <1>4 DEF NamedSelectors, Requested
<1>6. ASSUME NEW d \in LookedAt
      PROVE  Wanted(d) <=> \E s \in Requested : Means(s, d) /\ (s = All => ~IsExtra(d))
  <2>1. d \in ID
    BY <1>2
  <2>2. CASE IsExtra(d)
    <3>1. Wanted(d) <=> InSet(d, ParseDetectorIDs(named))
      BY <1>3, <2>2 DEF Wanted
    <3>2. InSet(d, ParseDetectorIDs(named)) <=> \E s \in named : Means(s, d)
      <4> HIDE DEF named
      <4> QED BY <1>5, <2>1, InSetIsMeant
    <3> HIDE DEF named
    <3> QED BY <1>5, <2>2, <3>1, <3>2
  <2>3. CASE ~IsExtra(d)
    <3>1. Wanted(d) <=> \/ InSet(d, ParseDetectorIDs(ProfileNames))
                        \/ InSet(d, ParseDetectorIDs(cfg.include))
      BY <1>3, <2>3, InSetOfUnion DEF Wanted
    <3>2. InSet(d, ParseDetectorIDs(ProfileNames)) <=> \E s \in ProfileNames : Means(s, d)
      BY <1>4, <2>1, InSetIsMeant
    <3>3. InSet(d, ParseDetectorIDs(cfg.include)) <=> \E s \in cfg.include : Means(s, d)
      BY <1>4, <2>1, InSetIsMeant
    <3> QED BY <2>3, <3>1, <3>2, <3>3 DEF Requested
  <2> QED BY <2>2, <2>3
<1>7. \A d \in LookedAt : InSet(d, excludes) <=> \E s \in cfg.exclude : Means(s, d)
  BY <1>2, <1>3, <1>4, InSetIsMeant
<1>8. ToSet(out) = {d \in LookedAt : Chosen(d)}
  BY DEF SInv, ListInv
<1> QED BY <1>1, <1>6, <1>7, <1>8 DEF Effective, Chosen

-----------------------------------------------------------------------------
(* The steps.                                                              *)

\* What a loop has passed is within the list.
LEMMA Passed ==
  ASSUME NEW L \in Nat, NEW next \in 0 .. L + 1, NEW i \in 1 .. next - 1
  PROVE  i \in 1 .. L
OBVIOUS

\* The type invariant after a step, from the parts that say more.
LEMMA TypeNext ==
  ASSUME TypeOK, ListInv', WarmInv', cfg' = cfg,
         pc' \in {"profile", "include", "exclude", "explicit", "filter", "warm", "built", "failed"},
         selected' \subseteq ID, excludes' \subseteq ID, explicit' \subseteq ID
  PROVE  TypeOK'
<1>1. cfg' \in [profile : ConfigProfiles, include : Lists, exclude : Lists]
  BY DEF TypeOK
<1>2. at' \in 1 .. Len(AllDetectors) + 1 /\ IsInjective(out)' /\ out' \in Seq(ID)
  BY DEF ListInv
<1>3. ToSet(out)' \subseteq ToSet(Base) \cup ToSet(ExtraDetectors)
  <2>1. ToSet(out)' \subseteq LookedAt'
    BY DEF ListInv
  <2>2. ASSUME NEW i \in 1 .. at' - 1 PROVE i \in DOMAIN AllDetectors
    <3>1. Len(AllDetectors) \in Nat /\ DOMAIN AllDetectors = 1 .. Len(AllDetectors)
      BY AllDetectorsFacts
    <3>2. at' \in 1 .. Len(AllDetectors) + 1
      BY <1>2
    <3>3. at' \in 0 .. Len(AllDetectors) + 1
      BY <3>1, <3>2
    <3>4. i \in 1 .. Len(AllDetectors)
      BY <3>1, <3>3, Passed
    <3> QED BY <3>1, <3>4
  <2>3. LookedAt' \subseteq ToSet(AllDetectors)
    BY <2>2 DEF LookedAt, ToSet
  <2> QED BY <2>1, <2>3, AllDetectorsFacts
<1>4. /\ warmAt' \in 0 .. Len(out') + 1 /\ errs' \in Seq(0 .. Len(out'))
      /\ IsInjective(errs)'
  BY DEF WarmInv
<1>5. warmed' \subseteq DOMAIN out'
  <2>1. DOMAIN out' = 1 .. Len(out') /\ Len(out') \in Nat
    BY <1>2
  <2>2. warmed' = 1 .. warmAt' - 1
    BY DEF WarmInv
  <2>3. ASSUME NEW i \in 1 .. warmAt' - 1 PROVE i \in 1 .. Len(out')
    <3>1. warmAt' \in 0 .. Len(out') + 1 /\ Len(out') \in Nat
      BY <1>4, <2>1
    <3> QED BY <3>1, Passed
  <2> QED BY <2>1, <2>2, <2>3
<1> QED BY <1>1, <1>2, <1>3, <1>4, <1>5 DEF TypeOK

\* A step that leaves the selection alone leaves what is chosen alone.
LEMMA SameChoice ==
  ASSUME UNCHANGED sets
  PROVE  \A d : Chosen(d)' <=> Chosen(d)
BY DEF sets, Chosen, Wanted, InSet

\* Before the filtering the list is empty, whatever is parsed.
LEMMA NothingListed ==
  ASSUME SInv, pc \in {"profile", "include", "exclude", "explicit"}, UNCHANGED <<at, out>>,
         pc' \in {"include", "exclude", "explicit", "filter"}
  PROVE  ListInv'
<1>1. at = 1 /\ at' = 1 /\ out' = out
  BY DEF SInv, ListInv
<1>2. LookedAt = {} /\ LookedAt' = {}
  BY <1>1 DEF LookedAt
<1>3. ToSet(out) = {}
  BY <1>2 DEF SInv, ListInv
<1>4. ToSet(out)' = {} /\ (IsInjective(out)' <=> IsInjective(out))
  BY <1>1, <1>3
<1> QED BY <1>1, <1>2, <1>4 DEF SInv, ListInv

\* Before the warm-up nothing is warm.
LEMMA NothingWarm ==
  ASSUME SInv, pc \notin {"warm", "built"}, UNCHANGED warmup, out' \in Seq(ID), pc' # "built"
  PROVE  WarmInv'
<1>1. warmAt = 0 /\ errs = <<>> /\ warmed = {}
  BY DEF SInv, WarmInv
<1>2. warmAt' = 0 /\ errs' = <<>> /\ warmed' = {}
  BY <1>1 DEF warmup
<1>3. IsInjective(errs)'
  BY <1>2 DEF IsInjective
<1>4. Len(out') \in Nat /\ errs' \in Seq(0 .. Len(out')) /\ DOMAIN errs' = {}
  BY <1>2
<1>5. warmed' = 1 .. warmAt' - 1
  BY <1>2
<1> QED BY <1>2, <1>3, <1>4, <1>5 DEF WarmInv

\* A list that is parsed.
LEMMA ParseStep ==
  ASSUME SInv, UNCHANGED <<cfg, at, out, warmup>>, ParsedInv',
         pc \in {"profile", "include", "exclude", "explicit"},
         pc' \in {"include", "exclude", "explicit", "filter"},
         selected' \subseteq ID, excludes' \subseteq ID, explicit' \subseteq ID
  PROVE  SInv'
<1>1. ListInv'
  BY NothingListed
<1>2. WarmInv'
  BY NothingWarm DEF SInv, ListInv
<1>3. TypeOK'
  BY <1>1, <1>2, TypeNext DEF SInv
<1>4. FailedInv'
  BY DEF FailedInv
<1> QED BY <1>1, <1>2, <1>3, <1>4 DEF SInv

\* A config that is rejected for a mistake.
LEMMA FailStep ==
  ASSUME SInv, pc \notin {"warm", "built"}, Fail, Mistaken
  PROVE  SInv'
<1>1. UNCHANGED <<cfg, sets, at, out, warmup>> /\ pc' = "failed"
  BY DEF Fail
<1>2. ParsedInv'
  BY <1>1 DEF ParsedInv, IncludesParsed, ExcludesParsed, AllParsed
<1>3. ListInv'
  <2>1. \A d : Chosen(d)' <=> Chosen(d)
    BY <1>1, SameChoice
  <2>2. at' = at /\ out' = out
    BY <1>1
  <2>3. /\ LookedAt' = LookedAt /\ ToSet(out)' = ToSet(out)
        /\ IsInjective(out)' <=> IsInjective(out)
    BY <2>2 DEF LookedAt
  <2> QED BY <1>1, <2>1, <2>2, <2>3 DEF SInv, ListInv
<1>4. WarmInv'
  BY <1>1, NothingWarm DEF SInv, ListInv
<1>5. TypeOK'
  BY <1>1, <1>3, <1>4, TypeNext DEF SInv, TypeOK, sets
<1>6. Mistaken' <=> Mistaken
  BY <1>1 DEF Mistaken, Profile, Effective, Requested, ProfileNames, Means, IsExtra
<1>7. FailedInv'
  BY <1>6 DEF FailedInv
<1> QED BY <1>2, <1>3, <1>4, <1>5, <1>7 DEF SInv

\* The next detector of the pool joins the list or not.
LEMMA ConsiderStep ==
  ASSUME SInv, ConsiderDetector
  PROVE  SInv'
<1> DEFINE d == AllDetectors[at]
<1>1. /\ pc = "filter" /\ at <= Len(AllDetectors) /\ at' = at + 1
      /\ UNCHANGED <<cfg, pc, sets, warmup>>
      /\ out' = IF Chosen(d) THEN Append(out, d) ELSE out
  BY DEF ConsiderDetector, Chosen
<1>2. at \in 1 .. Len(AllDetectors) /\ at' \in 1 .. Len(AllDetectors) + 1
  BY <1>1, AllDetectorsFacts DEF SInv, ListInv
<1>3. d \in ID /\ d \notin LookedAt
  BY <1>2, NextDetector
<1>4. LookedAt' = LookedAt \cup {d}
  <2>1. \A i : i \in 1 .. at' - 1 <=> i \in 1 .. at - 1 \/ i = at
    BY <1>1, <1>2
  <2> QED BY <2>1 DEF LookedAt
<1>5. \A e : Chosen(e)' <=> Chosen(e)
  BY <1>1, SameChoice
<1>6. out \in Seq(ID) /\ IsInjective(out) /\ ToSet(out) = {e \in LookedAt : Chosen(e)}
  BY DEF SInv, ListInv
<1> HIDE DEF d
<1>7. out' \in Seq(ID) /\ IsInjective(out)' /\ ToSet(out)' = {e \in LookedAt' : Chosen(e)'}
  <2>1. CASE Chosen(d)
    <3>1. out' = Append(out, d)
      BY <1>1, <2>1
    <3>2. /\ Append(out, d) \in Seq(ID) /\ IsInjective(Append(out, d))
          /\ ToSet(Append(out, d)) = ToSet(out) \cup {d}
      BY <1>3, <1>6, AppendElements
    <3>3. ToSet(out) \cup {d} = {e \in LookedAt' : Chosen(e)'}
      BY <1>4, <1>5, <1>6, <2>1
    <3> QED BY <3>1, <3>2, <3>3
  <2>2. CASE ~Chosen(d)
    <3>1. out' = out
      BY <1>1, <2>2
    <3>2. ToSet(out) = {e \in LookedAt' : Chosen(e)'}
      BY <1>4, <1>5, <1>6, <2>2
    <3> QED BY <1>6, <3>1, <3>2
  <2> QED BY <2>1, <2>2
<1>8. ListInv'
  BY <1>1, <1>2, <1>7 DEF ListInv
<1>9. WarmInv'
  BY <1>1, <1>7, NothingWarm
<1>10. ParsedInv'
  BY <1>1 DEF SInv, ParsedInv, sets, IncludesParsed, ExcludesParsed, AllParsed, ParseFails,
              ParseDetectorIDs, ProfileNames, Profile
<1>11. TypeOK'
  BY <1>1, <1>8, <1>9, TypeNext DEF SInv, TypeOK, sets
<1>12. FailedInv'
  BY <1>1 DEF FailedInv
<1> QED BY <1>8, <1>9, <1>10, <1>11, <1>12 DEF SInv

\* A step of the warm-up or the end of a part: config, sets and list stay.
LEMMA ListStays ==
  ASSUME SInv, pc \in AllParsed, pc' \in {"warm", "built"}, UNCHANGED <<cfg, sets, at, out>>,
         at = Len(AllDetectors) + 1, out # <<>>, WarmInv'
  PROVE  SInv'
<1>1. ListInv'
  <2>1. \A d : Chosen(d)' <=> Chosen(d)
    BY SameChoice
  <2>2. /\ LookedAt' = LookedAt /\ ToSet(out)' = ToSet(out)
        /\ IsInjective(out)' <=> IsInjective(out)
    BY DEF LookedAt
  <2> QED BY <2>1, <2>2 DEF SInv, ListInv
<1>2. ParsedInv'
  BY DEF SInv, ParsedInv, sets, IncludesParsed, ExcludesParsed, AllParsed, ParseFails,
         ParseDetectorIDs, ProfileNames, Profile
<1>3. TypeOK'
  BY <1>1, TypeNext DEF SInv, TypeOK, sets
<1>4. FailedInv'
  BY DEF FailedInv
<1> QED BY <1>1, <1>2, <1>3, <1>4 DEF SInv

\* A call of the warm-up, with its failure listed or without one.
LEMMA WarmStep ==
  ASSUME SInv, Warming, pc' = pc, warmAt <= Len(out), warmAt' = warmAt + 1,
         errs' \in {errs, Append(errs, warmAt)},
         warmed' = IF warmAt = 0 THEN warmed ELSE warmed \cup {warmAt}
  PROVE  SInv'
<1>1. pc = "warm" /\ UNCHANGED <<cfg, sets, at, out>>
  BY DEF Warming
<1>2. at = Len(AllDetectors) + 1 /\ out # <<>> /\ out \in Seq(ID) /\ Len(out) \in Nat
  BY <1>1 DEF SInv, ListInv
<1>3. /\ warmAt \in 0 .. Len(out) /\ warmed = 1 .. warmAt - 1
      /\ errs \in Seq(0 .. Len(out)) /\ IsInjective(errs)
      /\ \A k \in DOMAIN errs : errs[k] < warmAt
  BY <1>2 DEF SInv, WarmInv
<1>4. warmAt' \in 1 .. Len(out) + 1
  BY <1>2, <1>3
<1>5. warmed' = 1 .. warmAt' - 1
  <2>1. warmAt \in Nat /\ warmed = 1 .. warmAt - 1 /\ warmAt' - 1 = warmAt
    BY <1>2, <1>3
  <2>2. \A i : i \in 1 .. warmAt <=> i \in 1 .. warmAt - 1 \/ (warmAt # 0 /\ i = warmAt)
    BY <2>1
  <2>3. \A i : i \in warmed' <=> i \in 1 .. warmAt
    BY <2>1, <2>2
  <2> QED BY <2>1, <2>3
<1>6. /\ errs' \in Seq(0 .. Len(out)) /\ IsInjective(errs)'
      /\ \A k \in DOMAIN errs' : errs'[k] < warmAt'
  <2>1. CASE errs' = errs
    BY <1>2, <1>3, <2>1
  <2>2. CASE errs' = Append(errs, warmAt)
    <3>1. warmAt \notin ToSet(errs)
      BY <1>3 DEF ToSet
    <3>2. /\ Append(errs, warmAt) \in Seq(0 .. Len(out)) /\ IsInjective(Append(errs, warmAt))
          /\ ToSet(Append(errs, warmAt)) = ToSet(errs) \cup {warmAt}
      BY <1>3, <3>1, AppendElements
    <3>3. \A k \in DOMAIN Append(errs, warmAt) : Append(errs, warmAt)[k] \in ToSet(errs) \cup {warmAt}
      BY <3>2 DEF ToSet
    <3>4. \A x \in ToSet(errs) \cup {warmAt} : x < warmAt + 1
      <4>1. \A k \in DOMAIN errs : errs[k] \in 0 .. Len(out)
        BY <1>3
      <4>2. \A x \in ToSet(errs) : x \in 0 .. Len(out) /\ x < warmAt
        BY <1>3, <4>1 DEF ToSet
      <4> QED BY <1>2, <1>3, <4>2
    <3> QED BY <2>2, <3>2, <3>3, <3>4
  <2> QED BY <2>1, <2>2
<1>7. WarmInv'
  <2>1. out' = out /\ pc' = "warm"
    BY <1>1
  <2>2. warmAt' \in 0 .. Len(out') + 1 /\ warmAt' # 0
    BY <1>2, <1>4, <2>1
  <2>3. errs' \in Seq(0 .. Len(out')) /\ IsInjective(errs)'
    BY <1>6, <2>1
  <2> QED BY <1>5, <1>6, <2>1, <2>2, <2>3 DEF WarmInv
<1> QED BY <1>1, <1>2, <1>7, ListStays DEF AllParsed

-----------------------------------------------------------------------------
(* Every step preserves the invariant.                                     *)

\* Initially nothing is parsed, listed or warm.
LEMMA InitHolds == Init => SInv
<1> SUFFICES ASSUME Init PROVE SInv
  OBVIOUS
<1>1. pc = "profile" /\ at = 1 /\ out = <<>> /\ selected = {} /\ excludes = {} /\ explicit = {}
      /\ warmAt = 0 /\ errs = <<>> /\ warmed = {}
  BY DEF Init
<1>2. IsInjective(out) /\ ToSet(out) = {} /\ IsInjective(errs)
  BY <1>1 DEF IsInjective, ToSet
<1>3. ParsedInv /\ FailedInv
  BY <1>1 DEF ParsedInv, FailedInv, IncludesParsed, ExcludesParsed, AllParsed
<1>4. ListInv
  <2>1. LookedAt = {}
    BY <1>1 DEF LookedAt
  <2>2. at \in 1 .. Len(AllDetectors) + 1
    BY <1>1, AllDetectorsFacts
  <2>3. out \in Seq(ID)
    BY <1>1
  <2> QED BY <1>1, <1>2, <2>1, <2>2, <2>3 DEF ListInv
<1>5. WarmInv
  <2>1. Len(out) = 0 /\ DOMAIN errs = {} /\ errs \in Seq(0 .. Len(out)) /\ warmed = 1 .. warmAt - 1
    BY <1>1
  <2> QED BY <1>1, <1>2, <2>1 DEF WarmInv
<1>6. TypeOK
  <2>1. at \in 1 .. Len(AllDetectors) + 1 /\ errs \in Seq(0 .. Len(out)) /\ warmAt \in 0 .. Len(out) + 1
    BY <1>4, <1>5 DEF ListInv, WarmInv
  <2> QED BY <1>1, <1>2, <2>1 DEF Init, TypeOK
<1> QED BY <1>3, <1>4, <1>5, <1>6 DEF SInv

\* One step of New.
LEMMA NextKeeps == SInv /\ [Next]_vars => SInv'
<1> SUFFICES ASSUME SInv, [Next]_vars PROVE SInv'
  OBVIOUS
<1>0. /\ selected \subseteq ID /\ excludes \subseteq ID /\ explicit \subseteq ID
      /\ cfg.include \in SUBSET Selectors /\ cfg.exclude \in SUBSET Selectors
      /\ Profile \in DOMAIN Profiles => ProfileNames \in SUBSET Selectors
  BY ListsAreSelectors DEF SInv, TypeOK
<1>1. CASE UnknownProfile
  BY <1>1, FailStep DEF UnknownProfile, Mistaken
<1>2. CASE ParseProfile
  <2>1. /\ pc = "profile" /\ Profile \in DOMAIN Profiles /\ pc' = "include"
        /\ selected' = ParseDetectorIDs(ProfileNames)
        /\ UNCHANGED <<cfg, excludes, explicit, at, out, warmup>>
    BY <1>2 DEF ParseProfile
  <2>2. selected' \subseteq ID
    BY <1>0, <2>1, ParsedAreIDs
  <2>3. ParsedInv'
    BY <2>1 DEF ParsedInv, IncludesParsed, ExcludesParsed, AllParsed, Profile, ProfileNames
  <2> QED BY <1>0, <2>1, <2>2, <2>3, ParseStep
<1>3. CASE IncludesFail
  BY <1>3, FailStep DEF IncludesFail, Mistaken, ParseFails
<1>4. CASE ParseIncludes
  <2>1. /\ pc = "include" /\ ~ParseFails(cfg.include) /\ pc' = "exclude"
        /\ selected' = selected \cup ParseDetectorIDs(cfg.include)
        /\ UNCHANGED <<cfg, excludes, explicit, at, out, warmup>>
    BY <1>4 DEF ParseIncludes
  <2>2. selected' \subseteq ID
    BY <1>0, <2>1, ParsedAreIDs
  <2>3. selected = ParseDetectorIDs(ProfileNames) /\ Profile \in DOMAIN Profiles
    BY <2>1 DEF SInv, ParsedInv
  <2>4. ParsedInv'
    BY <2>1, <2>3 DEF ParsedInv, IncludesParsed, ExcludesParsed, AllParsed, Profile, ProfileNames
  <2> QED BY <1>0, <2>1, <2>2, <2>4, ParseStep
<1>5. CASE ExcludesFail
  BY <1>5, FailStep DEF ExcludesFail, Mistaken, ParseFails
<1>6. CASE ParseExcludes
  <2>1. /\ pc = "exclude" /\ ~ParseFails(cfg.exclude) /\ pc' = "explicit"
        /\ excludes' = ParseDetectorIDs(cfg.exclude)
        /\ UNCHANGED <<cfg, selected, explicit, at, out, warmup>>
    BY <1>6 DEF ParseExcludes
  <2>2. excludes' \subseteq ID
    BY <1>0, <2>1, ParsedAreIDs
  <2>3. ParsedInv'
    BY <2>1 DEF SInv, ParsedInv, IncludesParsed, ExcludesParsed, AllParsed, Profile, ProfileNames
  <2> QED BY <1>0, <2>1, <2>2, <2>3, ParseStep
<1>7. CASE ParseExplicit
  <2>1. /\ pc = "explicit" /\ pc' = "filter"
        /\ explicit' = ParseDetectorIDs(NamedSelectors(ProfileNames) \cup NamedSelectors(cfg.include))
        /\ UNCHANGED <<cfg, selected, excludes, at, out, warmup>>
    BY <1>7 DEF ParseExplicit
  <2>2. Profile \in DOMAIN Profiles
    BY <2>1 DEF SInv, ParsedInv, IncludesParsed
  <2>3. NamedSelectors(ProfileNames) \cup NamedSelectors(cfg.include) \in SUBSET Selectors
    BY <1>0, <2>2 DEF NamedSelectors
  <2>4. explicit' \subseteq ID
    BY <2>1, <2>3, ParsedAreIDs
  <2>5. ParsedInv'
    BY <2>1 DEF SInv, ParsedInv, IncludesParsed, ExcludesParsed, AllParsed, Profile, ProfileNames
  <2> QED BY <1>0, <2>1, <2>4, <2>5, ParseStep
<1>8. CASE ConsiderDetector
  BY <1>8, ConsiderStep
<1>9. CASE ZeroDetectors
  <2>1. pc = "filter" /\ at > Len(AllDetectors) /\ out = <<>> /\ Fail
    BY <1>9 DEF ZeroDetectors, SelectionEmpty
  <2>2. at = Len(AllDetectors) + 1
    BY <2>1, AllDetectorsFacts DEF SInv, ListInv
  <2>3. ToSet(out) = Effective
    BY <2>1, <2>2, FullList DEF AllParsed
  <2>4. Effective = {}
    BY <2>1, <2>3 DEF ToSet
  <2> QED BY <2>1, <2>4, FailStep DEF Mistaken
<1>10. CASE Resolved
  <2>1. /\ pc = "filter" /\ at > Len(AllDetectors) /\ out # <<>> /\ pc' = "warm"
        /\ UNCHANGED <<cfg, sets, at, out, warmup>>
    BY <1>10 DEF Resolved, SelectionEmpty
  <2>2. at = Len(AllDetectors) + 1
    BY <2>1, AllDetectorsFacts DEF SInv, ListInv
  <2>3. WarmInv'
    BY <2>1, NothingWarm DEF SInv, ListInv
  <2> QED BY <2>1, <2>2, <2>3, ListStays DEF AllParsed
<1>11. CASE WarmRegex
  <2>1. /\ Warming /\ warmAt = 0 /\ warmAt' = 1 /\ errs' \in {errs, Append(errs, 0)}
        /\ UNCHANGED <<pc, warmed>>
    BY <1>11 DEF WarmRegex
  <2>2. Len(out) \in Nat
    BY DEF SInv, ListInv
  <2> QED BY <2>1, <2>2, WarmStep
<1>12. CASE WarmDetector
  <2>1. /\ Warming /\ warmAt \in 1 .. Len(out) /\ warmAt' = warmAt + 1
        /\ warmed' = warmed \cup {warmAt} /\ UNCHANGED <<pc, errs>>
    BY <1>12 DEF WarmDetector
  <2> QED BY <2>1, WarmStep
<1>13. CASE WarmDetectorPanics
  <2>1. /\ Warming /\ warmAt \in 1 .. Len(out) /\ warmAt' = warmAt + 1
        /\ warmed' = warmed \cup {warmAt} /\ errs' = Append(errs, warmAt) /\ UNCHANGED pc
    BY <1>13 DEF WarmDetectorPanics
  <2> QED BY <2>1, WarmStep
<1>14. CASE NewReturns
  <2>1. /\ pc = "warm" /\ UNCHANGED <<cfg, sets, at, out>> /\ warmAt = Len(out) + 1
        /\ pc' = "built" /\ UNCHANGED warmup
    BY <1>14 DEF NewReturns, Warming
  <2>2. at = Len(AllDetectors) + 1 /\ out # <<>>
    BY <2>1 DEF SInv, ListInv
  <2>3. WarmInv'
    <3>1. out' = out /\ warmAt' = warmAt /\ errs' = errs /\ warmed' = warmed
      BY <2>1 DEF warmup
    <3>2. IsInjective(errs)' <=> IsInjective(errs)
      BY <3>1
    <3> QED BY <2>1, <3>1, <3>2 DEF SInv, WarmInv
  <2> QED BY <2>1, <2>2, <2>3, ListStays DEF AllParsed
<1>15. CASE UNCHANGED vars
  <2>1. UNCHANGED <<cfg, pc, selected, excludes, explicit, at, out, warmAt, errs, warmed>>
    BY <1>15 DEF vars, sets, warmup
  <2>2. TypeOK'
    BY <2>1 DEF SInv, TypeOK
  <2>3. ParsedInv'
    BY <2>1 DEF SInv, ParsedInv, ProfileNames, Profile
  <2>4. ListInv'
    <3>1. \A d : Chosen(d)' <=> Chosen(d)
      BY <2>1, SameChoice DEF sets
    <3>2. /\ LookedAt' = LookedAt /\ ToSet(out)' = ToSet(out)
          /\ IsInjective(out)' <=> IsInjective(out)
      BY <2>1 DEF LookedAt
    <3> QED BY <2>1, <3>1, <3>2 DEF SInv, ListInv
  <2>5. WarmInv'
    BY <2>1 DEF SInv, WarmInv
  <2>6. FailedInv'
    BY <2>1 DEF SInv, FailedInv, Mistaken, Profile, Effective, Requested, ProfileNames
  <2> QED BY <2>2, <2>3, <2>4, <2>5, <2>6 DEF SInv
<1> QED BY <1>1, <1>2, <1>3, <1>4, <1>5, <1>6, <1>7, <1>8, <1>9, <1>10, <1>11, <1>12, <1>13,
           <1>14, <1>15 DEF Next

\* The invariant holds of every run of New.
LEMMA InvariantHolds == Spec => []SInv
BY InitHolds, NextKeeps, PTL DEF Spec

-----------------------------------------------------------------------------
(* The theorems.                                                           *)

\* resolveDetectors lists no detector twice, also where a default detector is
\* one of the extras, and warm keeps its bookkeeping within the list.
THEOREM TypeCorrect == Spec => []TypeOK
<1>1. SInv => TypeOK
  BY DEF SInv
<1> QED BY <1>1, InvariantHolds, PTL

\* New returns a scanner of exactly the detectors the config asks for, version
\* by version, and has warmed each of them, whatever panicked.
THEOREM ListsWhatIsAsked == Spec => []ListIsEffective
<1>1. ASSUME SInv, pc = "built" PROVE ToSet(out) = Effective /\ warmed = DOMAIN out
  <2>1. at = Len(AllDetectors) + 1 /\ out \in Seq(ID) /\ DOMAIN out = 1 .. Len(out) /\ Len(out) \in Nat
    BY <1>1 DEF SInv, ListInv
  <2>2. ToSet(out) = Effective
    BY <1>1, <2>1, FullList DEF AllParsed
  <2>3. warmed = 1 .. warmAt - 1 /\ warmAt = Len(out) + 1
    BY <1>1 DEF SInv, WarmInv
  <2>4. warmed = DOMAIN out
    BY <2>1, <2>3
  <2> QED BY <2>2, <2>4
<1>2. SInv => ListIsEffective
  BY <1>1 DEF ListIsEffective
<1> QED BY <1>2, InvariantHolds, PTL

\* New rejects a config exactly if it names a profile or selector that does not
\* exist or leaves no detector, and never for a failed warm-up.
THEOREM RejectsMistakes == Spec => []RejectedIfMistaken
<1>1. ASSUME SInv, pc = "built" PROVE ~Mistaken
  <2>1. at = Len(AllDetectors) + 1 /\ out \in Seq(ID) /\ out # <<>>
    BY <1>1 DEF SInv, ListInv
  <2>2. ToSet(out) = Effective
    BY <1>1, <2>1, FullList DEF AllParsed
  <2>3. ToSet(out) # {}
    <3>1. 1 \in DOMAIN out
      BY <2>1
    <3> QED BY <3>1 DEF ToSet
  <2>4. Profile \in DOMAIN Profiles /\ ~ParseFails(cfg.include) /\ ~ParseFails(cfg.exclude)
    BY <1>1 DEF SInv, ParsedInv, IncludesParsed, ExcludesParsed
  <2> QED BY <2>2, <2>3, <2>4 DEF Mistaken, ParseFails
<1>2. ASSUME SInv, pc = "failed" PROVE Mistaken
  BY <1>2 DEF SInv, FailedInv
<1>3. SInv => RejectedIfMistaken
  BY <1>1, <1>2 DEF RejectedIfMistaken, Mistaken
<1> QED BY <1>3, InvariantHolds, PTL
=============================================================================

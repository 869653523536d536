-------------------------- MODULE Redaction_proofs --------------------------
(***************************************************************************)
(* Redaction, proved for every text, every list of results and every       *)
(* length: the invariants its run checks hold in every state.              *)
(*                                                                         *)
(* The first part is about the loops and sorts the model is built from;    *)
(* every loop is shown to make its turns (LoopExists, LoopIsUnique) before *)
(* anything is said of its result.  Then each function of the code:        *)
(* mergeSpans (MergeSpansFacts), locateAll (LocateAllFacts), the candidate *)
(* list (CandidateFacts), _merge_labelled_spans (MergeLabelledFacts) and   *)
(* the splice (SplicePieces, TilingFacts, VisibleReads).  IInv is the      *)
(* inductive invariant, one lemma for each of its parts, and the theorems  *)
(* are at the end.                                                         *)
(***************************************************************************)
EXTENDS Redaction, FunctionTheorems, FiniteSetTheorems, WellFoundedInduction, TLAPS

-----------------------------------------------------------------------------
(* Loops, least elements and sorting.                                      *)

\* Induction from a bound up to a bound, for a set.
LEMMA EveryCount ==
  ASSUME NEW a \in Nat, NEW N \in Nat, NEW S, a \in S,
         \A n \in a .. N - 1 : n \in S => n + 1 \in S
  PROVE  \A n \in a .. N : n \in S
<1> DEFINE T == (a .. N) \ S
<1> SUFFICES ASSUME T # {} PROVE FALSE
  OBVIOUS
<1>1. T \subseteq Nat
  OBVIOUS
<1>2. PICK x \in T : \A y \in T : <<y, x>> \notin OpToRel(<, Nat)
  <2> HIDE DEF T
  <2> QED BY <1>1, WFMin, NatLessThanWellFounded, Zenon
<1>3. x \in a .. N /\ x \notin S
  BY <1>2, Zenon
<1>4. x # a
  BY <1>3, Zenon
<1>5. /\ x - 1 \in a .. N - 1 /\ x - 1 \in a .. N
      /\ x - 1 \in Nat /\ x \in Nat /\ x - 1 < x /\ x = (x - 1) + 1
  BY <1>3, <1>4
<1>6. x - 1 \notin T
  <2>1. ASSUME x - 1 \in T PROVE <<x - 1, x>> \in OpToRel(<, Nat)
    BY <1>5, Zenon DEF OpToRel
  <2> QED BY <1>2, <2>1
<1>7. x \in S
  BY <1>5, <1>6
<1> QED BY <1>3, <1>7

\* A nonempty set of naturals has a first element.
LEMMA FirstFacts ==
  ASSUME NEW S \in SUBSET Nat, S # {}
  PROVE  First(S) \in S /\ \A u \in S : First(S) <= u
<1>1. PICK x \in S : \A y \in S : <<y, x>> \notin OpToRel(<, Nat)
  BY WFMin, NatLessThanWellFounded, Zenon
<1>2. ASSUME NEW y \in S PROVE x <= y
  <2>1. ~(y < x)
    <3>1. ASSUME y < x PROVE <<y, x>> \in OpToRel(<, Nat)
      BY <3>1, Zenon DEF OpToRel
    <3> QED BY <1>1, <3>1
  <2> QED BY <2>1
<1> QED BY <1>2 DEF First

\* f makes N - a turns of a loop: turn n does step[n].
Loops(f, a, N, V, first, step) ==
    /\ f \in [a .. N -> V] /\ f[a] = first
    /\ \A n \in a + 1 .. N : f[n] = step[n][f[n - 1]]

\* Every loop over a type of values can be run.
LEMMA LoopExists ==
  ASSUME NEW a \in Nat, NEW N \in Nat, a <= N, NEW V, NEW first \in V,
         NEW step \in [a + 1 .. N -> [V -> V]]
  PROVE  \E f : Loops(f, a, N, V, first, step)
<1> DEFINE S == {m \in a .. N : \E f : Loops(f, a, m, V, first, step)}
<1>1. a \in S
  <2>1. Loops([n \in a .. a |-> first], a, a, V, first, step)
    BY DEF Loops
  <2> QED BY <2>1
<1>2. ASSUME NEW m \in a .. N - 1, m \in S PROVE m + 1 \in S
  <2>1. PICK f : Loops(f, a, m, V, first, step)
    BY <1>2
  <2>2. m \in a .. m /\ m \in Nat /\ m + 1 \in a + 1 .. N /\ m + 1 \in a .. N
    OBVIOUS
  <2> DEFINE last == step[m + 1][f[m]]
             g == [n \in a .. m + 1 |-> IF n = m + 1 THEN last ELSE f[n]]
  <2>3. last \in V
    <3>1. f[m] \in V
      BY <2>1, <2>2 DEF Loops
    <3>2. step[m + 1] \in [V -> V]
      BY <2>2
    <3> QED BY <3>1, <3>2
  <2>4. \A n \in a .. m + 1 : n = m + 1 \/ n \in a .. m
    BY <2>2
  <2>5. g \in [a .. m + 1 -> V]
    <3> HIDE DEF last
    <3> QED BY <2>1, <2>3, <2>4 DEF Loops
  <2>6. g[a] = first
    <3>1. a \in a .. m + 1 /\ a # m + 1
      BY <2>2
    <3>2. g[a] = f[a]
      BY <3>1
    <3> QED BY <2>1, <3>2 DEF Loops
  <2>7. ASSUME NEW n \in a + 1 .. m + 1 PROVE g[n] = step[n][g[n - 1]]
    <3>1. CASE n = m + 1
      <4>1. m + 1 \in a .. m + 1 /\ m \in a .. m + 1 /\ m # m + 1 /\ n - 1 = m
        BY <2>2, <3>1
      <4>2. g[n] = last
        BY <3>1, <4>1
      <4>3. g[n - 1] = f[m]
        BY <4>1
      <4> HIDE DEF g
      <4> QED BY <3>1, <4>2, <4>3
    <3>2. CASE n \in a + 1 .. m
      <4>1. /\ n \in a .. m + 1 /\ n - 1 \in a .. m + 1
            /\ n # m + 1 /\ n - 1 # m + 1
        BY <2>2, <3>2
      <4>2. g[n] = f[n] /\ g[n - 1] = f[n - 1]
        BY <4>1
      <4> HIDE DEF g
      <4> QED BY <2>1, <3>2, <4>2 DEF Loops
    <3> QED BY <2>2, <3>1, <3>2
  <2> HIDE DEF g
  <2>8. Loops(g, a, m + 1, V, first, step)
    BY <2>5, <2>6, <2>7 DEF Loops
  <2> QED BY <2>2, <2>8
<1>3. \A m \in a .. N : m \in S
  <2> HIDE DEF S
  <2> QED BY <1>1, <1>2, EveryCount
<1>4. N \in S
  BY <1>3
<1> QED BY <1>4

\* A function that makes the same turns from the same value is that loop.
LEMMA LoopIsUnique ==
  ASSUME NEW a \in Nat, NEW N \in Nat, a <= N, NEW V, NEW first, NEW step,
         NEW f, Loops(f, a, N, V, first, step), NEW g,
         g[a] = first, \A n \in a + 1 .. N : g[n - 1] \in V => g[n] = step[n][g[n - 1]]
  PROVE  \A n \in a .. N : g[n] = f[n]
<1> DEFINE S == {n \in a .. N : g[n] = f[n]}
<1>1. a \in S
  BY DEF Loops
<1>2. ASSUME NEW n \in a .. N - 1, n \in S PROVE n + 1 \in S
  <2>1. n + 1 \in a + 1 .. N /\ n + 1 \in a .. N /\ (n + 1) - 1 = n /\ n \in a .. N
    OBVIOUS
  <2>2. g[n] = f[n] /\ f[n] \in V
    BY <1>2, <2>1 DEF Loops
  <2>3. g[n + 1] = step[n + 1][g[n]]
    BY <2>1, <2>2
  <2>4. f[n + 1] = step[n + 1][f[n]]
    BY <2>1 DEF Loops
  <2> QED BY <2>1, <2>2, <2>3, <2>4
<1>3. \A n \in a .. N : n \in S
  <2> HIDE DEF S
  <2> QED BY <1>1, <1>2, EveryCount
<1> QED BY <1>3

\* R puts the elements of S in a strict total order.
Orders(R, S) ==
    /\ \A a \in S : <<a, a>> \notin R
    /\ \A a, b \in S : a # b => <<a, b>> \in R \/ <<b, a>> \in R
    /\ \A a, b, c \in S : <<a, b>> \in R /\ <<b, c>> \in R => <<a, c>> \in R
Below(R, S, s) == {t \in S : <<t, s>> \in R}

\* More elements are below an element than below one that is below it.
LEMMA BelowGrows ==
  ASSUME NEW S, IsFiniteSet(S), NEW R, Orders(R, S), NEW a \in S, NEW b \in S, <<a, b>> \in R
  PROVE  Cardinality(Below(R, S, a)) < Cardinality(Below(R, S, b))
<1> DEFINE A == Below(R, S, a)
           B == Below(R, S, b)
<1>1. A \subseteq B /\ a \in B /\ a \notin A
  BY DEF Orders, Below
<1>2. A \in SUBSET B /\ A # B /\ B \in SUBSET S
  BY <1>1 DEF Below
<1> HIDE DEF A, B
<1>3. IsFiniteSet(B)
  BY <1>2, FS_Subset
<1>4. IsFiniteSet(A) /\ Cardinality(A) <= Cardinality(B) /\ Cardinality(A) # Cardinality(B)
  BY <1>2, <1>3, FS_Subset
<1>5. Cardinality(A) \in Nat /\ Cardinality(B) \in Nat
  BY <1>3, <1>4, FS_CardinalityType
<1> QED BY <1>4, <1>5 DEF A, B

\* How many elements are below one tells its place, and every place is taken.
LEMMA Ranks ==
  ASSUME NEW S, IsFiniteSet(S), NEW R, Orders(R, S)
  PROVE  /\ Cardinality(S) \in Nat
         /\ \A s \in S : Cardinality(Below(R, S, s)) \in 0 .. Cardinality(S) - 1
         /\ \A n \in 1 .. Cardinality(S) : \E s \in S : Cardinality(Below(R, S, s)) = n - 1
<1> DEFINE N == Cardinality(S)
           T == 0 .. N - 1
           rank == [s \in S |-> Cardinality(Below(R, S, s))]
<1>1. N \in Nat
  BY FS_CardinalityType
<1>2. ASSUME NEW s \in S PROVE Cardinality(Below(R, S, s)) \in T
  <2> DEFINE B == Below(R, S, s)
  <2>1. B \in SUBSET S /\ s \notin B /\ B # S
    BY DEF Below, Orders
  <2> HIDE DEF B
  <2>2. IsFiniteSet(B) /\ Cardinality(B) <= N /\ Cardinality(B) # N
    BY <2>1, FS_Subset
  <2>3. Cardinality(B) \in Nat
    BY <2>2, FS_CardinalityType
  <2> HIDE DEF N
  <2>4. Cardinality(B) \in T
    BY <1>1, <2>2, <2>3
  <2> QED BY <2>4 DEF B
<1>3. IsFiniteSet(T) /\ Cardinality(T) = N
  <2> HIDE DEF N
  <2>1. 0 \in Int /\ N - 1 \in Int
    BY <1>1
  <2>2. IsFiniteSet(0 .. N - 1) /\ Cardinality(0 .. N - 1) = IF 0 > N - 1 THEN 0 ELSE N - 1 - 0 + 1
    BY <2>1, FS_Interval
  <2> QED BY <1>1, <2>2
<1>4. rank \in Injection(S, T)
  <2>1. rank \in [S -> T]
    BY <1>2
  <2>2. ASSUME NEW a \in S, NEW b \in S, rank[a] = rank[b] PROVE a = b
    <3>1. SUFFICES ASSUME a # b PROVE FALSE
      OBVIOUS
    <3>2. <<a, b>> \in R \/ <<b, a>> \in R
      BY <3>1 DEF Orders
    <3>3. rank[a] < rank[b] \/ rank[b] < rank[a]
      BY <3>2, BelowGrows
    <3>4. rank[a] \in T /\ rank[b] \in T
      BY <2>1
    <3>5. rank[a] \in Int /\ rank[b] \in Int
      BY <3>4
    <3> HIDE DEF rank
    <3> QED BY <2>2, <3>3, <3>5
  <2> HIDE DEF rank, T
  <2> QED BY <2>1, <2>2 DEF Injection, IsInjective
<1>5. rank \in Surjection(S, T)
  <2> HIDE DEF rank, T
  <2> QED BY <1>3, <1>4, FS_Injection
<1>6. ASSUME NEW n \in 1 .. N PROVE \E s \in S : Cardinality(Below(R, S, s)) = n - 1
  <2>1. n - 1 \in T
    BY <1>1
  <2>2. \E s \in S : rank[s] = n - 1
    <3> HIDE DEF rank, T
    <3> QED BY <1>5, <2>1 DEF Surjection
  <2> QED BY <2>2
<1> QED BY <1>1, <1>2, <1>6

\* The n-th element of q has n - 1 elements below it, if some element has.
Ranked(q, R, S) ==
    \A n \in 1 .. Cardinality(S), s \in S :
        Cardinality(Below(R, S, s)) = n - 1
        => q[n] \in S /\ Cardinality(Below(R, S, q[n])) = n - 1

\* Such a sequence is its set in order.
LEMMA SortFacts ==
  ASSUME NEW S, IsFiniteSet(S), NEW R, Orders(R, S), NEW q,
         Ranked(q, R, S)
  PROVE  /\ Cardinality(S) \in Nat
         /\ \A n \in 1 .. Cardinality(S) : q[n] \in S
         /\ \A s \in S : \E n \in 1 .. Cardinality(S) : q[n] = s
         /\ \A m, n \in 1 .. Cardinality(S) : m < n => <<q[m], q[n]>> \in R
<1> DEFINE N == Cardinality(S)
           rank(s) == Cardinality(Below(R, S, s))
<1>1. /\ N \in Nat /\ \A s \in S : rank(s) \in 0 .. N - 1
      /\ \A n \in 1 .. N : \E s \in S : rank(s) = n - 1
  BY Ranks
<1>2. ASSUME NEW n \in 1 .. N PROVE q[n] \in S /\ rank(q[n]) = n - 1
  <2>1. PICK s \in S : rank(s) = n - 1
    BY <1>1
  <2> QED BY <2>1 DEF Ranked
<1>3. \A a, b \in S : <<a, b>> \in R => rank(a) < rank(b)
  BY BelowGrows
<1>4. \A a, b \in S : a # b => <<a, b>> \in R \/ <<b, a>> \in R
  BY DEF Orders
<1> HIDE DEF rank, N
<1>5. \A a, b \in S : rank(a) = rank(b) => a = b
  <2> SUFFICES ASSUME NEW a \in S, NEW b \in S, rank(a) = rank(b), a # b PROVE FALSE
    OBVIOUS
  <2>1. rank(a) \in Int /\ rank(b) \in Int
    BY <1>1
  <2>2. rank(a) < rank(b) \/ rank(b) < rank(a)
    BY <1>3, <1>4
  <2> QED BY <2>1, <2>2
<1>6. ASSUME NEW s \in S PROVE \E n \in 1 .. N : q[n] = s
  <2>1. rank(s) \in 0 .. N - 1
    BY <1>1
  <2>2. PICK n \in 1 .. N : n - 1 = rank(s)
    <3>1. rank(s) + 1 \in 1 .. N /\ (rank(s) + 1) - 1 = rank(s)
      BY <1>1, <2>1
    <3> QED BY <3>1
  <2>3. q[n] \in S /\ rank(q[n]) = n - 1
    BY <1>2
  <2>4. q[n] = s
    BY <1>5, <2>2, <2>3
  <2> QED BY <2>4
<1>7. ASSUME NEW m \in 1 .. N, NEW n \in 1 .. N, m < n PROVE <<q[m], q[n]>> \in R
  <2>1. q[m] \in S /\ q[n] \in S /\ rank(q[m]) = m - 1 /\ rank(q[n]) = n - 1
    BY <1>2
  <2>2. q[m] # q[n] /\ ~(rank(q[n]) < rank(q[m]))
    <3>1. m - 1 < n - 1
      BY <1>1, <1>7
    <3>2. m \in Int /\ n \in Int
      BY <1>1
    <3> QED BY <2>1, <3>1, <3>2
  <2> QED BY <1>3, <1>4, <2>1, <2>2
<1> QED BY <1>1, <1>2, <1>6, <1>7 DEF N

-----------------------------------------------------------------------------
(* One turn of either merge, of which only the bounds matter.              *)

NonEmpty(s) == s.from \in Nat /\ s.to \in Nat /\ s.from < s.to
Inside(s, p) == p.from <= s.from /\ s.to <= p.to
Within(T, p) == {s \in T : Inside(s, p)}

\* The pieces of m neither overlap nor touch, they hold the spans of T and
\* nothing but their bytes.
Apart(m) ==
    /\ Len(m) \in Nat \ {0}
    /\ \A k \in 1 .. Len(m) : NonEmpty(m[k])
    /\ \A k, l \in 1 .. Len(m) : k < l => m[k].to < m[l].from
Merged(m, T) ==
    /\ Apart(m)
    /\ \A s \in T : \E k \in 1 .. Len(m) : Inside(s, m[k])
    /\ \A k \in 1 .. Len(m) : \A b \in m[k].from .. m[k].to - 1 :
          \E s \in T : s.from <= b /\ b < s.to

\* The next span extends the last piece, or is the next piece.
Extends(m, s, n) ==
    /\ s.from <= m[Len(m)].to /\ Len(n) = Len(m)
    /\ \A k \in 1 .. Len(m) : k < Len(m) => n[k] = m[k]
    /\ n[Len(m)].from = m[Len(m)].from
    /\ n[Len(m)].to = IF s.to > m[Len(m)].to THEN s.to ELSE m[Len(m)].to
Follows(m, s, n) ==
    /\ s.from > m[Len(m)].to /\ Len(n) = Len(m) + 1
    /\ \A k \in 1 .. Len(m) : n[k] = m[k]
    /\ n[Len(m) + 1].from = s.from /\ n[Len(m) + 1].to = s.to

\* Which of the spans each piece then holds.
LastHolds(n, T, m, s) ==
    /\ \A k \in 1 .. Len(m) : k < Len(m) => Within(T \cup {s}, n[k]) = Within(T, m[k])
    /\ Within(T \cup {s}, n[Len(m)]) = Within(T, m[Len(m)]) \cup {s}
NextHolds(n, T, m, s) ==
    /\ \A k \in 1 .. Len(m) : Within(T \cup {s}, n[k]) = Within(T, m[k])
    /\ Within(T \cup {s}, n[Len(m) + 1]) = {s}

\* The first byte of the last piece is the first of some span.
LEMMA LastStarts ==
  ASSUME NEW T, \A s \in T : NonEmpty(s), NEW m, Merged(m, T)
  PROVE  \E s \in T : s.from = m[Len(m)].from
<1> DEFINE L == Len(m)
           b == m[L].from
<1>1. L \in Nat /\ L \in 1 .. L /\ NonEmpty(m[L])
  BY DEF Merged, Apart
<1>2. b \in m[L].from .. m[L].to - 1
  BY <1>1 DEF NonEmpty
<1>3. PICK s \in T : s.from <= b /\ b < s.to
  BY <1>1, <1>2 DEF Merged
<1>4. PICK k \in 1 .. L : Inside(s, m[k])
  BY <1>3 DEF Merged
<1>5. NonEmpty(s) /\ NonEmpty(m[k])
  BY <1>4 DEF Merged, Apart
<1>6. k = L
  <2>1. SUFFICES ASSUME k # L PROVE FALSE
    OBVIOUS
  <2>2. k < L
    BY <1>1, <2>1
  <2>3. m[k].to < m[L].from
    BY <1>1, <2>2 DEF Merged, Apart
  <2> QED BY <1>1, <1>3, <1>4, <1>5, <2>3 DEF NonEmpty, Inside
<1>7. s.from = b
  BY <1>1, <1>3, <1>4, <1>5, <1>6 DEF NonEmpty, Inside
<1> QED BY <1>7

\* What holds before the next span is looked at.
LEMMA BeforeTurn ==
  ASSUME NEW T, NEW m, Merged(m, T), NEW t, NonEmpty(t),
         \A s \in T : NonEmpty(s) /\ s.from <= t.from
  PROVE  /\ Len(m) \in Nat /\ Len(m) >= 1 /\ NonEmpty(m[Len(m)]) /\ m[Len(m)].from <= t.from
         /\ \A k \in 1 .. Len(m) : k = Len(m) \/
               (k < Len(m) /\ NonEmpty(m[k]) /\ m[k].to < m[Len(m)].from)
<1>1. PICK s \in T : s.from = m[Len(m)].from
  BY LastStarts
<1>2. Len(m) \in Nat /\ Len(m) >= 1 /\ Len(m) \in 1 .. Len(m) /\ NonEmpty(m[Len(m)])
  BY DEF Merged, Apart
<1>3. ASSUME NEW k \in 1 .. Len(m), k # Len(m)
      PROVE  k < Len(m) /\ NonEmpty(m[k]) /\ m[k].to < m[Len(m)].from
  <2>1. k < Len(m)
    BY <1>2, <1>3
  <2> QED BY <1>2, <2>1 DEF Merged, Apart
<1> QED BY <1>1, <1>2, <1>3

\* A turn that extends the last piece keeps the pieces merged, and the last
\* piece holds the new span beside those it held.
LEMMA ExtendsMerged ==
  ASSUME NEW T, NEW m, Merged(m, T), NEW t, NonEmpty(t),
         \A s \in T : NonEmpty(s) /\ s.from <= t.from,
         NEW n, Extends(m, t, n)
  PROVE  Merged(n, T \cup {t}) /\ LastHolds(n, T, m, t)
<1> DEFINE L == Len(m)
           U == T \cup {t}
<1>1. /\ L \in Nat /\ L >= 1 /\ NonEmpty(m[L]) /\ m[L].from <= t.from
      /\ \A k \in 1 .. L : k = L \/ (k < L /\ NonEmpty(m[k]) /\ m[k].to < m[L].from)
  BY BeforeTurn
<1>2. /\ t.from <= m[L].to /\ Len(n) = L
      /\ \A k \in 1 .. L : k < L => n[k] = m[k]
      /\ n[L].from = m[L].from
      /\ n[L].to = IF t.to > m[L].to THEN t.to ELSE m[L].to
  BY DEF Extends
<1>3. /\ \A k, l \in 1 .. L : k < l => m[k].to < m[l].from
      /\ \A s \in T : \E k \in 1 .. L : Inside(s, m[k])
      /\ \A k \in 1 .. L : \A b \in m[k].from .. m[k].to - 1 :
            \E s \in T : s.from <= b /\ b < s.to
  BY DEF Merged, Apart
<1> HIDE DEF L
<1>4. L \in 1 .. L
  BY <1>1
<1>5. /\ NonEmpty(n[L]) /\ Inside(t, n[L]) /\ m[L].to <= n[L].to
      /\ n[L].to = t.to \/ n[L].to = m[L].to
  BY <1>1, <1>2 DEF NonEmpty, Inside
<1>6. ASSUME NEW s \in T, NEW k \in 1 .. L, k < L, Inside(s, m[k]) PROVE ~Inside(s, n[L])
  BY <1>1, <1>2, <1>6 DEF NonEmpty, Inside
<1>7. ASSUME NEW k \in 1 .. L, k < L PROVE ~Inside(t, n[k]) /\ n[k] = m[k]
  BY <1>1, <1>2, <1>7 DEF NonEmpty, Inside
<1>8. ASSUME NEW s \in T, Inside(s, m[L]) PROVE Inside(s, n[L])
  BY <1>1, <1>2, <1>5, <1>8 DEF NonEmpty, Inside
<1>9. Apart(n)
  <2>1. ASSUME NEW k \in 1 .. L PROVE NonEmpty(n[k])
    BY <1>1, <1>2, <1>5
  <2>2. ASSUME NEW k \in 1 .. L, NEW l \in 1 .. L, k < l PROVE n[k].to < n[l].from
    <3>1. k < L
      BY <1>1, <2>2
    <3>2. n[k] = m[k] /\ m[k].to < m[l].from
      BY <1>2, <1>3, <2>2, <3>1
    <3>3. n[l].from = m[l].from
      BY <1>1, <1>2
    <3> QED BY <3>2, <3>3
  <2> QED BY <1>1, <1>2, <2>1, <2>2 DEF Apart
<1>10. ASSUME NEW s \in U PROVE \E k \in 1 .. L : Inside(s, n[k])
  <2>1. CASE s = t
    BY <1>4, <1>5, <2>1
  <2>2. CASE s \in T
    <3>1. PICK k \in 1 .. L : Inside(s, m[k])
      BY <1>3, <2>2
    <3>2. CASE k = L
      BY <1>4, <1>8, <2>2, <3>1, <3>2
    <3>3. CASE k < L
      BY <1>2, <3>1, <3>3
    <3> QED BY <1>1, <3>2, <3>3
  <2> QED BY <2>1, <2>2
<1>11. ASSUME NEW k \in 1 .. L, NEW b \in n[k].from .. n[k].to - 1
       PROVE  \E s \in U : s.from <= b /\ b < s.to
  <2>1. CASE k < L
    BY <1>2, <1>3, <2>1
  <2>2. CASE k = L /\ b < m[L].to
    <3>1. b \in m[L].from .. m[L].to - 1
      BY <1>1, <1>2, <1>5, <2>2 DEF NonEmpty
    <3> QED BY <1>3, <1>4, <3>1
  <2>3. CASE k = L /\ ~(b < m[L].to)
    <3>1. t.from <= b /\ b < t.to
      BY <1>1, <1>2, <1>5, <2>3 DEF NonEmpty
    <3> QED BY <3>1
  <2> QED BY <1>1, <2>1, <2>2, <2>3
<1>12. Merged(n, U)
  BY <1>2, <1>9, <1>10, <1>11 DEF Merged
<1>13. ASSUME NEW k \in 1 .. L, k < L PROVE Within(U, n[k]) = Within(T, m[k])
  <2>1. n[k] = m[k] /\ ~Inside(t, n[k])
    BY <1>7, <1>13
  <2> QED BY <2>1 DEF Within
<1>14. Within(U, n[L]) = Within(T, m[L]) \cup {t}
  <2>1. ASSUME NEW s \in T, Inside(s, n[L]) PROVE Inside(s, m[L])
    <3>1. PICK k \in 1 .. L : Inside(s, m[k])
      BY <1>3
    <3>2. k = L
      BY <1>1, <1>6, <2>1, <3>1
    <3> QED BY <3>1, <3>2
  <2> QED BY <1>5, <1>8, <2>1 DEF Within
<1> QED BY <1>12, <1>13, <1>14 DEF L, LastHolds

\* A turn that begins a piece keeps the pieces merged, and the new piece holds
\* only the new span.
LEMMA FollowsMerged ==
  ASSUME NEW T, NEW m, Merged(m, T), NEW t, NonEmpty(t),
         \A s \in T : NonEmpty(s) /\ s.from <= t.from,
         NEW n, Follows(m, t, n)
  PROVE  Merged(n, T \cup {t}) /\ NextHolds(n, T, m, t)
<1> DEFINE L == Len(m)
           U == T \cup {t}
<1>1. /\ L \in Nat /\ L >= 1 /\ NonEmpty(m[L]) /\ m[L].from <= t.from
      /\ \A k \in 1 .. L : k = L \/ (k < L /\ NonEmpty(m[k]) /\ m[k].to < m[L].from)
  BY BeforeTurn
<1>2. /\ t.from > m[L].to /\ Len(n) = L + 1
      /\ \A k \in 1 .. L : n[k] = m[k]
      /\ n[L + 1].from = t.from /\ n[L + 1].to = t.to
  BY DEF Follows
<1>3. /\ \A k, l \in 1 .. L : k < l => m[k].to < m[l].from
      /\ \A s \in T : \E k \in 1 .. L : Inside(s, m[k])
      /\ \A k \in 1 .. L : \A b \in m[k].from .. m[k].to - 1 :
            \E s \in T : s.from <= b /\ b < s.to
  BY DEF Merged, Apart
<1> HIDE DEF L
<1>4. /\ L + 1 \in 1 .. L + 1 /\ L + 1 \in Nat \ {0}
      /\ \A k \in 1 .. L + 1 : k = L + 1 \/ k \in 1 .. L
      /\ \A k \in 1 .. L : k \in 1 .. L + 1 /\ k # L + 1
  BY <1>1
<1>5. NonEmpty(n[L + 1]) /\ Inside(t, n[L + 1])
  BY <1>2 DEF NonEmpty, Inside
<1>6. ASSUME NEW k \in 1 .. L PROVE NonEmpty(m[k]) /\ m[k].to < t.from
  BY <1>1, <1>2 DEF NonEmpty
<1>7. Apart(n)
  <2>1. ASSUME NEW k \in 1 .. L + 1 PROVE NonEmpty(n[k])
    BY <1>2, <1>4, <1>5, <1>6
  <2>2. ASSUME NEW k \in 1 .. L + 1, NEW l \in 1 .. L + 1, k < l PROVE n[k].to < n[l].from
    <3>1. k \in 1 .. L
      BY <1>1, <2>2
    <3>2. CASE l = L + 1
      BY <1>2, <1>6, <3>1, <3>2
    <3>3. CASE l \in 1 .. L
      BY <1>2, <1>3, <2>2, <3>1, <3>3
    <3> QED BY <1>4, <3>2, <3>3
  <2> QED BY <1>2, <1>4, <2>1, <2>2 DEF Apart
<1>8. ASSUME NEW s \in U PROVE \E k \in 1 .. L + 1 : Inside(s, n[k])
  <2>1. CASE s = t
    BY <1>4, <1>5, <2>1
  <2>2. CASE s \in T
    BY <1>2, <1>3, <1>4, <2>2
  <2> QED BY <2>1, <2>2
<1>9. ASSUME NEW k \in 1 .. L + 1, NEW b \in n[k].from .. n[k].to - 1
      PROVE  \E s \in U : s.from <= b /\ b < s.to
  <2>1. CASE k \in 1 .. L
    BY <1>2, <1>3, <2>1
  <2>2. CASE k = L + 1
    <3>1. t.from <= b /\ b < t.to
      BY <1>2, <1>5, <2>2 DEF NonEmpty
    <3> QED BY <3>1
  <2> QED BY <1>4, <2>1, <2>2
<1>10. Merged(n, U)
  BY <1>2, <1>7, <1>8, <1>9 DEF Merged
<1>11. ASSUME NEW k \in 1 .. L PROVE Within(U, n[k]) = Within(T, m[k])
  <2>1. n[k] = m[k] /\ ~Inside(t, m[k])
    BY <1>2, <1>6 DEF Inside, NonEmpty
  <2> QED BY <2>1 DEF Within
<1>12. Within(U, n[L + 1]) = {t}
  <2>1. ASSUME NEW s \in T PROVE ~Inside(s, n[L + 1])
    <3>1. PICK k \in 1 .. L : Inside(s, m[k])
      BY <1>3
    <3>2. NonEmpty(s)
      OBVIOUS
    <3> QED BY <1>2, <1>6, <3>1, <3>2 DEF Inside, NonEmpty
  <2> QED BY <1>5, <2>1 DEF Within
<1> QED BY <1>10, <1>11, <1>12 DEF L, NextHolds

\* The first piece is the first span.
LEMMA FirstMerged ==
  ASSUME NEW t, NonEmpty(t), NEW m, Len(m) = 1, m[1].from = t.from, m[1].to = t.to
  PROVE  Merged(m, {t}) /\ Within({t}, m[1]) = {t}
<1>1. NonEmpty(m[1]) /\ Inside(t, m[1])
  BY DEF NonEmpty, Inside
<1>2. Len(m) \in Nat \ {0} /\ \A k \in 1 .. Len(m) : k = 1
  OBVIOUS
<1>3. Apart(m)
  BY <1>1, <1>2 DEF Apart
<1>4. \A b \in m[1].from .. m[1].to - 1 : t.from <= b /\ b < t.to
  BY <1>1 DEF NonEmpty
<1>5. Merged(m, {t})
  BY <1>1, <1>2, <1>3, <1>4 DEF Merged
<1> QED BY <1>1, <1>5 DEF Within

-----------------------------------------------------------------------------
(* mergeSpans.                                                             *)

\* A span of what is scanned.
LEMMA SpanFacts ==
  ASSUME NEW s, ScannedBytes \in Nat
  PROVE  /\ s \in SpanSet => s.from \in 0 .. ScannedBytes /\ s.to \in 0 .. ScannedBytes /\ NonEmpty(s)
         /\ \A a \in 0 .. ScannedBytes, b \in 0 .. ScannedBytes : a < b => [from |-> a, to |-> b] \in SpanSet
         /\ \A t \in SpanSet : s \in SpanSet /\ s.from = t.from /\ s.to = t.to => s = t
BY DEF SpanSet, NonEmpty

\* There are finitely many.
LEMMA SpansFinite ==
  ASSUME ScannedBytes \in Nat, NEW S \in SUBSET SpanSet
  PROVE  IsFiniteSet(S)
<1> DEFINE P == (0 .. ScannedBytes) \X (0 .. ScannedBytes)
           f == [s \in SpanSet |-> <<s.from, s.to>>]
<1>1. IsFiniteSet(P)
  <2>1. IsFiniteSet(0 .. ScannedBytes)
    BY FS_Interval
  <2> QED BY <2>1, FS_Product
<1>2. f \in Injection(SpanSet, P)
  <2>1. ASSUME NEW s \in SpanSet PROVE <<s.from, s.to>> \in P
    BY SpanFacts
  <2>2. ASSUME NEW s \in SpanSet, NEW t \in SpanSet, f[s] = f[t] PROVE s = t
    BY <2>2, SpanFacts
  <2> HIDE DEF P
  <2>3. f \in [SpanSet -> P]
    BY <2>1
  <2> HIDE DEF f
  <2> QED BY <2>2, <2>3 DEF Injection, IsInjective
<1>3. IsFiniteSet(SpanSet)
  <2> HIDE DEF P, f
  <2> QED BY <1>1, <1>2, FS_Injection
<1> QED BY <1>3, FS_Subset

\* The order of mergeSpans, by start and then the longest first.
EarlierIn(S) == {p \in S \X S : Earlier(p[1], p[2])}

\* It is total: no two spans have the same bounds.
LEMMA EarlierOrders ==
  ASSUME ScannedBytes \in Nat, NEW S \in SUBSET SpanSet
  PROVE  Orders(EarlierIn(S), S)
<1>1. \A a, b \in S : <<a, b>> \in EarlierIn(S) <=> Earlier(a, b)
  BY DEF EarlierIn
<1>2. \A s \in S : NonEmpty(s)
  BY SpanFacts
<1>3. \A s \in S : ~Earlier(s, s)
  BY <1>2 DEF Earlier, NonEmpty
<1>4. ASSUME NEW a \in S, NEW b \in S, a # b PROVE Earlier(a, b) \/ Earlier(b, a)
  <2>1. a.from # b.from \/ a.to # b.to
    BY <1>4, SpanFacts
  <2> QED BY <1>2, <2>1 DEF Earlier, NonEmpty
<1>5. ASSUME NEW a \in S, NEW b \in S, NEW c \in S, Earlier(a, b), Earlier(b, c)
      PROVE  Earlier(a, c)
  BY <1>2, <1>5 DEF Earlier, NonEmpty
<1> QED BY <1>1, <1>3, <1>4, <1>5 DEF Orders

\* The spans in that order.
LEMMA SortedSpans ==
  ASSUME ScannedBytes \in Nat, NEW S \in SUBSET SpanSet, NEW q,
         \A n \in 1 .. Cardinality(S) :
            q[n] = CHOOSE s \in S : Cardinality({t \in S : Earlier(t, s)}) = n - 1
  PROVE  /\ Cardinality(S) \in Nat /\ (Cardinality(S) = 0 <=> S = {})
         /\ \A n \in 1 .. Cardinality(S) : q[n] \in S
         /\ \A s \in S : \E n \in 1 .. Cardinality(S) : q[n] = s
         /\ \A m, n \in 1 .. Cardinality(S) : m < n => q[m].from <= q[n].from
<1> DEFINE R == EarlierIn(S)
           N == Cardinality(S)
<1>1. IsFiniteSet(S) /\ Orders(R, S)
  BY SpansFinite, EarlierOrders
<1>2. \A s \in S : {t \in S : Earlier(t, s)} = Below(R, S, s)
  BY DEF Below, EarlierIn
<1>3. ASSUME NEW n \in 1 .. N, NEW s \in S, Cardinality(Below(R, S, s)) = n - 1
      PROVE  q[n] \in S /\ Cardinality(Below(R, S, q[n])) = n - 1
  <2> DEFINE P(u) == Cardinality({t \in S : Earlier(t, u)}) = n - 1
  <2>1. q[n] = CHOOSE u \in S : P(u)
    OBVIOUS
  <2>2. P(s)
    BY <1>2, <1>3
  <2>3. q[n] \in S /\ P(q[n])
    <3> HIDE DEF P
    <3> QED BY <2>1, <2>2
  <2> QED BY <1>2, <2>3
<1>4. /\ N \in Nat
      /\ \A n \in 1 .. N : q[n] \in S
      /\ \A s \in S : \E n \in 1 .. N : q[n] = s
      /\ \A m, n \in 1 .. N : m < n => <<q[m], q[n]>> \in R
  <2> HIDE DEF R
  <2>1. Ranked(q, R, S)
    BY <1>3 DEF Ranked
  <2> QED BY <1>1, <2>1, SortFacts
<1>5. ASSUME NEW m \in 1 .. N, NEW n \in 1 .. N, m < n PROVE q[m].from <= q[n].from
  <2>1. Earlier(q[m], q[n])
    BY <1>4, <1>5 DEF EarlierIn
  <2>2. NonEmpty(q[m]) /\ NonEmpty(q[n])
    BY <1>4, SpanFacts
  <2> QED BY <2>1, <2>2 DEF Earlier, NonEmpty
<1> QED BY <1>1, <1>4, <1>5, FS_EmptySet

\* The values out takes in mergeSpans.
Pieces == {m \in Seq(SpanSet) : m # <<>>}

\* One turn of its loop.
LEMMA CoalesceFacts ==
  ASSUME ScannedBytes \in Nat, NEW m \in Pieces, NEW s \in SpanSet
  PROVE  /\ Coalesce(m, s) \in Pieces
         /\ \/ Extends(m, s, Coalesce(m, s))
            \/ Follows(m, s, Coalesce(m, s))
<1> DEFINE L == Len(m)
           last == m[L]
           long == [from |-> last.from, to |-> s.to]
<1>1. m \in Seq(SpanSet) /\ L \in Nat /\ L >= 1 /\ L \in 1 .. L /\ DOMAIN m = 1 .. L
  BY DEF Pieces
<1>2. last \in SpanSet /\ NonEmpty(last) /\ NonEmpty(s)
  <2>1. last \in SpanSet
    BY <1>1
  <2> QED BY <2>1, SpanFacts
<1>3. CASE s.from <= last.to /\ s.to > last.to
  <2> DEFINE n == [m EXCEPT ![L] = long]
  <2>1. Coalesce(m, s) = n
    BY <1>3 DEF Coalesce
  <2>2. long \in SpanSet
    <3>1. last.from < s.to
      BY <1>2, <1>3 DEF NonEmpty
    <3> QED BY <1>2, <3>1, SpanFacts
  <2>3. long.from = last.from /\ long.to = s.to
    OBVIOUS
  <2> HIDE DEF long
  <2>4. n \in Seq(SpanSet) /\ Len(n) = L /\ n[L] = long
    BY <1>1, <2>2
  <2>5. ASSUME NEW k \in 1 .. L, k < L PROVE n[k] = m[k]
    <3>1. k \in DOMAIN m
      BY <1>1
    <3>2. k # L
      <4> HIDE DEF L, n
      <4> QED BY <1>1, <2>5
    <3> HIDE DEF L
    <3> QED BY <3>1, <3>2
  <2>6. n # <<>>
    BY <1>1, <2>4
  <2> HIDE DEF n, L
  <2>7. Extends(m, s, n)
    BY <1>3, <2>3, <2>4, <2>5 DEF Extends, L
  <2> QED BY <2>1, <2>4, <2>6, <2>7 DEF Pieces
<1>4. CASE s.from <= last.to /\ ~(s.to > last.to)
  <2>1. Coalesce(m, s) = m
    BY <1>4 DEF Coalesce
  <2>2. Extends(m, s, m)
    BY <1>4 DEF Extends
  <2> QED BY <2>1, <2>2
<1>5. CASE ~(s.from <= last.to)
  <2>1. Coalesce(m, s) = Append(m, s)
    BY <1>5 DEF Coalesce
  <2> DEFINE n == Append(m, s)
  <2>2. /\ n \in Seq(SpanSet) /\ Len(n) = L + 1 /\ n[L + 1] = s
        /\ \A k \in 1 .. L : n[k] = m[k]
    BY <1>1
  <2>3. n # <<>> /\ s.from > last.to
    BY <1>1, <1>2, <1>5, <2>2 DEF NonEmpty
  <2> HIDE DEF n
  <2>4. Follows(m, s, n)
    BY <2>2, <2>3 DEF Follows
  <2> QED BY <2>1, <2>2, <2>3, <2>4 DEF Pieces, n
<1> QED BY <1>3, <1>4, <1>5

\* The loop, over spans in order.
Merging(q, N) ==
    CHOOSE h : h = [n \in 1 .. N |-> IF n = 1 THEN <<q[1]>> ELSE Coalesce(h[n - 1], q[n])]
UpTo(q, n) == {q[k] : k \in 1 .. n}

\* What is merged after each turn.
MergeTurns(g, q, N) ==
    /\ \A n \in 1 .. N : g[n] \in Pieces
    /\ g[1] = <<q[1]>>
    /\ \A n \in 1 + 1 .. N : g[n] = Coalesce(g[n - 1], q[n])

\* The loop makes its turns.
LEMMA MergingTurns ==
  ASSUME ScannedBytes \in Nat, NEW q, NEW N \in Nat, N >= 1, \A n \in 1 .. N : q[n] \in SpanSet
  PROVE  MergeTurns(Merging(q, N), q, N)
<1> DEFINE body(h) == [n \in 1 .. N |-> IF n = 1 THEN <<q[1]>> ELSE Coalesce(h[n - 1], q[n])]
           step == [n \in 1 + 1 .. N |-> [m \in Pieces |-> Coalesce(m, q[n])]]
           g == Merging(q, N)
<1>1. <<q[1]>> \in Pieces
  <2>1. q[1] \in SpanSet
    OBVIOUS
  <2>2. <<q[1]>> \in Seq(SpanSet) /\ <<q[1]>> # <<>>
    BY <2>1
  <2> QED BY <2>2 DEF Pieces
<1>2. step \in [1 + 1 .. N -> [Pieces -> Pieces]]
  <2>1. ASSUME NEW n \in 1 + 1 .. N, NEW m \in Pieces PROVE Coalesce(m, q[n]) \in Pieces
    <3>1. q[n] \in SpanSet
      OBVIOUS
    <3> QED BY <3>1, CoalesceFacts
  <2> QED BY <2>1
<1>3. PICK f : Loops(f, 1, N, Pieces, <<q[1]>>, step)
  <2> HIDE DEF step
  <2> QED BY <1>1, <1>2, LoopExists
<1>4. /\ f \in [1 .. N -> Pieces] /\ f[1] = <<q[1]>>
      /\ \A n \in 1 + 1 .. N : f[n] = Coalesce(f[n - 1], q[n])
  <2>1. /\ f \in [1 .. N -> Pieces] /\ f[1] = <<q[1]>>
        /\ \A n \in 1 + 1 .. N : f[n] = step[n][f[n - 1]]
    BY <1>3 DEF Loops
  <2>2. ASSUME NEW n \in 1 + 1 .. N PROVE f[n] = Coalesce(f[n - 1], q[n])
    <3>1. f[n - 1] \in Pieces
      BY <2>1
    <3> QED BY <2>1, <3>1
  <2> HIDE DEF step
  <2> QED BY <2>1, <2>2
<1>5. f = body(f)
  <2>1. ASSUME NEW n \in 1 .. N PROVE f[n] = body(f)[n]
    <3>1. n = 1 \/ (n # 1 /\ n \in 1 + 1 .. N)
      OBVIOUS
    <3> QED BY <1>4, <3>1
  <2>2. f = [n \in 1 .. N |-> f[n]]
    BY <1>4
  <2>3. body(f) = [n \in 1 .. N |-> body(f)[n]]
    OBVIOUS
  <2> HIDE DEF body
  <2> QED BY <2>1, <2>2, <2>3
<1>6. g = body(g)
  <2>1. g = CHOOSE h : h = body(h)
    BY DEF Merging
  <2> HIDE DEF body, g
  <2> QED BY <1>5, <2>1
<1> HIDE DEF g
<1>7. g[1] = <<q[1]>>
  <2>1. body(g)[1] = <<q[1]>>
    OBVIOUS
  <2> HIDE DEF body
  <2> QED BY <1>6, <2>1
<1>8. ASSUME NEW n \in 1 + 1 .. N PROVE g[n] = Coalesce(g[n - 1], q[n])
  <2>1. body(g)[n] = Coalesce(g[n - 1], q[n])
    OBVIOUS
  <2> HIDE DEF body
  <2> QED BY <1>6, <2>1
<1>9. \A n \in 1 + 1 .. N : g[n - 1] \in Pieces => g[n] = step[n][g[n - 1]]
  BY <1>8
<1>10. \A n \in 1 .. N : g[n] = f[n]
  <2> HIDE DEF body, step
  <2> QED BY <1>3, <1>7, <1>9, LoopIsUnique
<1> HIDE DEF body, step
<1>11. \A n \in 1 .. N : g[n] \in Pieces
  BY <1>4, <1>10
<1>12. MergeTurns(g, q, N)
  BY <1>7, <1>8, <1>11 DEF MergeTurns
<1> QED BY <1>12 DEF g

\* One more element.
LEMMA UpToFacts ==
  ASSUME NEW q, NEW n \in Nat
  PROVE  UpTo(q, n + 1) = UpTo(q, n) \cup {q[n + 1]} /\ UpTo(q, 1) = {q[1]}
<1>1. \A k \in 1 .. n + 1 : k \in 1 .. n \/ k = n + 1
  OBVIOUS
<1>2. n + 1 \in 1 .. n + 1 /\ \A k \in 1 .. n : k \in 1 .. n + 1
  OBVIOUS
<1>3. UpTo(q, 1) = {q[1]}
  BY DEF UpTo
<1> QED BY <1>1, <1>2, <1>3 DEF UpTo

\* After n turns the first n spans are merged.
LEMMA MergeLoop ==
  ASSUME ScannedBytes \in Nat, NEW q, NEW N \in Nat, N >= 1, \A n \in 1 .. N : q[n] \in SpanSet,
         \A m, n \in 1 .. N : m < n => q[m].from <= q[n].from,
         NEW g, MergeTurns(g, q, N)
  PROVE  Merged(g[N], UpTo(q, N))
<1> DEFINE S == {n \in 1 .. N : Merged(g[n], UpTo(q, n))}
<1>1. 1 \in S
  <2>1. NonEmpty(q[1])
    <3>1. q[1] \in SpanSet
      OBVIOUS
    <3> QED BY <3>1, SpanFacts
  <2>2. Len(g[1]) = 1 /\ g[1][1] = q[1]
    BY DEF MergeTurns
  <2>3. Merged(g[1], {q[1]})
    BY <2>1, <2>2, FirstMerged
  <2>4. UpTo(q, 1) = {q[1]}
    BY UpToFacts
  <2>5. Merged(g[1], UpTo(q, 1))
    BY <2>3, <2>4
  <2> QED BY <2>5
<1>2. ASSUME NEW n \in 1 .. N - 1, n \in S PROVE n + 1 \in S
  <2> DEFINE T == UpTo(q, n)
             t == q[n + 1]
  <2>1. n + 1 \in 1 .. N /\ n + 1 \in 1 + 1 .. N /\ (n + 1) - 1 = n /\ n \in 1 .. N /\ n \in Nat
    OBVIOUS
  <2>2. Merged(g[n], T) /\ g[n] \in Pieces /\ t \in SpanSet /\ NonEmpty(t)
    <3>1. t \in SpanSet
      BY <2>1
    <3> HIDE DEF t
    <3> QED BY <1>2, <2>1, <3>1, SpanFacts DEF MergeTurns
  <2>3. ASSUME NEW s \in T PROVE NonEmpty(s) /\ s.from <= t.from
    <3>1. PICK k \in 1 .. n : s = q[k]
      BY <2>3 DEF UpTo
    <3>2. k \in 1 .. N /\ k < n + 1
      BY <2>1
    <3>3. q[k].from <= q[n + 1].from
      BY <2>1, <3>2
    <3>4. q[k] \in SpanSet
      BY <3>2
    <3> QED BY <3>1, <3>3, <3>4, SpanFacts
  <2>4. g[n + 1] = Coalesce(g[n], t)
    BY <2>1 DEF MergeTurns
  <2>5. UpTo(q, n + 1) = T \cup {t}
    BY <2>1, UpToFacts
  <2> HIDE DEF T, t
  <2>6. Extends(g[n], t, g[n + 1]) \/ Follows(g[n], t, g[n + 1])
    BY <2>2, <2>4, CoalesceFacts
  <2>7. Merged(g[n + 1], T \cup {t})
    BY <2>2, <2>3, <2>6, ExtendsMerged, FollowsMerged
  <2> QED BY <2>1, <2>5, <2>7
<1> HIDE DEF S
<1>3. \A n \in 1 .. N : n \in S
  BY <1>1, <1>2, EveryCount
<1>4. N \in S
  BY <1>3
<1> QED BY <1>4 DEF S

\* mergeSpans merges the spans it is given.
LEMMA MergeSpansFacts ==
  ASSUME ScannedBytes \in Nat, NEW S \in SUBSET SpanSet
  PROVE  /\ MergeSpans(S) \in Seq(SpanSet)
         /\ S = {} => MergeSpans(S) = <<>>
         /\ S # {} => MergeSpans(S) # <<>> /\ Merged(MergeSpans(S), S)
<1> DEFINE N == Cardinality(S)
           q == SortedBy(S, Earlier)
<1>1. MergeSpans(S) = IF S = {} THEN <<>> ELSE Merging(q, N)[N]
  BY DEF MergeSpans, Merging
<1>2. \A n \in 1 .. N : q[n] = CHOOSE s \in S : Cardinality({t \in S : Earlier(t, s)}) = n - 1
  BY DEF SortedBy
<1> HIDE DEF q
<1>3. /\ N \in Nat /\ (N = 0 <=> S = {})
      /\ \A n \in 1 .. N : q[n] \in S
      /\ \A s \in S : \E n \in 1 .. N : q[n] = s
      /\ \A m, n \in 1 .. N : m < n => q[m].from <= q[n].from
  BY <1>2, SortedSpans
<1>4. CASE S = {}
  <2>1. <<>> \in Seq(SpanSet)
    OBVIOUS
  <2> QED BY <1>1, <1>4, <2>1
<1>5. CASE S # {}
  <2> DEFINE g == Merging(q, N)
  <2> HIDE DEF N, g
  <2>1. UpTo(q, N) = S
    BY <1>3 DEF UpTo
  <2>2. N >= 1
    BY <1>3, <1>5
  <2>3. \A n \in 1 .. N : q[n] \in SpanSet
    BY <1>3
  <2>4. MergeTurns(g, q, N)
    BY <1>3, <2>2, <2>3, MergingTurns DEF g
  <2>5. Merged(g[N], S)
    BY <1>3, <2>1, <2>2, <2>3, <2>4, MergeLoop
  <2>6. g[N] \in Pieces
    BY <1>3, <2>2, <2>4 DEF MergeTurns
  <2>7. MergeSpans(S) = g[N]
    BY <1>1, <1>5 DEF g
  <2> QED BY <1>5, <2>5, <2>6, <2>7 DEF Pieces
<1> QED BY <1>4, <1>5

-----------------------------------------------------------------------------
(* locateAll.                                                              *)

\* Scan sees the text's first bytes.
LEMMA DataFacts ==
  ASSUME text \in Seq(Bytes)
  PROVE  /\ Size \in Nat /\ ScannedBytes \in Nat /\ ScannedBytes <= Size
         /\ Data \in Seq(Bytes) /\ Len(Data) = ScannedBytes
         /\ \A k \in 1 .. ScannedBytes : Data[k] = text[k]
<1>1. Len(text) \in Nat /\ MaxBytes \in Nat /\ MaxBytes >= 1
  BY LengthsAssumption
<1>2. CASE Len(text) > MaxBytes
  <2>1. Data = SubSeq(text, 1, MaxBytes)
    BY <1>2 DEF Data
  <2>2. \A k \in 1 .. MaxBytes : text[k] \in Bytes
    BY <1>1, <1>2
  <2>3. /\ SubSeq(text, 1, MaxBytes) \in Seq(Bytes) /\ Len(SubSeq(text, 1, MaxBytes)) = MaxBytes
        /\ \A k \in 1 .. MaxBytes : SubSeq(text, 1, MaxBytes)[k] = text[k]
    BY <1>1, <1>2, <2>2
  <2>4. Data \in Seq(Bytes) /\ Len(Data) = MaxBytes /\ \A k \in 1 .. MaxBytes : Data[k] = text[k]
    BY <2>1, <2>3
  <2> QED BY <1>1, <1>2, <2>4 DEF Size, ScannedBytes
<1>3. CASE ~(Len(text) > MaxBytes)
  <2>1. Data = text
    BY <1>3 DEF Data
  <2> QED BY <1>1, <2>1 DEF Size, ScannedBytes
<1> QED BY <1>2, <1>3

\* Where v is searched for and where it is found.
LEMMA StartsFacts ==
  ASSUME text \in Seq(Bytes), NEW v \in Seq(Bytes), Len(v) >= 1, NEW a \in 0 .. ScannedBytes
  PROVE  /\ ScannedBytes \in Nat /\ Starts(v, a) \in SUBSET Nat
         /\ \A s \in Starts(v, a) : s \in a .. ScannedBytes /\ s + Len(v) <= ScannedBytes /\ s \in Starts(v, 0)
         /\ \A s \in Starts(v, 0) : s >= a => s \in Starts(v, a)
<1>1. ScannedBytes \in Nat /\ Len(v) \in Nat
  BY DataFacts
<1>2. Starts(v, a) \in SUBSET Nat
  BY <1>1 DEF Starts
<1>3. ASSUME NEW s \in Starts(v, a) PROVE s \in a .. ScannedBytes /\ s + Len(v) <= ScannedBytes /\ s \in Starts(v, 0)
  BY <1>1, <1>3 DEF Starts, OccursAt, ScannedBytes
<1>4. ASSUME NEW s \in Starts(v, 0), s >= a PROVE s \in Starts(v, a)
  BY <1>1, <1>4 DEF Starts
<1> QED BY <1>1, <1>2, <1>3, <1>4

\* The span of a match.
LEMMA MatchFacts ==
  ASSUME text \in Seq(Bytes), NEW v \in Seq(Bytes), Len(v) >= 1, NEW a \in 0 .. ScannedBytes,
         Starts(v, a) # {}, NEW s, s = SpanAt(First(Starts(v, a)), v)
  PROVE  /\ s \in SpanSet /\ s.from = First(Starts(v, a)) /\ s.from \in Starts(v, a)
         /\ s.from >= a /\ s.to = s.from + Len(v)
         /\ \A u \in Starts(v, a) : s.from <= u
<1>1. /\ First(Starts(v, a)) \in Starts(v, a)
      /\ \A u \in Starts(v, a) : First(Starts(v, a)) <= u
  BY StartsFacts, FirstFacts
<1> DEFINE f == First(Starts(v, a))
<1>2. ScannedBytes \in Nat /\ f \in a .. ScannedBytes /\ f + Len(v) <= ScannedBytes /\ Len(v) \in Nat
  BY <1>1, StartsFacts
<1> HIDE DEF f
<1>3. s.from = f /\ s.to = f + Len(v)
  BY DEF SpanAt, f
<1>4. f \in 0 .. ScannedBytes /\ f + Len(v) \in 0 .. ScannedBytes /\ f < f + Len(v)
  BY <1>2
<1>5. s \in SpanSet
  BY <1>2, <1>4, SpanFacts DEF SpanAt, f
<1>6. s.from >= a
  BY <1>2, <1>3
<1> QED BY <1>1, <1>3, <1>5, <1>6 DEF f

\* The matches m follow each other, and no occurrence before the end of the last
\* lies outside them.
Matches(v, m) ==
    /\ m \in Seq(SpanSet)
    /\ \A k \in 1 .. Len(m) :
          /\ CursorAt(m, k) \in 0 .. ScannedBytes /\ Starts(v, CursorAt(m, k)) # {}
          /\ m[k] = SpanAt(First(Starts(v, CursorAt(m, k))), v)
    /\ \A s \in Starts(v, 0) :
          s < SearchFrom(m) => \E k \in 1 .. Len(m) : m[k].from <= s /\ s < m[k].to

\* Where the next search begins.
LEMMA SearchFromFacts ==
  ASSUME text \in Seq(Bytes), NEW m \in Seq(SpanSet)
  PROVE  /\ SearchFrom(m) \in 0 .. ScannedBytes /\ ScannedBytes \in Nat
         /\ SearchFrom(m) = CursorAt(m, Len(m) + 1)
         /\ \A k \in 1 .. Len(m) + 1 : CursorAt(m, k) \in 0 .. ScannedBytes
<1>1. ScannedBytes \in Nat /\ Len(m) \in Nat
  BY DataFacts
<1>2. ASSUME NEW k \in 1 .. Len(m) + 1 PROVE CursorAt(m, k) \in 0 .. ScannedBytes
  <2>1. CASE k = 1
    BY <1>1, <2>1 DEF CursorAt
  <2>2. CASE k # 1
    <3>1. k - 1 \in 1 .. Len(m)
      BY <1>1, <2>2
    <3>2. m[k - 1] \in SpanSet
      BY <3>1
    <3>3. CursorAt(m, k) = m[k - 1].to
      BY <2>2 DEF CursorAt
    <3> QED BY <1>1, <3>2, <3>3, SpanFacts
  <2> QED BY <2>1, <2>2
<1>3. SearchFrom(m) = CursorAt(m, Len(m) + 1)
  <2>1. CASE m = <<>>
    BY <2>1 DEF CursorAt, SearchFrom
  <2>2. CASE m # <<>>
    <3>1. Len(m) + 1 # 1 /\ (Len(m) + 1) - 1 = Len(m)
      BY <1>1, <2>2
    <3> QED BY <2>2, <3>1 DEF CursorAt, SearchFrom
  <2> QED BY <2>1, <2>2
<1>4. Len(m) + 1 \in 1 .. Len(m) + 1
  BY <1>1
<1> QED BY <1>1, <1>2, <1>3, <1>4

\* A turn that finds a match.
LEMMA MatchAppended ==
  ASSUME text \in Seq(Bytes), NEW v \in Seq(Bytes), Len(v) >= 1, NEW m, Matches(v, m),
         Starts(v, SearchFrom(m)) # {},
         NEW s, s = SpanAt(First(Starts(v, SearchFrom(m))), v),
         NEW n, n = Append(m, s)
  PROVE  Matches(v, n) /\ SearchFrom(n) > SearchFrom(m)
<1> DEFINE a == SearchFrom(m)
           L == Len(m)
<1>1. /\ m \in Seq(SpanSet) /\ L \in Nat /\ a \in 0 .. ScannedBytes /\ ScannedBytes \in Nat
      /\ a = CursorAt(m, L + 1)
  BY SearchFromFacts DEF Matches
<1>2. /\ s \in SpanSet /\ s.from \in Starts(v, a) /\ s.from >= a /\ s.to = s.from + Len(v)
      /\ \A u \in Starts(v, a) : s.from <= u
  BY <1>1, MatchFacts
<1>3. /\ n \in Seq(SpanSet) /\ Len(n) = L + 1 /\ n # <<>>
      /\ n[L + 1] = s /\ \A k \in 1 .. L : n[k] = m[k]
  BY <1>1, <1>2
<1>4. \A k \in 1 .. L + 1 : CursorAt(n, k) = CursorAt(m, k)
  <2> TAKE k \in 1 .. L + 1
  <2>1. CASE k = 1
    BY <2>1 DEF CursorAt
  <2>2. CASE k # 1
    <3>1. k - 1 \in 1 .. L
      BY <1>1, <2>2
    <3> QED BY <1>3, <2>2, <3>1 DEF CursorAt
  <2> QED BY <2>1, <2>2
<1>5. SearchFrom(n) = s.to
  BY <1>3 DEF SearchFrom
<1>6. s.to > a
  BY <1>1, <1>2, SpanFacts DEF NonEmpty
<1>7. ASSUME NEW k \in 1 .. L + 1
      PROVE  /\ CursorAt(n, k) \in 0 .. ScannedBytes /\ Starts(v, CursorAt(n, k)) # {}
             /\ n[k] = SpanAt(First(Starts(v, CursorAt(n, k))), v)
  <2>1. CASE k = L + 1
    <3>1. CursorAt(n, k) = a
      BY <1>1, <1>4, <2>1
    <3> QED BY <1>1, <1>3, <2>1, <3>1
  <2>2. CASE k \in 1 .. L
    <3>1. CursorAt(n, k) = CursorAt(m, k) /\ n[k] = m[k]
      BY <1>3, <1>4, <2>2
    <3> QED BY <2>2, <3>1 DEF Matches
  <2> QED BY <1>1, <2>1, <2>2
<1>8. ASSUME NEW u \in Starts(v, 0), u < s.to
      PROVE  \E k \in 1 .. L + 1 : n[k].from <= u /\ u < n[k].to
  <2>1. CASE u < a
    <3>1. PICK k \in 1 .. L : m[k].from <= u /\ u < m[k].to
      BY <2>1 DEF Matches
    <3>2. n[k] = m[k] /\ k \in 1 .. L + 1
      BY <1>1, <1>3
    <3> QED BY <3>1, <3>2
  <2>2. CASE ~(u < a)
    <3>1. u \in Starts(v, a)
      <4>1. 0 \in 0 .. ScannedBytes
        BY <1>1
      <4>2. u \in Nat
        BY <4>1, StartsFacts
      <4>3. u >= a
        BY <1>1, <2>2, <4>2
      <4> HIDE DEF a
      <4> QED BY <1>1, <4>3, StartsFacts
    <3>2. s.from <= u /\ L + 1 \in 1 .. L + 1
      BY <1>1, <1>2, <3>1
    <3> QED BY <1>3, <1>8, <3>2
  <2> QED BY <2>1, <2>2
<1> HIDE DEF L, a
<1>9. Matches(v, n)
  BY <1>3, <1>5, <1>7, <1>8 DEF Matches
<1> QED BY <1>5, <1>6, <1>9 DEF a

\* A turn of the loop keeps a sequence of spans one.
LEMMA SearchType ==
  ASSUME text \in Seq(Bytes), NEW v \in Seq(Bytes), Len(v) >= 1, NEW m \in Seq(SpanSet)
  PROVE  Search(v, m) \in Seq(SpanSet)
<1> DEFINE s == SpanAt(First(Starts(v, SearchFrom(m))), v)
<1>1. CASE Starts(v, SearchFrom(m)) = {}
  BY <1>1 DEF Search
<1>2. CASE Starts(v, SearchFrom(m)) # {}
  <2>1. s \in SpanSet
    BY <1>2, SearchFromFacts, MatchFacts
  <2>2. Search(v, m) = Append(m, s)
    BY <1>2 DEF Search
  <2> HIDE DEF s
  <2> QED BY <2>1, <2>2
<1> QED BY <1>1, <1>2

\* The loop of locateAll.
Searching(v) ==
    CHOOSE h : h = [n \in 0 .. ScannedBytes |-> IF n = 0 THEN <<>> ELSE Search(v, h[n - 1])]

\* The loop makes its turns.
LEMMA SearchingTurns ==
  ASSUME text \in Seq(Bytes), NEW v \in Seq(Bytes), Len(v) >= 1
  PROVE  /\ Searching(v)[0] = <<>>
         /\ \A n \in 0 + 1 .. ScannedBytes : Searching(v)[n] = Search(v, Searching(v)[n - 1])
<1> DEFINE V == Seq(SpanSet)
           body(h) == [n \in 0 .. ScannedBytes |-> IF n = 0 THEN <<>> ELSE Search(v, h[n - 1])]
           step == [n \in 0 + 1 .. ScannedBytes |-> [m \in V |-> Search(v, m)]]
           g == Searching(v)
<1>0. ScannedBytes \in Nat /\ 0 <= ScannedBytes
  BY DataFacts
<1>1. <<>> \in V
  OBVIOUS
<1>2. step \in [0 + 1 .. ScannedBytes -> [V -> V]]
  <2>1. ASSUME NEW m \in V PROVE Search(v, m) \in V
    BY SearchType
  <2> HIDE DEF V
  <2> QED BY <2>1
<1>3. PICK f : Loops(f, 0, ScannedBytes, V, <<>>, step)
  <2> HIDE DEF step, V
  <2> QED BY <1>0, <1>1, <1>2, LoopExists
<1>4. /\ f \in [0 .. ScannedBytes -> V] /\ f[0] = <<>>
      /\ \A n \in 0 + 1 .. ScannedBytes : f[n] = Search(v, f[n - 1])
  <2> HIDE DEF V
  <2>1. /\ f \in [0 .. ScannedBytes -> V] /\ f[0] = <<>>
        /\ \A n \in 0 + 1 .. ScannedBytes : f[n] = step[n][f[n - 1]]
    BY <1>3 DEF Loops
  <2>2. ASSUME NEW n \in 0 + 1 .. ScannedBytes PROVE f[n] = Search(v, f[n - 1])
    <3>1. f[n - 1] \in V
      BY <1>0, <2>1
    <3> QED BY <2>1, <3>1
  <2> HIDE DEF step
  <2> QED BY <2>1, <2>2
<1> HIDE DEF V, step
<1>5. f = body(f)
  <2>1. ASSUME NEW n \in 0 .. ScannedBytes PROVE f[n] = body(f)[n]
    <3>1. n = 0 \/ (n # 0 /\ n \in 0 + 1 .. ScannedBytes)
      BY <1>0
    <3> QED BY <1>4, <3>1
  <2>2. f = [n \in 0 .. ScannedBytes |-> f[n]]
    BY <1>4
  <2>3. body(f) = [n \in 0 .. ScannedBytes |-> body(f)[n]]
    OBVIOUS
  <2> HIDE DEF body
  <2> QED BY <2>1, <2>2, <2>3
<1>6. g = body(g)
  <2>1. g = CHOOSE h : h = body(h)
    BY DEF Searching
  <2> HIDE DEF body, g
  <2> QED BY <1>5, <2>1
<1> HIDE DEF g
<1>7. g[0] = <<>>
  <2>1. body(g)[0] = <<>>
    BY <1>0
  <2> HIDE DEF body
  <2> QED BY <1>6, <2>1
<1>8. ASSUME NEW n \in 0 + 1 .. ScannedBytes PROVE g[n] = Search(v, g[n - 1])
  <2>1. body(g)[n] = Search(v, g[n - 1])
    BY <1>0
  <2> HIDE DEF body
  <2> QED BY <1>6, <2>1
<1> QED BY <1>7, <1>8 DEF g

\* Where locateAll finds v: matches that follow each other, until there is none.
AllMatches(v, m) == Matches(v, m) /\ Starts(v, SearchFrom(m)) = {}

\* locateAll finds every match.
LEMMA LocateAllFacts ==
  ASSUME text \in Seq(Bytes), NEW v \in Seq(Bytes), Len(v) >= 1
  PROVE  AllMatches(v, LocateAll(v))
<1> DEFINE g == Searching(v)
           done(n) == Starts(v, SearchFrom(g[n])) = {} \/ SearchFrom(g[n]) >= n
           S == {n \in 0 .. ScannedBytes : Matches(v, g[n]) /\ done(n)}
<1>0. ScannedBytes \in Nat
  BY DataFacts
<1>1. LocateAll(v) = g[ScannedBytes]
  BY DEF LocateAll, Searching
<1>2. /\ g[0] = <<>>
      /\ \A n \in 0 + 1 .. ScannedBytes : g[n] = Search(v, g[n - 1])
  BY SearchingTurns
<1> HIDE DEF g
<1>3. 0 \in S
  <2>1. SearchFrom(<<>>) = 0 /\ <<>> \in Seq(SpanSet) /\ Len(<<>>) = 0
    BY DEF SearchFrom
  <2>2. \A s \in Starts(v, 0) : ~(s < 0)
    BY <1>0 DEF Starts
  <2>3. Matches(v, <<>>)
    BY <2>1, <2>2 DEF Matches
  <2>4. Matches(v, g[0]) /\ done(0)
    BY <1>2, <2>1, <2>3
  <2>5. 0 \in 0 .. ScannedBytes
    BY <1>0
  <2> HIDE DEF done
  <2> QED BY <2>4, <2>5
<1>4. ASSUME NEW n \in 0 .. ScannedBytes - 1, n \in S PROVE n + 1 \in S
  <2>1. n + 1 \in 0 .. ScannedBytes /\ n + 1 \in 0 + 1 .. ScannedBytes /\ (n + 1) - 1 = n /\ n \in Nat
    BY <1>0
  <2>2. g[n + 1] = Search(v, g[n])
    BY <1>2, <2>1
  <2>3. Matches(v, g[n]) /\ done(n)
    BY <1>4
  <2>4. CASE Starts(v, SearchFrom(g[n])) = {}
    <3>1. g[n + 1] = g[n]
      BY <2>2, <2>4 DEF Search
    <3>2. Matches(v, g[n + 1]) /\ done(n + 1)
      BY <2>3, <2>4, <3>1
    <3> HIDE DEF done
    <3> QED BY <2>1, <3>2
  <2>5. CASE Starts(v, SearchFrom(g[n])) # {}
    <3> DEFINE s == SpanAt(First(Starts(v, SearchFrom(g[n]))), v)
    <3>1. g[n + 1] = Append(g[n], s)
      BY <2>2, <2>5 DEF Search
    <3>2. Matches(v, g[n + 1]) /\ SearchFrom(g[n + 1]) > SearchFrom(g[n])
      <4>1. s = SpanAt(First(Starts(v, SearchFrom(g[n]))), v)
        OBVIOUS
      <4> HIDE DEF s
      <4> QED BY <2>3, <2>5, <3>1, <4>1, MatchAppended
    <3>3. SearchFrom(g[n]) >= n
      BY <2>3, <2>5
    <3>4. SearchFrom(g[n]) \in Int /\ SearchFrom(g[n + 1]) \in Int
      <4>1. g[n] \in Seq(SpanSet) /\ g[n + 1] \in Seq(SpanSet)
        BY <2>3, <3>2 DEF Matches
      <4>2. SearchFrom(g[n]) \in 0 .. ScannedBytes /\ SearchFrom(g[n + 1]) \in 0 .. ScannedBytes
        BY <4>1, SearchFromFacts
      <4> QED BY <1>0, <4>2
    <3>5. SearchFrom(g[n + 1]) >= n + 1
      BY <2>1, <3>2, <3>3, <3>4
    <3>6. Matches(v, g[n + 1]) /\ done(n + 1)
      BY <3>2, <3>5
    <3> HIDE DEF done
    <3> QED BY <2>1, <3>6
  <2> QED BY <2>4, <2>5
<1> HIDE DEF S
<1>5. \A n \in 0 .. ScannedBytes : n \in S
  BY <1>0, <1>3, <1>4, EveryCount
<1>6. Matches(v, g[ScannedBytes]) /\ done(ScannedBytes)
  <2>1. ScannedBytes \in 0 .. ScannedBytes
    BY <1>0
  <2>2. ScannedBytes \in S
    BY <1>5, <2>1
  <2> QED BY <2>2 DEF S
<1>7. Starts(v, SearchFrom(g[ScannedBytes])) = {}
  <2> DEFINE a == SearchFrom(g[ScannedBytes])
  <2>1. SUFFICES ASSUME Starts(v, a) # {} PROVE FALSE
    OBVIOUS
  <2>2. a \in 0 .. ScannedBytes
    BY <1>6, SearchFromFacts DEF Matches
  <2>3. a = ScannedBytes
    BY <1>0, <1>6, <2>1, <2>2
  <2> HIDE DEF a
  <2>4. PICK s \in Starts(v, a) : TRUE
    BY <2>1
  <2>5. s \in a .. ScannedBytes /\ s + Len(v) <= ScannedBytes /\ Len(v) \in Nat
    BY <2>2, <2>4, StartsFacts
  <2> QED BY <1>0, <2>3, <2>5
<1> QED BY <1>1, <1>6, <1>7 DEF AllMatches

\* Every occurrence begins in a match.
LEMMA OccurrencesLocated ==
  ASSUME text \in Seq(Bytes), NEW v \in Seq(Bytes), Len(v) >= 1, NEW s \in Starts(v, 0)
  PROVE  \E t \in ToSet(LocateAll(v)) : t \in SpanSet /\ t.from <= s /\ s < t.to
<1> DEFINE m == LocateAll(v)
<1>1. Matches(v, m) /\ Starts(v, SearchFrom(m)) = {}
  BY LocateAllFacts DEF AllMatches
<1> HIDE DEF m
<1>2. m \in Seq(SpanSet) /\ SearchFrom(m) \in 0 .. ScannedBytes /\ ScannedBytes \in Nat
  BY <1>1, SearchFromFacts DEF Matches
<1>3. 0 \in 0 .. ScannedBytes
  BY <1>2
<1>4. s \in Nat
  BY <1>3, StartsFacts
<1>5. s < SearchFrom(m)
  <2>1. SUFFICES ASSUME s >= SearchFrom(m) PROVE FALSE
    BY <1>2, <1>4
  <2>2. s \in Starts(v, SearchFrom(m))
    BY <1>2, <2>1, StartsFacts
  <2> QED BY <1>1, <2>2
<1>6. PICK k \in 1 .. Len(m) : m[k].from <= s /\ s < m[k].to
  BY <1>1, <1>5 DEF Matches
<1>7. m[k] \in ToSet(m) /\ m[k] \in SpanSet
  BY <1>2 DEF ToSet
<1> QED BY <1>6, <1>7 DEF m

-----------------------------------------------------------------------------
(* The candidate fragments of a result.                                    *)

\* Where the elements of a concatenation are.
LEMMA ConcatFacts ==
  ASSUME NEW S, NEW s \in Seq(S), NEW t \in Seq(S)
  PROVE  /\ s \o t \in Seq(S) /\ Len(s \o t) = Len(s) + Len(t)
         /\ Len(s) \in Nat /\ Len(t) \in Nat
         /\ \A k \in 1 .. Len(s) : (s \o t)[k] = s[k]
         /\ \A k \in Len(s) + 1 .. Len(s) + Len(t) : (s \o t)[k] = t[k - Len(s)]
OBVIOUS

\* The loop that joins parts.
Joining(parts) ==
    CHOOSE h : h = [n \in 1 .. Len(parts) |->
                      IF n = 1 THEN parts[1] ELSE h[n - 1] \o <<Colon>> \o parts[n]]

\* Joined parts are bytes.
LEMMA JoinedType ==
  ASSUME NEW parts \in Seq(Seq(Bytes))
  PROVE  Joined(parts) \in Seq(Bytes)
<1> DEFINE N == Len(parts)
           V == Seq(Bytes)
           body(h) == [n \in 1 .. N |-> IF n = 1 THEN parts[1] ELSE h[n - 1] \o <<Colon>> \o parts[n]]
           step == [n \in 1 + 1 .. N |-> [m \in V |-> m \o <<Colon>> \o parts[n]]]
           g == Joining(parts)
<1>1. CASE parts = <<>>
  <2>1. Joined(parts) = <<>>
    BY <1>1 DEF Joined
  <2> QED BY <2>1
<1>2. CASE parts # <<>>
  <2>1. N \in Nat /\ 1 <= N /\ \A n \in 1 .. N : parts[n] \in Seq(Bytes)
    BY <1>2
  <2>2. Joined(parts) = g[N]
    BY <1>2 DEF Joined, Joining
  <2> HIDE DEF N
  <2>3. parts[1] \in V
    BY <2>1
  <2>4. step \in [1 + 1 .. N -> [V -> V]]
    <3>1. ASSUME NEW n \in 1 + 1 .. N, NEW m \in V PROVE m \o <<Colon>> \o parts[n] \in V
      <4>1. <<Colon>> \in Seq(Bytes) /\ parts[n] \in Seq(Bytes)
        BY <2>1, InputsAssumption
      <4>2. m \o <<Colon>> \in Seq(Bytes)
        BY <4>1
      <4> QED BY <4>1, <4>2
    <3> HIDE DEF V
    <3> QED BY <3>1
  <2>5. PICK f : Loops(f, 1, N, V, parts[1], step)
    <3> HIDE DEF step, V
    <3> QED BY <2>1, <2>3, <2>4, LoopExists
  <2> HIDE DEF V
  <2>6. /\ f \in [1 .. N -> V] /\ f[1] = parts[1]
        /\ \A n \in 1 + 1 .. N : f[n] = f[n - 1] \o <<Colon>> \o parts[n]
    <3>1. /\ f \in [1 .. N -> V] /\ f[1] = parts[1]
          /\ \A n \in 1 + 1 .. N : f[n] = step[n][f[n - 1]]
      BY <2>5 DEF Loops
    <3>2. ASSUME NEW n \in 1 + 1 .. N PROVE f[n] = f[n - 1] \o <<Colon>> \o parts[n]
      <4>1. f[n - 1] \in V
        BY <2>1, <3>1
      <4> QED BY <3>1, <4>1
    <3> HIDE DEF step
    <3> QED BY <3>1, <3>2
  <2>7. f = body(f)
    <3>1. ASSUME NEW n \in 1 .. N PROVE f[n] = body(f)[n]
      <4>1. n = 1 \/ (n # 1 /\ n \in 1 + 1 .. N)
        BY <2>1
      <4> QED BY <2>6, <4>1
    <3>2. f = [n \in 1 .. N |-> f[n]]
      BY <2>6
    <3>3. body(f) = [n \in 1 .. N |-> body(f)[n]]
      OBVIOUS
    <3> HIDE DEF body
    <3> QED BY <3>1, <3>2, <3>3
  <2>8. g = body(g)
    <3>1. g = CHOOSE h : h = body(h)
      BY DEF Joining, N
    <3> HIDE DEF body, g
    <3> QED BY <2>7, <3>1
  <2> HIDE DEF g
  <2>9. g[1] = parts[1]
    <3>1. 1 \in 1 .. N
      BY <2>1
    <3>2. body(g)[1] = parts[1]
      BY <3>1
    <3> HIDE DEF body
    <3> QED BY <2>8, <3>2
  <2>10. ASSUME NEW n \in 1 + 1 .. N, g[n - 1] \in V PROVE g[n] = step[n][g[n - 1]]
    <3>1. n \in 1 .. N /\ n # 1
      BY <2>1
    <3>2. body(g)[n] = g[n - 1] \o <<Colon>> \o parts[n]
      BY <3>1
    <3>3. step[n][g[n - 1]] = g[n - 1] \o <<Colon>> \o parts[n]
      BY <2>10
    <3> HIDE DEF body, step
    <3> QED BY <2>8, <3>2, <3>3
  <2> HIDE DEF body, step
  <2>11. \A n \in 1 .. N : g[n] = f[n]
    BY <2>1, <2>5, <2>9, <2>10, LoopIsUnique
  <2>12. g[N] \in V
    BY <2>1, <2>6, <2>11
  <2> QED BY <2>2, <2>12 DEF V
<1> QED BY <1>1, <1>2

Candidate == [value : Seq(Bytes), whole : BOOLEAN]

\* Candidates are fragments, and the whole values come before the parts.
LEMMA CandidateFacts ==
  ASSUME NEW res \in Result
  PROVE  /\ Candidates(res) \in Seq(Candidate)
         /\ \A m, k \in 1 .. Len(Candidates(res)) :
               m < k /\ Candidates(res)[k].whole => Candidates(res)[m].whole
<1> DEFINE w == RawV2(res)
           parts == res.parts
           split == [k \in DOMAIN parts |-> [value |-> parts[k], whole |-> FALSE]]
           v2 == IF w # <<>> /\ w # res.raw THEN <<[value |-> w, whole |-> TRUE]>> \o split ELSE <<>>
           front == <<[value |-> res.primary, whole |-> TRUE], [value |-> res.raw, whole |-> TRUE]>>
           c == Candidates(res)
<1>1. /\ res.primary \in Seq(Bytes) /\ res.raw \in Seq(Bytes) /\ parts \in Seq(Seq(Bytes))
      /\ w \in Seq(Bytes)
  <2>1. res.primary \in Seq(Bytes) /\ res.raw \in Seq(Bytes) /\ parts \in Seq(Seq(Bytes))
    BY DEF Result
  <2> QED BY <2>1, JoinedType DEF RawV2
<1>2. c = front \o v2
  BY DEF Candidates
<1>3. front \in Seq(Candidate) /\ Len(front) = 2 /\ front[1].whole /\ front[2].whole
  <2>1. /\ [value |-> res.primary, whole |-> TRUE] \in Candidate
        /\ [value |-> res.raw, whole |-> TRUE] \in Candidate
    BY <1>1 DEF Candidate
  <2> QED BY <2>1
<1>4. split \in Seq(Candidate) /\ Len(split) = Len(parts) /\ \A k \in 1 .. Len(split) : ~split[k].whole
  <2>1. ASSUME NEW k \in 1 .. Len(parts)
        PROVE  [value |-> parts[k], whole |-> FALSE] \in Candidate
    <3>1. parts[k] \in Seq(Bytes)
      BY <1>1
    <3> QED BY <3>1 DEF Candidate
  <2>2. DOMAIN parts = 1 .. Len(parts) /\ Len(parts) \in Nat
    BY <1>1
  <2> HIDE DEF parts
  <2>3. split \in [1 .. Len(parts) -> Candidate]
    BY <2>1, <2>2
  <2>4. \A k \in 1 .. Len(parts) : ~split[k].whole
    BY <2>2
  <2> HIDE DEF split
  <2>5. split \in Seq(Candidate) /\ Len(split) = Len(parts)
    BY <2>2, <2>3
  <2> QED BY <2>4, <2>5
<1> HIDE DEF split, front, c
<1>5. /\ v2 \in Seq(Candidate)
      /\ \A m, k \in 1 .. Len(v2) : m < k /\ v2[k].whole => v2[m].whole
  <2> DEFINE one == <<[value |-> w, whole |-> TRUE]>>
  <2>1. one \in Seq(Candidate) /\ Len(one) = 1 /\ one[1].whole
    <3>1. [value |-> w, whole |-> TRUE] \in Candidate
      BY <1>1 DEF Candidate
    <3> QED BY <3>1
  <2>2. v2 = <<>> \/ v2 = one \o split
    OBVIOUS
  <2> HIDE DEF one, v2
  <2>3. CASE v2 = <<>>
    BY <2>3
  <2>4. CASE v2 = one \o split
    <3>1. /\ v2 \in Seq(Candidate) /\ Len(v2) = 1 + Len(split) /\ v2[1] = one[1]
          /\ \A k \in 2 .. Len(v2) : v2[k] = split[k - 1]
      <4>1. v2 = one \o split /\ Len(one) = 1 /\ one \in Seq(Candidate) /\ split \in Seq(Candidate)
        BY <1>4, <2>1, <2>4
      <4>2. /\ v2 \in Seq(Candidate) /\ Len(v2) = Len(one) + Len(split)
            /\ Len(split) \in Nat
            /\ \A k \in 1 .. Len(one) : v2[k] = one[k]
            /\ \A k \in Len(one) + 1 .. Len(one) + Len(split) : v2[k] = split[k - Len(one)]
        BY <4>1, ConcatFacts
      <4> QED BY <4>1, <4>2
    <3>2. ASSUME NEW k \in 2 .. Len(v2) PROVE ~v2[k].whole
      <4>1. k - 1 \in 1 .. Len(split)
        BY <1>4, <3>1
      <4> QED BY <1>4, <3>1, <4>1
    <3>3. ASSUME NEW m \in 1 .. Len(v2), NEW k \in 1 .. Len(v2), m < k PROVE k \in 2 .. Len(v2)
      BY <3>1, <3>3
    <3> QED BY <3>1, <3>2, <3>3
  <2> QED BY <2>2, <2>3, <2>4
<1> HIDE DEF v2
<1>6. /\ c \in Seq(Candidate) /\ Len(c) = 2 + Len(v2) /\ Len(v2) \in Nat
      /\ c[1] = front[1] /\ c[2] = front[2]
      /\ \A k \in 3 .. Len(c) : c[k] = v2[k - 2]
  <2>1. /\ c \in Seq(Candidate) /\ Len(c) = Len(front) + Len(v2) /\ Len(v2) \in Nat
        /\ \A k \in 1 .. Len(front) : c[k] = front[k]
        /\ \A k \in Len(front) + 1 .. Len(front) + Len(v2) : c[k] = v2[k - Len(front)]
    <3>1. c = front \o v2 /\ front \in Seq(Candidate) /\ v2 \in Seq(Candidate)
      BY <1>2, <1>3, <1>5
    <3> QED BY <3>1, ConcatFacts
  <2> QED BY <1>3, <2>1
<1>7. ASSUME NEW m \in 1 .. Len(c), NEW k \in 1 .. Len(c), m < k, c[k].whole PROVE c[m].whole
  <2>1. CASE m <= 2
    <3>1. m = 1 \/ m = 2
      BY <2>1
    <3> QED BY <1>3, <1>6, <3>1
  <2>2. CASE ~(m <= 2)
    <3>1. m \in 3 .. Len(c) /\ k \in 3 .. Len(c)
      BY <1>6, <1>7, <2>2
    <3>2. m - 2 \in 1 .. Len(v2) /\ k - 2 \in 1 .. Len(v2) /\ m - 2 < k - 2
      BY <1>6, <1>7, <3>1
    <3>3. c[m] = v2[m - 2] /\ c[k] = v2[k - 2]
      BY <1>6, <3>1
    <3> QED BY <1>5, <1>7, <3>2, <3>3
  <2> QED BY <2>1, <2>2
<1> QED BY <1>6, <1>7 DEF c

-----------------------------------------------------------------------------
(* _merge_labelled_spans.                                                  *)

\* A report, as redact gets it.
Report == findings \in Seq(Finding)

Labels == {LabelOf[d] : d \in Detectors}
OwnLabel(s) == Label(findings[s.finding])

\* A span of a report.
LEMMA AllSpansFacts ==
  ASSUME ScannedBytes \in Nat, Report, NEW s \in AllSpans
  PROVE  /\ NonEmpty(s) /\ s.from \in 0 .. ScannedBytes /\ s.to \in 0 .. ScannedBytes
         /\ s.finding \in 1 .. Len(findings) /\ Len(findings) \in Nat
         /\ OwnLabel(s) \in Labels
         /\ \E t \in ToSet(findings[s.finding].spans) : t.from = s.from /\ t.to = s.to
         /\ \A u \in AllSpans : u.from = s.from /\ u.to = s.to /\ u.finding = s.finding => u = s
<1>1. \A u \in AllSpans : \E k \in DOMAIN findings : \E t \in ToSet(findings[k].spans) :
         u = [from |-> t.from, to |-> t.to, finding |-> k]
  BY DEF AllSpans, SpansOf
<1>2. PICK k \in DOMAIN findings : \E t \in ToSet(findings[k].spans) :
         s = [from |-> t.from, to |-> t.to, finding |-> k]
  BY <1>1
<1>3. PICK t \in ToSet(findings[k].spans) : s = [from |-> t.from, to |-> t.to, finding |-> k]
  BY <1>2
<1>4. /\ Len(findings) \in Nat /\ k \in 1 .. Len(findings)
      /\ findings[k].spans \in Seq(SpanSet) /\ findings[k].det \in Detectors
  <2>1. Len(findings) \in Nat /\ k \in 1 .. Len(findings)
    BY DEF Report
  <2>2. findings[k] \in Finding
    BY <2>1 DEF Report
  <2> QED BY <2>1, <2>2 DEF Finding
<1>5. t \in SpanSet
  BY <1>4 DEF ToSet
<1>6. NonEmpty(t) /\ t.from \in 0 .. ScannedBytes /\ t.to \in 0 .. ScannedBytes
  BY <1>5, SpanFacts
<1>7. s.from = t.from /\ s.to = t.to /\ s.finding = k
  BY <1>3
<1>8. NonEmpty(s)
  BY <1>6, <1>7 DEF NonEmpty
<1>9. OwnLabel(s) \in Labels
  BY <1>4, <1>7 DEF OwnLabel, Label, Labels
<1>10. ASSUME NEW u \in AllSpans, u.from = s.from, u.to = s.to, u.finding = s.finding PROVE u = s
  <2>0. PICK l \in DOMAIN findings : \E v \in ToSet(findings[l].spans) :
           u = [from |-> v.from, to |-> v.to, finding |-> l]
    BY <1>1
  <2>1. PICK v \in ToSet(findings[l].spans) : u = [from |-> v.from, to |-> v.to, finding |-> l]
    BY <2>0
  <2>2. u.from = v.from /\ u.to = v.to /\ u.finding = l
    BY <2>1
  <2> QED BY <1>3, <1>7, <1>10, <2>1, <2>2
<1> QED BY <1>4, <1>6, <1>7, <1>8, <1>9, <1>10

\* A report has finitely many spans.
LEMMA AllSpansFinite ==
  ASSUME ScannedBytes \in Nat, Report
  PROVE  IsFiniteSet(AllSpans)
<1> DEFINE A == 0 .. ScannedBytes
           F == 1 .. Len(findings)
           P == A \X (A \X F)
           f == [s \in AllSpans |-> <<s.from, <<s.to, s.finding>>>>]
<1>1. IsFiniteSet(A) /\ IsFiniteSet(F)
  <2>1. Len(findings) \in Int
    BY DEF Report
  <2> QED BY <2>1, FS_Interval
<1>2. IsFiniteSet(P)
  <2> HIDE DEF A, F
  <2>1. IsFiniteSet(A \X F)
    BY <1>1, FS_Product
  <2> QED BY <1>1, <2>1, FS_Product
<1>3. \A s \in AllSpans : s.from \in A /\ s.to \in A /\ s.finding \in F
  BY AllSpansFacts
<1>4. \A s, u \in AllSpans : u.from = s.from /\ u.to = s.to /\ u.finding = s.finding => u = s
  BY AllSpansFacts
<1> HIDE DEF A, F
<1>5. f \in Injection(AllSpans, P)
  <2>1. ASSUME NEW s \in AllSpans PROVE <<s.from, <<s.to, s.finding>>>> \in P
    BY <1>3
  <2>2. ASSUME NEW s \in AllSpans, NEW t \in AllSpans, f[s] = f[t] PROVE s = t
    BY <1>4, <2>2
  <2> HIDE DEF P
  <2>3. f \in [AllSpans -> P]
    BY <2>1
  <2> HIDE DEF f
  <2> QED BY <2>2, <2>3 DEF Injection, IsInjective
<1> HIDE DEF P, f
<1> QED BY <1>2, <1>5, FS_Injection

\* The order of the splice.
SpliceIn == {p \in AllSpans \X AllSpans : SpliceOrder(p[1], p[2])}

\* It is total: spans of one finding differ, and findings are numbered.
LEMMA SpliceOrders ==
  ASSUME ScannedBytes \in Nat, Report
  PROVE  Orders(SpliceIn, AllSpans)
<1>1. \A a, b \in AllSpans : <<a, b>> \in SpliceIn <=> SpliceOrder(a, b)
  BY DEF SpliceIn
<1>2. \A s \in AllSpans : NonEmpty(s) /\ s.finding \in Int
  <2> TAKE s \in AllSpans
  <2>1. NonEmpty(s) /\ s.finding \in 1 .. Len(findings)
    BY AllSpansFacts
  <2> QED BY <2>1
<1>3. \A s \in AllSpans : ~SpliceOrder(s, s)
  BY <1>2 DEF SpliceOrder, NonEmpty
<1>4. ASSUME NEW a \in AllSpans, NEW b \in AllSpans, a # b
      PROVE  SpliceOrder(a, b) \/ SpliceOrder(b, a)
  <2>1. a.from # b.from \/ a.to # b.to \/ a.finding # b.finding
    BY <1>4, AllSpansFacts
  <2> QED BY <1>2, <2>1 DEF SpliceOrder, NonEmpty
<1>5. ASSUME NEW a \in AllSpans, NEW b \in AllSpans, NEW c \in AllSpans,
             SpliceOrder(a, b), SpliceOrder(b, c)
      PROVE  SpliceOrder(a, c)
  BY <1>2, <1>5 DEF SpliceOrder, NonEmpty
<1> QED BY <1>1, <1>3, <1>4, <1>5 DEF Orders

\* The spans of a report in that order.
LEMMA SplicedOrder ==
  ASSUME ScannedBytes \in Nat, Report, NEW q,
         \A n \in 1 .. Cardinality(AllSpans) :
            q[n] = CHOOSE s \in AllSpans : Cardinality({t \in AllSpans : SpliceOrder(t, s)}) = n - 1
  PROVE  /\ Cardinality(AllSpans) \in Nat /\ (Cardinality(AllSpans) = 0 <=> AllSpans = {})
         /\ \A n \in 1 .. Cardinality(AllSpans) : q[n] \in AllSpans
         /\ \A s \in AllSpans : \E n \in 1 .. Cardinality(AllSpans) : q[n] = s
         /\ \A m, n \in 1 .. Cardinality(AllSpans) : m < n => q[m].from <= q[n].from
<1> DEFINE R == SpliceIn
           S == AllSpans
           N == Cardinality(S)
<1>1. IsFiniteSet(S) /\ Orders(R, S)
  BY AllSpansFinite, SpliceOrders
<1>2. \A s \in S : {t \in S : SpliceOrder(t, s)} = Below(R, S, s)
  BY DEF Below, SpliceIn
<1>3. ASSUME NEW n \in 1 .. N, NEW s \in S, Cardinality(Below(R, S, s)) = n - 1
      PROVE  q[n] \in S /\ Cardinality(Below(R, S, q[n])) = n - 1
  <2> DEFINE P(u) == Cardinality({t \in S : SpliceOrder(t, u)}) = n - 1
  <2>1. q[n] = CHOOSE u \in S : P(u)
    OBVIOUS
  <2>2. P(s)
    BY <1>2, <1>3
  <2>3. q[n] \in S /\ P(q[n])
    <3> HIDE DEF P
    <3> QED BY <2>1, <2>2
  <2> QED BY <1>2, <2>3
<1>4. /\ N \in Nat
      /\ \A n \in 1 .. N : q[n] \in S
      /\ \A s \in S : \E n \in 1 .. N : q[n] = s
      /\ \A m, n \in 1 .. N : m < n => <<q[m], q[n]>> \in R
  <2> HIDE DEF R, S
  <2>1. Ranked(q, R, S)
    BY <1>3 DEF Ranked
  <2> QED BY <1>1, <2>1, SortFacts
<1>5. ASSUME NEW m \in 1 .. N, NEW n \in 1 .. N, m < n PROVE q[m].from <= q[n].from
  <2>1. SpliceOrder(q[m], q[n])
    BY <1>4, <1>5 DEF SpliceIn
  <2>2. NonEmpty(q[m]) /\ NonEmpty(q[n])
    BY <1>4, AllSpansFacts
  <2> QED BY <2>1, <2>2 DEF SpliceOrder, NonEmpty
<1> QED BY <1>1, <1>4, <1>5, FS_EmptySet

\* A mask, and the values merged takes.
Mask == [from : 0 .. ScannedBytes, to : 0 .. ScannedBytes, labels : Seq(Labels)]
Masks == {m \in Seq(Mask) : m # <<>>}

\* A mask names the findings whose spans of T it holds, each label once.
Names(p, T) ==
    p.labels # <<>> /\ IsInjective(p.labels) /\ ToSet(p.labels) = {OwnLabel(s) : s \in Within(T, p)}

NamedMasks(m, T) ==
    m \in Masks /\ Merged(m, T) /\ \A k \in 1 .. Len(m) : Names(m[k], T)

\* Appending a new element.
LEMMA AppendElements ==
  ASSUME NEW S, NEW s \in Seq(S), NEW d \in S
  PROVE  /\ Append(s, d) \in Seq(S) /\ Append(s, d) # <<>>
         /\ ToSet(Append(s, d)) = ToSet(s) \cup {d}
         /\ IsInjective(s) /\ d \notin ToSet(s) => IsInjective(Append(s, d))
<1> DEFINE t == Append(s, d)
<1>1. /\ Len(s) \in Nat /\ DOMAIN s = 1 .. Len(s)
      /\ t \in Seq(S) /\ Len(t) = Len(s) + 1 /\ DOMAIN t = 1 .. Len(s) + 1
      /\ t[Len(s) + 1] = d /\ t # <<>>
      /\ \A k \in 1 .. Len(s) : t[k] = s[k]
  OBVIOUS
<1> HIDE DEF t
<1>2. \A k \in 1 .. Len(s) + 1 : k \in 1 .. Len(s) \/ k = Len(s) + 1
  BY <1>1
<1>3. \A k \in 1 .. Len(s) : k \in 1 .. Len(s) + 1
  BY <1>1
<1>4. Len(s) + 1 \in 1 .. Len(s) + 1
  BY <1>1
<1>5. ToSet(t) = ToSet(s) \cup {d}
  <2>1. ASSUME NEW e \in ToSet(t) PROVE e \in ToSet(s) \cup {d}
    BY <1>1, <1>2 DEF ToSet
  <2>2. ASSUME NEW e \in ToSet(s) \cup {d} PROVE e \in ToSet(t)
    BY <1>1, <1>3, <1>4 DEF ToSet
  <2> QED BY <2>1, <2>2
<1>6. ASSUME IsInjective(s), d \notin ToSet(s) PROVE IsInjective(t)
  <2>1. \A k \in 1 .. Len(s) : t[k] # d
    BY <1>1, <1>6 DEF ToSet
  <2> QED BY <1>1, <1>2, <1>6, <2>1 DEF IsInjective
<1> QED BY <1>1, <1>5, <1>6 DEF t

\* A label is added to a mask once.
LEMMA WithLabelFacts ==
  ASSUME NEW s \in Seq(Labels), NEW d \in Labels
  PROVE  /\ WithLabel(s, d) \in Seq(Labels) /\ WithLabel(s, d) # <<>>
         /\ ToSet(WithLabel(s, d)) = ToSet(s) \cup {d}
         /\ IsInjective(s) => IsInjective(WithLabel(s, d))
<1>1. CASE d \in ToSet(s)
  <2>1. s # <<>>
    BY <1>1 DEF ToSet
  <2> QED BY <1>1, <2>1 DEF WithLabel
<1>2. CASE d \notin ToSet(s)
  BY <1>2, AppendElements DEF WithLabel
<1> QED BY <1>1, <1>2

\* The first mask of a span.
LEMMA LabelledFacts ==
  ASSUME ScannedBytes \in Nat, Report, NEW s \in AllSpans, NEW p, p = Labelled(s)
  PROVE  /\ p \in Mask /\ p.from = s.from /\ p.to = s.to
         /\ p.labels # <<>> /\ p.labels[1] = OwnLabel(s) /\ IsInjective(p.labels)
         /\ ToSet(p.labels) = {OwnLabel(s)}
<1> DEFINE l == <<OwnLabel(s)>>
<1>1. s.from \in 0 .. ScannedBytes /\ s.to \in 0 .. ScannedBytes /\ OwnLabel(s) \in Labels
  BY AllSpansFacts
<1>2. l \in Seq(Labels) /\ l # <<>> /\ l[1] = OwnLabel(s) /\ DOMAIN l = 1 .. 1
  BY <1>1
<1>3. p = [from |-> s.from, to |-> s.to, labels |-> l]
  BY DEF Labelled, OwnLabel
<1> HIDE DEF l
<1>4. p \in Mask /\ p.from = s.from /\ p.to = s.to /\ p.labels = l
  BY <1>1, <1>2, <1>3 DEF Mask
<1>5. \A k \in DOMAIN l : k = 1
  BY <1>2
<1>6. 1 \in DOMAIN l
  BY <1>2
<1>7. IsInjective(l) /\ ToSet(l) = {OwnLabel(s)}
  BY <1>2, <1>5, <1>6 DEF IsInjective, ToSet
<1> QED BY <1>2, <1>4, <1>7

\* One turn of its loop.
LEMMA MergeLabelFacts ==
  ASSUME ScannedBytes \in Nat, Report, NEW m \in Masks, NEW s \in AllSpans,
         NEW n, n = MergeLabel(m, Labelled(s))
  PROVE  /\ n \in Masks
         /\ \/ /\ Extends(m, s, n)
               /\ n[Len(m)].labels = WithLabel(m[Len(m)].labels, OwnLabel(s))
            \/ /\ Follows(m, s, n)
               /\ n[Len(m) + 1] = Labelled(s)
<1> DEFINE L == Len(m)
           last == m[L]
           p == Labelled(s)
           x == [from |-> last.from, to |-> ExtendToFarther(last, p),
                 labels |-> WithLabel(last.labels, p.labels[1])]
<1>1. m \in Seq(Mask) /\ L \in Nat /\ L >= 1 /\ L \in 1 .. L /\ DOMAIN m = 1 .. L
  BY DEF Masks
<1>2. last \in Mask
  BY <1>1
<1>3. last.from \in 0 .. ScannedBytes /\ last.to \in 0 .. ScannedBytes /\ last.labels \in Seq(Labels)
  BY <1>2 DEF Mask
<1>4. /\ p \in Mask /\ p.from = s.from /\ p.to = s.to /\ p.labels[1] = OwnLabel(s)
      /\ s.from \in 0 .. ScannedBytes /\ s.to \in 0 .. ScannedBytes /\ OwnLabel(s) \in Labels
  BY LabelledFacts, AllSpansFacts
<1>5. n = IF p.from <= last.to THEN [m EXCEPT ![L] = x] ELSE Append(m, p)
  BY DEF MergeLabel
<1> HIDE DEF p
<1>6. CASE s.from <= last.to
  <2>1. x \in Mask
    <3>1. WithLabel(last.labels, p.labels[1]) \in Seq(Labels)
      BY <1>3, <1>4, WithLabelFacts
    <3>2. ExtendToFarther(last, p) \in 0 .. ScannedBytes
      BY <1>3, <1>4 DEF ExtendToFarther
    <3> QED BY <1>3, <3>1, <3>2 DEF Mask
  <2>2. /\ x.from = last.from /\ x.to = IF s.to > last.to THEN s.to ELSE last.to
        /\ x.labels = WithLabel(last.labels, OwnLabel(s))
    BY <1>4 DEF ExtendToFarther
  <2> HIDE DEF x
  <2>3. n = [m EXCEPT ![L] = x]
    BY <1>4, <1>5, <1>6
  <2>4. n \in Seq(Mask) /\ Len(n) = L /\ n[L] = x
    BY <1>1, <2>1, <2>3
  <2>5. ASSUME NEW k \in 1 .. L, k < L PROVE n[k] = m[k]
    <3>1. k \in DOMAIN m
      BY <1>1
    <3>2. k # L
      <4> HIDE DEF L
      <4> QED BY <1>1, <2>5
    <3> HIDE DEF L
    <3> QED BY <2>3, <3>1, <3>2
  <2>6. n # <<>>
    BY <1>1, <2>4
  <2> HIDE DEF L
  <2>7. Extends(m, s, n)
    BY <1>6, <2>2, <2>4, <2>5 DEF Extends, L
  <2> QED BY <2>2, <2>4, <2>6, <2>7 DEF Masks, L
<1>7. CASE ~(s.from <= last.to)
  <2>1. n = Append(m, p)
    BY <1>4, <1>5, <1>7
  <2>2. /\ n \in Seq(Mask) /\ Len(n) = L + 1 /\ n[L + 1] = p
        /\ \A k \in 1 .. L : n[k] = m[k]
    BY <1>1, <1>4, <2>1
  <2>3. n # <<>> /\ s.from > last.to
    BY <1>1, <1>3, <1>4, <1>7, <2>2
  <2>4. Follows(m, s, n)
    BY <1>4, <2>2, <2>3 DEF Follows
  <2> QED BY <2>2, <2>3, <2>4 DEF Masks, p
<1> QED BY <1>6, <1>7

\* A turn keeps the masks merged and named.
LEMMA MergeLabelStep ==
  ASSUME ScannedBytes \in Nat, Report, NEW T \in SUBSET AllSpans, NEW m, NamedMasks(m, T),
         NEW t \in AllSpans, \A s \in T : s.from <= t.from
  PROVE  NamedMasks(MergeLabel(m, Labelled(t)), T \cup {t})
<1> DEFINE L == Len(m)
           U == T \cup {t}
           n == MergeLabel(m, Labelled(t))
<1>0. m \in Masks /\ Merged(m, T) /\ \A k \in 1 .. Len(m) : Names(m[k], T)
  BY DEF NamedMasks
<1> SUFFICES n \in Masks /\ Merged(n, U) /\ \A k \in 1 .. Len(n) : Names(n[k], U)
  BY DEF NamedMasks
<1>1. NonEmpty(t) /\ \A s \in T : NonEmpty(s) /\ s.from <= t.from
  BY AllSpansFacts
<1>2. m \in Seq(Mask) /\ L \in Nat /\ L \in 1 .. L
  BY <1>0 DEF Masks
<1>3. /\ n \in Masks
      /\ \/ Extends(m, t, n) /\ n[L].labels = WithLabel(m[L].labels, OwnLabel(t))
         \/ Follows(m, t, n) /\ n[L + 1] = Labelled(t)
  BY <1>0, MergeLabelFacts
<1> HIDE DEF L, n
<1>4. CASE Extends(m, t, n) /\ n[L].labels = WithLabel(m[L].labels, OwnLabel(t))
  <2>1. /\ Merged(n, U)
        /\ \A k \in 1 .. L : k < L => Within(U, n[k]) = Within(T, m[k])
        /\ Within(U, n[L]) = Within(T, m[L]) \cup {t}
    <3>1. Extends(m, t, n) /\ NonEmpty(t)
      BY <1>1, <1>4
    <3>2. Merged(n, T \cup {t}) /\ LastHolds(n, T, m, t)
      BY <1>0, <1>1, <3>1, ExtendsMerged
    <3> QED BY <3>2 DEF L, LastHolds
  <2>2. Len(n) = L /\ \A k \in 1 .. L : k < L => n[k] = m[k]
    BY <1>4 DEF Extends, L
  <2>3. ASSUME NEW k \in 1 .. L, k < L PROVE Names(n[k], U)
    <3>1. n[k] = m[k] /\ Within(U, n[k]) = Within(T, m[k])
      BY <2>1, <2>2, <2>3
    <3>2. Names(m[k], T)
      BY <1>0 DEF L
    <3> QED BY <3>1, <3>2 DEF Names
  <2>4. Names(n[L], U)
    <3> DEFINE l == m[L].labels
    <3>1. l # <<>> /\ IsInjective(l) /\ ToSet(l) = {OwnLabel(s) : s \in Within(T, m[L])}
      <4>1. Names(m[L], T)
        BY <1>0, <1>2 DEF L
      <4> QED BY <4>1 DEF Names
    <3>2. l \in Seq(Labels)
      <4>1. m[L] \in Mask
        BY <1>2 DEF L
      <4> QED BY <4>1 DEF Mask
    <3>3. OwnLabel(t) \in Labels
      BY AllSpansFacts
    <3> HIDE DEF l
    <3>4. /\ n[L].labels # <<>> /\ IsInjective(n[L].labels)
          /\ ToSet(n[L].labels) = ToSet(l) \cup {OwnLabel(t)}
      BY <1>4, <3>1, <3>2, <3>3, WithLabelFacts DEF l
    <3>5. {OwnLabel(s) : s \in Within(U, n[L])}
          = {OwnLabel(s) : s \in Within(T, m[L])} \cup {OwnLabel(t)}
      BY <2>1
    <3> QED BY <3>1, <3>4, <3>5 DEF Names
  <2>5. \A k \in 1 .. L : k < L \/ k = L
    BY <1>2
  <2> QED BY <1>3, <2>1, <2>2, <2>3, <2>4, <2>5
<1>5. CASE Follows(m, t, n) /\ n[L + 1] = Labelled(t)
  <2>1. /\ Merged(n, U)
        /\ \A k \in 1 .. L : Within(U, n[k]) = Within(T, m[k])
        /\ Within(U, n[L + 1]) = {t}
    <3>1. Follows(m, t, n) /\ NonEmpty(t)
      BY <1>1, <1>5
    <3>2. Merged(n, T \cup {t}) /\ NextHolds(n, T, m, t)
      BY <1>0, <1>1, <3>1, FollowsMerged
    <3> QED BY <3>2 DEF L, NextHolds
  <2>2. Len(n) = L + 1 /\ \A k \in 1 .. L : n[k] = m[k]
    BY <1>5 DEF Follows, L
  <2>3. ASSUME NEW k \in 1 .. L PROVE Names(n[k], U)
    <3>1. n[k] = m[k] /\ Within(U, n[k]) = Within(T, m[k])
      BY <2>1, <2>2
    <3>2. Names(m[k], T)
      BY <1>0 DEF L
    <3> QED BY <3>1, <3>2 DEF Names
  <2>4. Names(n[L + 1], U)
    <3>1. /\ n[L + 1].labels # <<>> /\ IsInjective(n[L + 1].labels)
          /\ ToSet(n[L + 1].labels) = {OwnLabel(t)}
      BY <1>5, LabelledFacts
    <3>2. {OwnLabel(s) : s \in Within(U, n[L + 1])} = {OwnLabel(t)}
      BY <2>1
    <3> QED BY <3>1, <3>2 DEF Names
  <2>5. \A k \in 1 .. L + 1 : k \in 1 .. L \/ k = L + 1
    BY <1>2
  <2> QED BY <1>3, <2>1, <2>2, <2>3, <2>4, <2>5
<1> QED BY <1>3, <1>4, <1>5

\* The loop, over the spans of a report in order.
MergingLabels(q, N) ==
    CHOOSE h : h = [n \in 1 .. N |-> IF n = 1 THEN <<Labelled(q[1])>>
                                     ELSE MergeLabel(h[n - 1], Labelled(q[n]))]

\* The loop makes its turns.
LEMMA LabelTurns ==
  ASSUME ScannedBytes \in Nat, Report, NEW q, NEW N \in Nat, N >= 1, \A n \in 1 .. N : q[n] \in AllSpans
  PROVE  LET g == MergingLabels(q, N) IN
         /\ g[1] = <<Labelled(q[1])>>
         /\ \A n \in 1 + 1 .. N : g[n] = MergeLabel(g[n - 1], Labelled(q[n]))
<1> DEFINE first == <<Labelled(q[1])>>
           body(h) == [n \in 1 .. N |-> IF n = 1 THEN first ELSE MergeLabel(h[n - 1], Labelled(q[n]))]
           step == [n \in 1 + 1 .. N |-> [m \in Masks |-> MergeLabel(m, Labelled(q[n]))]]
           g == MergingLabels(q, N)
<1>1. first \in Masks
  <2>1. Labelled(q[1]) \in Mask
    <3>1. q[1] \in AllSpans
      OBVIOUS
    <3> QED BY <3>1, LabelledFacts
  <2>2. first \in Seq(Mask) /\ first # <<>>
    BY <2>1
  <2> QED BY <2>2 DEF Masks
<1>2. step \in [1 + 1 .. N -> [Masks -> Masks]]
  <2>1. ASSUME NEW n \in 1 + 1 .. N, NEW m \in Masks PROVE MergeLabel(m, Labelled(q[n])) \in Masks
    <3>1. q[n] \in AllSpans
      OBVIOUS
    <3> QED BY <3>1, MergeLabelFacts
  <2> QED BY <2>1
<1> HIDE DEF first
<1>3. PICK f : Loops(f, 1, N, Masks, first, step)
  <2> HIDE DEF step
  <2> QED BY <1>1, <1>2, LoopExists
<1>4. /\ f \in [1 .. N -> Masks] /\ f[1] = first
      /\ \A n \in 1 + 1 .. N : f[n] = MergeLabel(f[n - 1], Labelled(q[n]))
  <2>1. /\ f \in [1 .. N -> Masks] /\ f[1] = first
        /\ \A n \in 1 + 1 .. N : f[n] = step[n][f[n - 1]]
    BY <1>3 DEF Loops
  <2>2. ASSUME NEW n \in 1 + 1 .. N PROVE f[n] = MergeLabel(f[n - 1], Labelled(q[n]))
    <3>1. f[n - 1] \in Masks
      BY <2>1
    <3> QED BY <2>1, <3>1
  <2> HIDE DEF step
  <2> QED BY <2>1, <2>2
<1> HIDE DEF step
<1>5. f = body(f)
  <2>1. ASSUME NEW n \in 1 .. N PROVE f[n] = body(f)[n]
    <3>1. n = 1 \/ (n # 1 /\ n \in 1 + 1 .. N)
      OBVIOUS
    <3> QED BY <1>4, <3>1
  <2>2. f = [n \in 1 .. N |-> f[n]]
    BY <1>4
  <2>3. body(f) = [n \in 1 .. N |-> body(f)[n]]
    OBVIOUS
  <2> HIDE DEF body
  <2> QED BY <2>1, <2>2, <2>3
<1>6. g = body(g)
  <2>1. g = CHOOSE h : h = body(h)
    BY DEF MergingLabels, first
  <2> HIDE DEF body, g
  <2> QED BY <1>5, <2>1
<1> HIDE DEF g
<1>7. g[1] = first
  <2>1. body(g)[1] = first
    OBVIOUS
  <2> HIDE DEF body
  <2> QED BY <1>6, <2>1
<1>8. ASSUME NEW n \in 1 + 1 .. N PROVE g[n] = MergeLabel(g[n - 1], Labelled(q[n]))
  <2>1. body(g)[n] = MergeLabel(g[n - 1], Labelled(q[n]))
    OBVIOUS
  <2> HIDE DEF body
  <2> QED BY <1>6, <2>1
<1> QED BY <1>7, <1>8 DEF g, first

\* _merge_labelled_spans merges the spans of a report and names every mask.
LEMMA MergeLabelledFacts ==
  ASSUME ScannedBytes \in Nat, Report, AllSpans # {}
  PROVE  NamedMasks(MergeLabelled, AllSpans)
<1> DEFINE N == Cardinality(AllSpans)
           q == SortedBy(AllSpans, SpliceOrder)
           g == MergingLabels(q, N)
           S == {n \in 1 .. N : NamedMasks(g[n], UpTo(q, n))}
<1>1. MergeLabelled = g[N]
  BY DEF MergeLabelled, MergingLabels
<1>2. \A n \in 1 .. N :
         q[n] = CHOOSE s \in AllSpans : Cardinality({t \in AllSpans : SpliceOrder(t, s)}) = n - 1
  BY DEF SortedBy
<1> HIDE DEF q
<1>3. /\ N \in Nat /\ (N = 0 <=> AllSpans = {})
      /\ \A n \in 1 .. N : q[n] \in AllSpans
      /\ \A s \in AllSpans : \E n \in 1 .. N : q[n] = s
      /\ \A m, n \in 1 .. N : m < n => q[m].from <= q[n].from
  BY <1>2, SplicedOrder
<1> HIDE DEF N
<1>4. N >= 1
  BY <1>3
<1>5. /\ g[1] = <<Labelled(q[1])>>
      /\ \A n \in 1 + 1 .. N : g[n] = MergeLabel(g[n - 1], Labelled(q[n]))
  BY <1>3, <1>4, LabelTurns
<1> HIDE DEF g
<1>6. 1 \in S
  <2> DEFINE s == q[1]
             p == Labelled(s)
  <2>1. s \in AllSpans /\ NonEmpty(s)
    <3>1. q[1] \in AllSpans
      BY <1>3, <1>4
    <3> QED BY <3>1, AllSpansFacts
  <2>2. /\ p \in Mask /\ p.from = s.from /\ p.to = s.to
        /\ p.labels # <<>> /\ IsInjective(p.labels) /\ ToSet(p.labels) = {OwnLabel(s)}
    <3> HIDE DEF s
    <3> QED BY <2>1, LabelledFacts
  <2>3. UpTo(q, 1) = {s}
    BY UpToFacts
  <2>4. g[1] = <<p>>
    BY <1>5
  <2> HIDE DEF s, p
  <2>5. Len(g[1]) = 1 /\ g[1][1] = p /\ g[1] \in Masks
    <3>1. <<p>> \in Seq(Mask) /\ <<p>> # <<>> /\ Len(<<p>>) = 1
      BY <2>2
    <3> QED BY <2>4, <3>1 DEF Masks
  <2>6. Merged(g[1], {s}) /\ Within({s}, p) = {s}
    BY <2>1, <2>2, <2>5, FirstMerged
  <2>7. {OwnLabel(u) : u \in Within({s}, p)} = {OwnLabel(s)}
    BY <2>6
  <2>8. Names(p, {s})
    BY <2>2, <2>7 DEF Names
  <2>9. \A k \in 1 .. Len(g[1]) : g[1][k] = p
    <3>1. \A k \in 1 .. Len(g[1]) : k = 1
      BY <2>5
    <3> QED BY <2>5, <3>1
  <2>10. NamedMasks(g[1], UpTo(q, 1))
    BY <2>3, <2>5, <2>6, <2>8, <2>9 DEF NamedMasks
  <2> QED BY <1>4, <2>10
<1>7. ASSUME NEW n \in 1 .. N - 1, n \in S PROVE n + 1 \in S
  <2> DEFINE T == UpTo(q, n)
             t == q[n + 1]
  <2>1. n + 1 \in 1 .. N /\ n + 1 \in 1 + 1 .. N /\ (n + 1) - 1 = n /\ n \in 1 .. N /\ n \in Nat
    BY <1>3
  <2>2. NamedMasks(g[n], T) /\ t \in AllSpans
    BY <1>3, <1>7, <2>1
  <2>3. ASSUME NEW s \in T PROVE s \in AllSpans /\ s.from <= t.from
    <3>1. PICK k \in 1 .. n : s = q[k]
      BY <2>3 DEF UpTo
    <3>2. k \in 1 .. N /\ k < n + 1
      BY <1>3
    <3>3. q[k].from <= q[n + 1].from /\ q[k] \in AllSpans
      BY <1>3, <2>1, <3>2
    <3> QED BY <3>1, <3>3
  <2>4. g[n + 1] = MergeLabel(g[n], Labelled(t))
    BY <1>5, <2>1
  <2>5. UpTo(q, n + 1) = T \cup {t}
    BY <2>1, UpToFacts
  <2> HIDE DEF T, t
  <2>6. NamedMasks(g[n + 1], T \cup {t})
    BY <2>2, <2>3, <2>4, MergeLabelStep
  <2> QED BY <2>1, <2>5, <2>6
<1> HIDE DEF S
<1>8. \A n \in 1 .. N : n \in S
  BY <1>3, <1>6, <1>7, EveryCount
<1>9. N \in S
  BY <1>3, <1>4, <1>8
<1>10. NamedMasks(g[N], UpTo(q, N))
  BY <1>9 DEF S
<1>11. UpTo(q, N) = AllSpans
  BY <1>3 DEF UpTo
<1> QED BY <1>1, <1>10, <1>11 DEF g

-----------------------------------------------------------------------------
(* The splice: masks, and the gaps between them.                           *)

\* The masks M are apart, inside the text, and hold the spans of the report, each
\* under its name, and nothing but their bytes.
Blocks(M) ==
    /\ Len(M) \in Nat /\ DOMAIN M = 1 .. Len(M)
    /\ \A k \in 1 .. Len(M) : NonEmpty(M[k]) /\ M[k].to <= ScannedBytes /\ Names(M[k], AllSpans)
    /\ \A k, l \in 1 .. Len(M) : k < l => M[k].to < M[l].from
    /\ \A s \in AllSpans : \E k \in 1 .. Len(M) : Inside(s, M[k])
    /\ \A k \in 1 .. Len(M) : \A b \in M[k].from .. M[k].to - 1 :
          \E s \in AllSpans : s.from <= b /\ b < s.to

\* So are those _merge_labelled_spans makes, none if there is no span.
LEMMA MergeLabelledBlocks ==
  ASSUME ScannedBytes \in Nat, Report
  PROVE  Blocks(MergeLabelled)
<1>1. CASE AllSpans = {}
  <2>1. MergeLabelled = <<>>
    BY <1>1 DEF MergeLabelled
  <2>2. Len(<<>>) = 0 /\ DOMAIN <<>> = 1 .. 0
    OBVIOUS
  <2> QED BY <1>1, <2>1, <2>2 DEF Blocks
<1>2. CASE AllSpans # {}
  <2> DEFINE M == MergeLabelled
  <2>1. M \in Seq(Mask) /\ Merged(M, AllSpans) /\ \A k \in 1 .. Len(M) : Names(M[k], AllSpans)
    BY <1>2, MergeLabelledFacts DEF NamedMasks, Masks
  <2> HIDE DEF M
  <2>2. \A k \in 1 .. Len(M) : M[k].to <= ScannedBytes
    <3>1. \A k \in 1 .. Len(M) : M[k] \in Mask
      BY <2>1
    <3>2. \A p \in Mask : p.to <= ScannedBytes
      BY DEF Mask
    <3> QED BY <3>1, <3>2
  <2>3. DOMAIN M = 1 .. Len(M)
    BY <2>1
  <2>4. Blocks(M)
    BY <2>1, <2>2, <2>3 DEF Blocks, Merged, Apart
  <2> QED BY <2>4 DEF M
<1> QED BY <1>1, <1>2

\* The masks hold the covered bytes.
LEMMA CoveredFacts ==
  ASSUME ScannedBytes \in Nat, Report, NEW M, Blocks(M), NEW b \in Int
  PROVE  b \in Covered(AllSpans) <=> \E k \in 1 .. Len(M) : M[k].from <= b /\ b < M[k].to
<1>1. ASSUME b \in Covered(AllSpans) PROVE \E k \in 1 .. Len(M) : M[k].from <= b /\ b < M[k].to
  <2>1. PICK s \in AllSpans : b \in s.from .. s.to - 1
    BY <1>1 DEF Covered
  <2>2. s.from \in Nat /\ s.to \in Nat
    BY AllSpansFacts DEF NonEmpty
  <2>3. PICK k \in 1 .. Len(M) : Inside(s, M[k])
    BY DEF Blocks
  <2>4. M[k].from \in Nat /\ M[k].to \in Nat
    BY DEF Blocks, NonEmpty
  <2> QED BY <2>1, <2>2, <2>3, <2>4 DEF Inside
<1>2. ASSUME NEW k \in 1 .. Len(M), M[k].from <= b, b < M[k].to PROVE b \in Covered(AllSpans)
  <2>1. M[k].from \in Nat /\ M[k].to \in Nat
    BY DEF Blocks, NonEmpty
  <2>2. b \in M[k].from .. M[k].to - 1
    BY <1>2, <2>1
  <2>3. PICK s \in AllSpans : s.from <= b /\ b < s.to
    BY <2>2 DEF Blocks
  <2>4. s.from \in Nat /\ s.to \in Nat
    BY AllSpansFacts DEF NonEmpty
  <2>5. b \in s.from .. s.to - 1
    BY <2>3, <2>4
  <2> QED BY <2>5 DEF Covered
<1> QED BY <1>1, <1>2

\* A gap is uncovered, and the bytes next to it are covered.
LEMMA GapFacts ==
  ASSUME Size \in Nat, ScannedBytes \in Nat, ScannedBytes <= Size, Report,
         NEW M, Blocks(M), NEW q \in 1 .. Len(M) + 1,
         NEW p, p.from = CursorAt(M, q), p.to = IF q > Len(M) THEN Size ELSE M[q].from
  PROVE  /\ p.from \in 0 .. Size /\ p.to \in 0 .. Size /\ p.from <= p.to
         /\ \A b \in p.from .. p.to - 1 : b \notin Covered(AllSpans)
         /\ p.from > 0 => q > 1 /\ p.from - 1 \in Covered(AllSpans)
         /\ p.to < Size => q <= Len(M) /\ p.to \in Covered(AllSpans)
<1> DEFINE L == Len(M)
<1>1. L \in Nat /\ q \in Nat /\ q >= 1 /\ q <= L + 1
  BY DEF Blocks
<1>2. \A k \in 1 .. L : /\ M[k].from \in Nat /\ M[k].to \in Nat
                        /\ M[k].from < M[k].to /\ M[k].to <= Size
  <2>1. \A k \in 1 .. L : /\ M[k].from \in Nat /\ M[k].to \in Nat
                          /\ M[k].from < M[k].to /\ M[k].to <= ScannedBytes
    BY DEF Blocks, NonEmpty
  <2> HIDE DEF L
  <2> QED BY <2>1
<1>3. \A k, l \in 1 .. L : k < l => M[k].to < M[l].from
  BY DEF Blocks
<1>4. q > 1 => q - 1 \in 1 .. L /\ p.from = M[q - 1].to
  BY <1>1 DEF CursorAt
<1>5. q = 1 => p.from = 0
  BY DEF CursorAt
<1>6. q <= L => q \in 1 .. L /\ p.to = M[q].from
  BY <1>1
<1>7. q > L => p.to = Size
  OBVIOUS
<1> HIDE DEF L
<1>8. p.from \in 0 .. Size /\ p.to \in 0 .. Size
  BY <1>1, <1>2, <1>4, <1>5, <1>6, <1>7
<1>9. p.from <= p.to
  <2>1. CASE q > 1 /\ q <= L
    <3>1. q - 1 < q
      BY <1>1
    <3>2. M[q - 1].to < M[q].from
      BY <1>3, <1>4, <1>6, <2>1, <3>1
    <3> QED BY <1>4, <1>6, <1>8, <2>1, <3>2
  <2>2. CASE q = 1
    BY <1>5, <1>8, <2>2
  <2>3. CASE q > L
    BY <1>7, <1>8, <2>3
  <2> QED BY <1>1, <2>1, <2>2, <2>3
<1>10. ASSUME NEW b \in p.from .. p.to - 1 PROVE b \notin Covered(AllSpans)
  <2> SUFFICES ASSUME NEW k \in 1 .. L, M[k].from <= b, b < M[k].to PROVE FALSE
    BY <1>8, CoveredFacts DEF L
  <2>1. b \in Int /\ p.from <= b /\ b < p.to
    BY <1>8
  <2>2. CASE k < q
    <3>1. q > 1
      BY <1>1, <2>2
    <3>2. k = q - 1 \/ k < q - 1
      BY <1>1, <2>2
    <3>3. M[k].to <= M[q - 1].to
      <4>1. k < q - 1 => M[k].to < M[q - 1].from
        BY <1>3, <1>4, <3>1
      <4> QED BY <1>2, <1>4, <3>1, <3>2, <4>1
    <3> QED BY <1>2, <1>4, <2>1, <3>1, <3>3
  <2>3. CASE k >= q
    <3>1. q <= L
      BY <1>1, <2>3
    <3>2. k = q \/ q < k
      BY <1>1, <2>3
    <3>3. M[q].from <= M[k].from
      <4>1. q < k => M[q].to < M[k].from
        BY <1>3, <1>6, <3>1
      <4> QED BY <1>2, <1>6, <3>1, <3>2, <4>1
    <3> QED BY <1>2, <1>6, <2>1, <3>1, <3>3
  <2> QED BY <1>1, <2>2, <2>3
<1>11. ASSUME p.from > 0 PROVE q > 1 /\ p.from - 1 \in Covered(AllSpans)
  <2>1. q > 1
    BY <1>1, <1>5, <1>11
  <2>2. M[q - 1].from <= p.from - 1 /\ p.from - 1 < M[q - 1].to /\ p.from - 1 \in Int
    BY <1>2, <1>4, <2>1
  <2> QED BY <1>4, <2>1, <2>2, CoveredFacts DEF L
<1>12. ASSUME p.to < Size PROVE q <= Len(M) /\ p.to \in Covered(AllSpans)
  <2>1. q <= L
    BY <1>1, <1>7, <1>12
  <2>2. M[q].from <= p.to /\ p.to < M[q].to /\ p.to \in Int
    BY <1>2, <1>6, <2>1
  <2> QED BY <1>6, <2>1, <2>2, CoveredFacts DEF L
<1> QED BY <1>8, <1>9, <1>10, <1>11, <1>12

\* A kept piece and a mask.
LEMMA PieceFacts ==
  ASSUME Size \in Nat, ScannedBytes \in Nat, ScannedBytes <= Size, Report, NEW M, Blocks(M)
  PROVE  /\ \A q \in 1 .. Len(M) + 1 :
               /\ ~IsMask(KeptBefore(M, q)) /\ KeptBefore(M, q).from = CursorAt(M, q)
               /\ KeptBefore(M, q).to = IF q > Len(M) THEN Size ELSE M[q].from
         /\ \A q \in 1 .. Len(M) :
               /\ IsMask(Masked(M[q])) /\ Masked(M[q]).from = M[q].from
               /\ Masked(M[q]).to = M[q].to /\ Masked(M[q]).labels = M[q].labels
               /\ Masked(M[q]).tag = Fingerprint(CoveredBytes(M[q]))
<1>1. \A q \in 1 .. Len(M) : M[q].labels # <<>>
  BY DEF Blocks, Names
<1> QED BY <1>1 DEF KeptBefore, Kept, Masked, IsMask

\* The pieces P of the splice alternate: a gap, a mask, ... a gap.
Pieced(P, M) ==
    /\ Len(P) = 2 * Len(M) + 1 /\ DOMAIN P = 1 .. 2 * Len(M) + 1
    /\ \A q \in 1 .. Len(M) + 1 : P[2 * q - 1] = KeptBefore(M, q)
    /\ \A q \in 1 .. Len(M) : P[2 * q] = Masked(M[q])

\* What _apply_redaction puts together does, and no span is out of range or out of order.
LEMMA SplicePieces ==
  ASSUME Size \in Nat, ScannedBytes \in Nat, ScannedBytes <= Size, Report, NEW M, Blocks(M)
  PROVE  Pieced(Splice(M).pieces, M) /\ Splice(M).ok
<1> DEFINE L == Len(M)
           P == Splice(M).pieces
<1>1. L \in Nat
  BY DEF Blocks
<1>2. P = [n \in 1 .. 2 * L + 1 |-> IF n % 2 = 1 THEN KeptBefore(M, (n + 1) \div 2)
                                    ELSE Masked(M[n \div 2])]
  BY DEF Splice
<1>3. Splice(M).ok = \A k \in DOMAIN M : M[k].from >= CursorAt(M, k) /\ M[k].to <= Size
  BY DEF Splice
<1>4. Len(P) = 2 * L + 1 /\ DOMAIN P = 1 .. 2 * L + 1
  BY <1>1, <1>2
<1>5. ASSUME NEW q \in 1 .. L + 1 PROVE P[2 * q - 1] = KeptBefore(M, q)
  <2>1. /\ 2 * q - 1 \in 1 .. 2 * L + 1 /\ (2 * q - 1) % 2 = 1
        /\ ((2 * q - 1) + 1) \div 2 = q
    BY <1>1
  <2> QED BY <1>2, <2>1
<1>6. ASSUME NEW q \in 1 .. L PROVE P[2 * q] = Masked(M[q])
  <2>1. 2 * q \in 1 .. 2 * L + 1 /\ (2 * q) % 2 # 1 /\ (2 * q) \div 2 = q
    BY <1>1
  <2> QED BY <1>2, <2>1
<1>7. Pieced(P, M)
  BY <1>4, <1>5, <1>6 DEF Pieced
<1>8. ASSUME NEW k \in 1 .. L PROVE M[k].from >= CursorAt(M, k) /\ M[k].to <= Size
  <2>1. k \in 1 .. L /\ k \in 1 .. L + 1 /\ ~(k > L)
    BY <1>1
  <2> DEFINE p == KeptBefore(M, k)
  <2>2. p.from = CursorAt(M, k) /\ p.to = IF k > L THEN Size ELSE M[k].from
    BY <2>1, PieceFacts
  <2>3. p.to = M[k].from
    BY <2>1, <2>2
  <2>4. p.from \in 0 .. Size /\ p.to \in 0 .. Size /\ p.from <= p.to
    <3> HIDE DEF p
    <3> QED BY <2>1, <2>2, GapFacts
  <2> HIDE DEF p
  <2>5. M[k].to <= Size
    <3>1. M[k].to <= ScannedBytes /\ M[k].to \in Nat
      BY <2>1 DEF Blocks, NonEmpty
    <3> QED BY <3>1
  <2> QED BY <2>2, <2>3, <2>4, <2>5
<1>9. DOMAIN M = 1 .. L
  BY DEF Blocks
<1> QED BY <1>3, <1>7, <1>8, <1>9

\* A piece is a gap or a mask.
LEMMA Parity ==
  ASSUME NEW L \in Nat, NEW n \in 1 .. 2 * L + 1
  PROVE  (\E q \in 1 .. L + 1 : n = 2 * q - 1) \/ (\E q \in 1 .. L : n = 2 * q)
<1> DEFINE h == n \div 2
<1>1. h \in Int /\ (n = 2 * h \/ n = 2 * h + 1)
  OBVIOUS
<1> HIDE DEF h
<1>2. CASE n = 2 * h
  <2>1. h \in 1 .. L
    BY <1>1, <1>2
  <2> QED BY <1>2, <2>1
<1>3. CASE n = 2 * h + 1
  <2>1. h + 1 \in 1 .. L + 1 /\ n = 2 * (h + 1) - 1
    BY <1>1, <1>3
  <2> QED BY <2>1
<1> QED BY <1>1, <1>2, <1>3

\* The pieces cover the text one after the other, and exactly the covered bytes
\* are masked.
Tiles(P) ==
    /\ Len(P) \in Nat \ {0} /\ DOMAIN P = 1 .. Len(P)
    /\ P[1].from = 0 /\ P[Len(P)].to = Size
    /\ \A n \in 1 .. Len(P) :
          /\ P[n].from \in 0 .. Size /\ P[n].to \in 0 .. Size /\ P[n].from <= P[n].to
          /\ n > 1 => P[n].from = P[n - 1].to
          /\ \A b \in P[n].from .. P[n].to - 1 : IsMask(P[n]) <=> b \in Covered(AllSpans)

\* The pieces of a splice tile the text.
LEMMA TilingFacts ==
  ASSUME Size \in Nat, ScannedBytes \in Nat, ScannedBytes <= Size, Report, NEW M, Blocks(M), NEW P, Pieced(P, M)
  PROVE  Tiles(P)
<1> DEFINE L == Len(M)
<1>1. L \in Nat /\ Len(P) = 2 * L + 1 /\ DOMAIN P = 1 .. 2 * L + 1
  BY DEF Blocks, Pieced
<1>2. ASSUME NEW q \in 1 .. L + 1
      PROVE  /\ 2 * q - 1 \in 1 .. Len(P) /\ P[2 * q - 1] = KeptBefore(M, q)
             /\ ~IsMask(P[2 * q - 1]) /\ P[2 * q - 1].from = CursorAt(M, q)
             /\ P[2 * q - 1].to = IF q > L THEN Size ELSE M[q].from
             /\ P[2 * q - 1].from \in 0 .. Size /\ P[2 * q - 1].to \in 0 .. Size
             /\ P[2 * q - 1].from <= P[2 * q - 1].to
             /\ \A b \in P[2 * q - 1].from .. P[2 * q - 1].to - 1 : b \notin Covered(AllSpans)
  <2> DEFINE p == P[2 * q - 1]
  <2>1. 2 * q - 1 \in 1 .. Len(P)
    BY <1>1
  <2>2. p = KeptBefore(M, q)
    BY DEF Pieced
  <2>3. ~IsMask(p) /\ p.from = CursorAt(M, q) /\ p.to = IF q > L THEN Size ELSE M[q].from
    BY <2>2, PieceFacts
  <2> HIDE DEF p
  <2>4. /\ p.from \in 0 .. Size /\ p.to \in 0 .. Size /\ p.from <= p.to
        /\ \A b \in p.from .. p.to - 1 : b \notin Covered(AllSpans)
    BY <2>3, GapFacts
  <2> QED BY <2>1, <2>2, <2>3, <2>4 DEF p
<1>3. ASSUME NEW q \in 1 .. L
      PROVE  /\ 2 * q \in 1 .. Len(P) /\ IsMask(P[2 * q])
             /\ P[2 * q].from = M[q].from /\ P[2 * q].to = M[q].to
             /\ P[2 * q].from \in 0 .. Size /\ P[2 * q].to \in 0 .. Size
             /\ P[2 * q].from <= P[2 * q].to
             /\ \A b \in P[2 * q].from .. P[2 * q].to - 1 : b \in Covered(AllSpans)
  <2> DEFINE p == P[2 * q]
  <2>1. 2 * q \in 1 .. Len(P)
    BY <1>1
  <2>2. p = Masked(M[q])
    BY DEF Pieced
  <2>3. IsMask(p) /\ p.from = M[q].from /\ p.to = M[q].to
    BY <2>2, PieceFacts
  <2> HIDE DEF p
  <2>4. p.from \in Nat /\ p.to \in Nat /\ p.from < p.to /\ p.to <= Size
    <3>1. p.from \in Nat /\ p.to \in Nat /\ p.from < p.to /\ p.to <= ScannedBytes
      BY <2>3 DEF Blocks, NonEmpty
    <3> QED BY <3>1
  <2>5. ASSUME NEW b \in p.from .. p.to - 1 PROVE b \in Covered(AllSpans)
    <3>1. b \in Int /\ M[q].from <= b /\ b < M[q].to
      BY <2>3, <2>4
    <3> QED BY <3>1, CoveredFacts
  <2> QED BY <2>1, <2>3, <2>4, <2>5 DEF p
<1> HIDE DEF L
<1>4. Len(P) \in Nat \ {0} /\ DOMAIN P = 1 .. Len(P)
  BY <1>1
<1>5. P[1].from = 0
  <2>1. 1 \in 1 .. L + 1 /\ 2 * 1 - 1 = 1
    BY <1>1
  <2>2. P[1].from = CursorAt(M, 1)
    BY <1>2, <2>1
  <2> QED BY <2>2 DEF CursorAt
<1>6. P[Len(P)].to = Size
  <2>1. L + 1 \in 1 .. L + 1 /\ 2 * (L + 1) - 1 = Len(P) /\ L + 1 > L
    BY <1>1
  <2> QED BY <1>2, <2>1
<1>7. ASSUME NEW n \in 1 .. Len(P)
      PROVE  /\ P[n].from \in 0 .. Size /\ P[n].to \in 0 .. Size /\ P[n].from <= P[n].to
             /\ n > 1 => P[n].from = P[n - 1].to
             /\ \A b \in P[n].from .. P[n].to - 1 : IsMask(P[n]) <=> b \in Covered(AllSpans)
  <2>1. CASE \E q \in 1 .. L + 1 : n = 2 * q - 1
    <3>1. PICK q \in 1 .. L + 1 : n = 2 * q - 1
      BY <2>1
    <3>2. n > 1 => P[n].from = P[n - 1].to
      <4> SUFFICES ASSUME n > 1 PROVE P[n].from = P[n - 1].to
        OBVIOUS
      <4>1. q - 1 \in 1 .. L /\ n - 1 = 2 * (q - 1) /\ q # 1
        BY <1>1, <3>1
      <4>2. P[n].from = M[q - 1].to
        BY <1>2, <3>1, <4>1 DEF CursorAt
      <4>3. P[n - 1].to = M[q - 1].to
        BY <1>3, <4>1
      <4> QED BY <4>2, <4>3
    <3> QED BY <1>2, <3>1, <3>2
  <2>2. CASE \E q \in 1 .. L : n = 2 * q
    <3>1. PICK q \in 1 .. L : n = 2 * q
      BY <2>2
    <3>2. P[n].from = P[n - 1].to
      <4>1. q \in 1 .. L + 1 /\ n - 1 = 2 * q - 1 /\ ~(q > L)
        BY <1>1, <3>1
      <4> QED BY <1>2, <1>3, <3>1, <4>1
    <3> QED BY <1>3, <3>1, <3>2
  <2> QED BY <1>1, <2>1, <2>2, Parity
<1> QED BY <1>4, <1>5, <1>6, <1>7 DEF Tiles

\* Two gaps never meet.
LEMMA Alternate ==
  ASSUME Size \in Nat, ScannedBytes \in Nat, ScannedBytes <= Size, Report,
         NEW M, Blocks(M), NEW P, Pieced(P, M),
         NEW n \in 1 .. Len(P), n > 1, ~IsMask(P[n])
  PROVE  IsMask(P[n - 1])
<1> DEFINE L == Len(M)
<1>1. L \in Nat /\ Len(P) = 2 * L + 1
  BY DEF Blocks, Pieced
<1>2. \A q \in 1 .. L : IsMask(P[2 * q])
  BY PieceFacts DEF Pieced
<1> HIDE DEF L
<1>3. PICK q \in 1 .. L + 1 : n = 2 * q - 1
  BY <1>1, <1>2, Parity
<1>4. q - 1 \in 1 .. L /\ n - 1 = 2 * (q - 1)
  BY <1>1, <1>3
<1> QED BY <1>2, <1>4

\* Only the last gap reaches beyond what was scanned.
LEMMA GapScanned ==
  ASSUME Size \in Nat, ScannedBytes \in Nat, ScannedBytes <= Size, Report,
         NEW M, Blocks(M), NEW P, Pieced(P, M),
         NEW n \in 1 .. Len(P), n # Len(P), ~IsMask(P[n])
  PROVE  P[n].to <= ScannedBytes /\ P[n].to \in Nat
<1> DEFINE L == Len(M)
<1>1. L \in Nat /\ Len(P) = 2 * L + 1
  BY DEF Blocks, Pieced
<1>2. \A q \in 1 .. L : IsMask(P[2 * q])
  BY PieceFacts DEF Pieced
<1> HIDE DEF L
<1>3. PICK q \in 1 .. L + 1 : n = 2 * q - 1
  BY <1>1, <1>2, Parity
<1>4. q \in 1 .. L /\ ~(q > L)
  BY <1>1, <1>3
<1>5. P[n] = KeptBefore(M, q) /\ KeptBefore(M, q).to = M[q].from
  BY <1>3, <1>4, PieceFacts DEF Pieced, L
<1>6. M[q].from \in Nat /\ M[q].to \in Nat /\ M[q].from < M[q].to /\ M[q].to <= ScannedBytes
  BY <1>4 DEF Blocks, NonEmpty, L
<1> QED BY <1>5, <1>6

-----------------------------------------------------------------------------
(* What the reader of the output sees.                                     *)

\* A stretch of the text.
LEMMA StretchFacts ==
  ASSUME text \in Seq(Bytes), NEW a \in 0 .. Size, NEW b \in a .. Size
  PROVE  /\ SubSeq(text, a + 1, b) \in Seq(Bytes) /\ Len(SubSeq(text, a + 1, b)) = b - a
         /\ \A k \in 1 .. b - a : SubSeq(text, a + 1, b)[k] = text[a + k] /\ text[a + k] \in Bytes
<1>1. Size \in Nat /\ a \in Nat /\ b \in Nat /\ a <= b /\ b <= Len(text)
  BY DEF Size
<1>2. \A k \in a + 1 .. b : text[k] \in Bytes
  BY <1>1
<1>3. SubSeq(text, a + 1, b) = [k \in 1 .. b - a |-> text[a + k]]
  BY <1>1
<1>4. \A k \in 1 .. b - a : a + k \in a + 1 .. b
  BY <1>1
<1>5. [k \in 1 .. b - a |-> text[a + k]] \in Seq(Bytes)
  BY <1>1, <1>2, <1>4
<1> QED BY <1>1, <1>2, <1>3, <1>4, <1>5

\* A fragment occurs where its bytes are.
LEMMA OccursFacts ==
  ASSUME NEW V, NEW v, Len(v) \in Nat, Len(V) \in Nat, NEW B, V \in Seq(B), NEW C, v \in Seq(C),
         NEW s \in Nat
  PROVE  OccursAt(v, s, V) <=> /\ s + Len(v) <= Len(V)
                               /\ \A k \in 1 .. Len(v) : V[s + k] = v[k]
<1>1. CASE s + Len(v) <= Len(V)
  <2>1. SubSeq(V, s + 1, s + Len(v)) = [k \in 1 .. Len(v) |-> V[s + k]]
    BY <1>1
  <2>2. v = [k \in 1 .. Len(v) |-> v[k]]
    OBVIOUS
  <2> QED BY <1>1, <2>1, <2>2 DEF OccursAt
<1>2. CASE ~(s + Len(v) <= Len(V))
  BY <1>2 DEF OccursAt
<1> QED BY <1>1, <1>2

\* What is seen of a mask and of kept bytes.
Symbols == Bytes \cup {Mark}

\* A mask is seen as its mark, kept bytes as themselves.
LEMMA ShownFacts ==
  ASSUME text \in Seq(Bytes), NEW p, p.from \in 0 .. Size, p.to \in 0 .. Size, p.from <= p.to
  PROVE  /\ Shown(p) \in Seq(Symbols)
         /\ IsMask(p) => Len(Shown(p)) = 1 /\ Shown(p)[1] = Mark
         /\ ~IsMask(p) => /\ Len(Shown(p)) = p.to - p.from
                          /\ \A k \in 1 .. p.to - p.from : Shown(p)[k] = text[p.from + k]
<1>1. CASE IsMask(p)
  <2>1. Shown(p) = <<Mark>> /\ Mark \in Symbols
    BY <1>1 DEF Shown, Symbols
  <2> HIDE DEF Mark
  <2> QED BY <1>1, <2>1
<1>2. CASE ~IsMask(p)
  <2> DEFINE a == p.from
             b == p.to
  <2>1. Shown(p) = SubSeq(text, a + 1, b)
    BY <1>2 DEF Shown, BytesOf
  <2>2. a \in 0 .. Size /\ b \in a .. Size
    BY DEF Size
  <2> HIDE DEF a, b
  <2>3. /\ SubSeq(text, a + 1, b) \in Seq(Bytes) /\ Len(SubSeq(text, a + 1, b)) = b - a
        /\ \A k \in 1 .. b - a : SubSeq(text, a + 1, b)[k] = text[a + k]
    BY <2>2, StretchFacts
  <2>4. SubSeq(text, a + 1, b) \in Seq(Symbols)
    BY <2>3 DEF Symbols
  <2> QED BY <1>2, <2>1, <2>3, <2>4 DEF a, b
<1> QED BY <1>1, <1>2

\* The loop that shows the output.
Showing ==
    CHOOSE h : h = [n \in 0 .. Len(out) |-> IF n = 0 THEN <<>> ELSE h[n - 1] \o Shown(out[n])]

\* It makes its turns.
LEMMA ShowingTurns ==
  ASSUME Len(out) \in Nat, \A n \in 1 .. Len(out) : Shown(out[n]) \in Seq(Symbols)
  PROVE  /\ Visible = Showing[Len(out)] /\ Showing[0] = <<>>
         /\ \A n \in 0 + 1 .. Len(out) : Showing[n] = Showing[n - 1] \o Shown(out[n])
<1> DEFINE N == Len(out)
           V == Seq(Symbols)
           body(h) == [n \in 0 .. N |-> IF n = 0 THEN <<>> ELSE h[n - 1] \o Shown(out[n])]
           step == [n \in 0 + 1 .. N |-> [m \in V |-> m \o Shown(out[n])]]
           g == Showing
<1>0. N \in Nat /\ 0 <= N
  OBVIOUS
<1>00. \A n \in 0 + 1 .. N : Shown(out[n]) \in Seq(Symbols)
  OBVIOUS
<1>1. Visible = g[N]
  BY DEF Visible, Showing
<1>2. g = CHOOSE h : h = body(h)
  BY DEF Showing
<1> HIDE DEF N, g
<1>3. <<>> \in V
  OBVIOUS
<1>4. step \in [0 + 1 .. N -> [V -> V]]
  <2>1. ASSUME NEW n \in 0 + 1 .. N, NEW m \in V PROVE m \o Shown(out[n]) \in V
    <3>1. Shown(out[n]) \in Seq(Symbols) /\ m \in Seq(Symbols)
      BY <1>00
    <3> QED BY <3>1, ConcatFacts
  <2> HIDE DEF V
  <2> QED BY <2>1
<1>5. PICK f : Loops(f, 0, N, V, <<>>, step)
  <2> HIDE DEF step, V
  <2> QED BY <1>0, <1>3, <1>4, LoopExists
<1>6. /\ f \in [0 .. N -> V] /\ f[0] = <<>>
      /\ \A n \in 0 + 1 .. N : f[n] = f[n - 1] \o Shown(out[n])
  <2> HIDE DEF V
  <2>1. /\ f \in [0 .. N -> V] /\ f[0] = <<>>
        /\ \A n \in 0 + 1 .. N : f[n] = step[n][f[n - 1]]
    BY <1>5 DEF Loops
  <2>2. ASSUME NEW n \in 0 + 1 .. N PROVE f[n] = f[n - 1] \o Shown(out[n])
    <3>1. f[n - 1] \in V
      BY <1>0, <2>1
    <3> QED BY <2>1, <3>1
  <2> HIDE DEF step
  <2> QED BY <2>1, <2>2
<1> HIDE DEF V, step
<1>7. f = body(f)
  <2>1. ASSUME NEW n \in 0 .. N PROVE f[n] = body(f)[n]
    <3>1. n = 0 \/ (n # 0 /\ n \in 0 + 1 .. N)
      BY <1>0
    <3> QED BY <1>6, <3>1
  <2>2. f = [n \in 0 .. N |-> f[n]]
    BY <1>6
  <2>3. body(f) = [n \in 0 .. N |-> body(f)[n]]
    OBVIOUS
  <2> HIDE DEF body
  <2> QED BY <2>1, <2>2, <2>3
<1>8. g = body(g)
  <2> HIDE DEF body
  <2> QED BY <1>2, <1>7
<1>9. g[0] = <<>>
  <2>1. body(g)[0] = <<>>
    BY <1>0
  <2> HIDE DEF body
  <2> QED BY <1>8, <2>1
<1>10. ASSUME NEW n \in 0 + 1 .. N PROVE g[n] = g[n - 1] \o Shown(out[n])
  <2>1. n \in 0 .. N /\ n # 0
    BY <1>0
  <2>2. body(g)[n] = g[n - 1] \o Shown(out[n])
    BY <2>1, Zenon
  <2> HIDE DEF body
  <2> QED BY <1>8, <2>2
<1> QED BY <1>1, <1>9, <1>10 DEF g, N

\* Every run of bytes seen in V comes from one of the first n pieces, kept, and is
\* as far from the end of V as from the end of the n-th if it comes from that; and
\* a mask leaves its mark at the end.
Read(V, s, l, n) ==
    \E m \in 1 .. n, a \in 0 .. Size :
        /\ ~IsMask(out[m]) /\ out[m].from <= a /\ a + l <= out[m].to
        /\ m = n => a + (Len(V) - s) = out[m].to
        /\ \A k \in 1 .. l : V[s + k] = text[a + k]
Unmarked(V, s, l) == s + l <= Len(V) /\ \A k \in 1 .. l : V[s + k] # Mark
Reads(V, n) ==
    /\ V \in Seq(Symbols)
    /\ \A s \in Nat, l \in Nat \ {0} : Unmarked(V, s, l) => Read(V, s, l, n)
    /\ n >= 1 /\ IsMask(out[n]) => Len(V) >= 1 /\ V[Len(V)] = Mark

\* A gap follows a mask.
GapAfterMask(n) == n > 1 /\ ~IsMask(out[n]) => IsMask(out[n - 1])

\* One more piece is seen.
LEMMA ReadNext ==
  ASSUME text \in Seq(Bytes), Tiles(out), NEW n \in 1 .. Len(out),
         GapAfterMask(n),
         NEW V, Reads(V, n - 1), n = 1 => Len(V) = 0
  PROVE  Reads(V \o Shown(out[n]), n)
<1> DEFINE p == out[n]
           W == Shown(p)
           U == V \o W
<1>1. n \in Nat /\ n >= 1 /\ Size \in Nat
  BY DEF Tiles, Size
<1>2. p.from \in 0 .. Size /\ p.to \in 0 .. Size /\ p.from <= p.to
  BY DEF Tiles
<1>3. /\ W \in Seq(Symbols)
      /\ IsMask(p) => Len(W) = 1 /\ W[1] = Mark
      /\ ~IsMask(p) => /\ Len(W) = p.to - p.from
                       /\ \A k \in 1 .. p.to - p.from : W[k] = text[p.from + k]
  <2> HIDE DEF p
  <2> QED BY <1>2, ShownFacts
<1>4. V \in Seq(Symbols)
  BY DEF Reads
<1> HIDE DEF p, W
<1>5. /\ U \in Seq(Symbols) /\ Len(U) = Len(V) + Len(W) /\ Len(V) \in Nat /\ Len(W) \in Nat
      /\ \A k \in 1 .. Len(V) : U[k] = V[k]
      /\ \A k \in Len(V) + 1 .. Len(V) + Len(W) : U[k] = W[k - Len(V)]
  BY <1>3, <1>4, ConcatFacts
<1> HIDE DEF U
<1>20. Len(U) = Len(V) + Len(W) /\ Len(V) \in Nat /\ Len(W) \in Nat
  BY <1>5
<1>21. IsMask(p) => Len(W) = 1
  BY <1>3
<1>22. ~IsMask(p) => Len(W) = p.to - p.from
  BY <1>3
<1>6. ASSUME IsMask(p) PROVE Len(U) >= 1 /\ U[Len(U)] = Mark
  <2>0. Len(W) = 1
    BY <1>6, <1>21
  <2>1. Len(U) = Len(V) + 1 /\ Len(V) + 1 \in Len(V) + 1 .. Len(V) + Len(W)
    BY <1>20, <2>0
  <2>2. U[Len(V) + 1] = W[1]
    BY <1>5, <2>1
  <2> QED BY <1>3, <1>5, <1>6, <2>1, <2>2
<1> DEFINE c == p.from
           d == p.to
<1>23. c \in Nat /\ d \in Nat /\ c <= d /\ d <= Size
  BY <1>1, <1>2
<1>7. ASSUME NEW s \in Nat, NEW l \in Nat \ {0}, Unmarked(U, s, l)
      PROVE  Read(U, s, l, n)
  <2>1. s + l <= Len(U) /\ \A k \in 1 .. l : U[s + k] # Mark
    BY <1>7 DEF Unmarked
  <2>2. CASE s + l <= Len(V)
    <3>1. \A k \in 1 .. l : s + k \in 1 .. Len(V) /\ U[s + k] = V[s + k]
      BY <1>5, <2>2
    <3>2. Unmarked(V, s, l)
      BY <2>1, <2>2, <3>1 DEF Unmarked
    <3>3. Read(V, s, l, n - 1)
      BY <3>2 DEF Reads
    <3>4. PICK m \in 1 .. n - 1, a \in 0 .. Size :
              /\ ~IsMask(out[m]) /\ out[m].from <= a /\ a + l <= out[m].to
              /\ \A k \in 1 .. l : V[s + k] = text[a + k]
      BY <3>3 DEF Read
    <3>5. m \in 1 .. n /\ m # n
      BY <1>1
    <3>6. \A k \in 1 .. l : U[s + k] = text[a + k]
      BY <3>1, <3>4
    <3> QED BY <3>4, <3>5, <3>6 DEF Read
  <2>3. CASE s + l > Len(V)
    <3>1. ~IsMask(p)
      <4> SUFFICES ASSUME IsMask(p) PROVE FALSE
        OBVIOUS
      <4>1. Len(U) = s + l /\ l \in 1 .. l
        <5>1. Len(W) = 1 /\ s + l <= Len(U)
          BY <1>21, <2>1
        <5> QED BY <1>20, <2>3, <5>1
      <4> QED BY <1>6, <2>1, <4>1
    <3>2. s >= Len(V)
      <4> SUFFICES ASSUME s < Len(V) PROVE FALSE
        BY <1>5
      <4>1. n > 1
        <5>1. n = 1 => Len(V) = 0
          OBVIOUS
        <5> QED BY <1>1, <5>1
      <4>2. IsMask(out[n - 1]) /\ n - 1 >= 1
        BY <1>1, <3>1, <4>1 DEF p, GapAfterMask
      <4>3. V[Len(V)] = Mark
        BY <4>2 DEF Reads
      <4>4. Len(V) - s \in 1 .. l /\ s + (Len(V) - s) = Len(V) /\ Len(V) \in 1 .. Len(V)
        BY <1>5, <2>3
      <4>5. U[Len(V)] # Mark
        BY <2>1, <4>4
      <4> QED BY <1>5, <4>3, <4>4, <4>5
    <3>8. Len(W) = d - c /\ s + l <= Len(U)
      BY <1>22, <2>1, <3>1
    <3>9. s + l <= Len(V) + (d - c)
      BY <1>20, <3>8
    <3> HIDE DEF c, d
    <3> DEFINE a == c + (s - Len(V))
    <3>3. a \in 0 .. Size /\ c <= a /\ a + l <= d /\ a + (Len(U) - s) = d
      BY <1>1, <1>20, <1>23, <3>2, <3>8, <3>9
    <3>4. ASSUME NEW k \in 1 .. l PROVE U[s + k] = text[a + k]
      <4>1. /\ s + k \in Len(V) + 1 .. Len(V) + Len(W)
            /\ (s + k) - Len(V) \in 1 .. d - c
            /\ c + ((s + k) - Len(V)) = a + k
        BY <1>20, <1>23, <3>2, <3>8, <3>9
      <4>2. U[s + k] = W[(s + k) - Len(V)]
        BY <1>5, <4>1
      <4>3. W[(s + k) - Len(V)] = text[c + ((s + k) - Len(V))]
        BY <1>3, <3>1, <4>1 DEF c, d
      <4> HIDE DEF a
      <4> QED BY <4>1, <4>2, <4>3
    <3> HIDE DEF a
    <3>5. n \in 1 .. n
      BY <1>1
    <3> QED BY <3>1, <3>3, <3>4, <3>5 DEF Read, p, c, d
  <2> QED BY <1>5, <2>2, <2>3
<1>8. Reads(U, n)
  BY <1>5, <1>6, <1>7 DEF Reads, p
<1> QED BY <1>8 DEF U, W, p

\* All the output is read that way.
LEMMA VisibleReads ==
  ASSUME text \in Seq(Bytes), Report, NEW M, Blocks(M), Pieced(out, M)
  PROVE  Reads(Visible, Len(out))
<1> DEFINE N == Len(out)
           g == Showing
           S == {n \in 0 .. N : Reads(g[n], n)}
<1>1. Size \in Nat /\ ScannedBytes \in Nat /\ ScannedBytes <= Size
  BY DataFacts
<1>2. Tiles(out)
  BY <1>1, TilingFacts
<1>3. N \in Nat
  BY <1>2 DEF Tiles
<1>4. \A n \in 1 .. N : Shown(out[n]) \in Seq(Symbols)
  <2> TAKE n \in 1 .. N
  <2> DEFINE p == out[n]
  <2>1. p.from \in 0 .. Size /\ p.to \in 0 .. Size /\ p.from <= p.to
    BY <1>2 DEF Tiles
  <2> HIDE DEF p
  <2>2. Shown(p) \in Seq(Symbols)
    BY <2>1, ShownFacts
  <2> QED BY <2>2 DEF p
<1>5. /\ Visible = g[N] /\ g[0] = <<>>
      /\ \A n \in 0 + 1 .. N : g[n] = g[n - 1] \o Shown(out[n])
  BY <1>3, <1>4, ShowingTurns
<1> HIDE DEF g
<1>6. 0 \in S
  <2>1. Reads(<<>>, 0)
    <3>1. \A s \in Nat, l \in Nat \ {0} : ~(s + l <= Len(<<>>))
      OBVIOUS
    <3>2. <<>> \in Seq(Symbols)
      OBVIOUS
    <3> QED BY <3>1, <3>2 DEF Reads, Unmarked
  <2> QED BY <1>3, <1>5, <2>1
<1>7. ASSUME NEW n \in 0 .. N - 1, n \in S PROVE n + 1 \in S
  <2>1. /\ n + 1 \in 1 .. Len(out) /\ n + 1 \in 0 + 1 .. N /\ n + 1 \in 0 .. N
        /\ (n + 1) - 1 = n /\ (n + 1 = 1 => n = 0)
    BY <1>3
  <2>2. Reads(g[n], (n + 1) - 1)
    BY <1>7, <2>1
  <2>3. g[n + 1] = g[n] \o Shown(out[n + 1])
    BY <1>5, <2>1
  <2>4. n + 1 = 1 => Len(g[n]) = 0
    BY <1>5, <2>1
  <2>5. GapAfterMask(n + 1)
    BY <1>1, <2>1, Alternate DEF GapAfterMask
  <2>6. Reads(g[n] \o Shown(out[n + 1]), n + 1)
    BY <1>2, <2>1, <2>2, <2>4, <2>5, ReadNext
  <2> QED BY <2>1, <2>3, <2>6
<1> HIDE DEF S
<1>8. \A n \in 0 .. N : n \in S
  <2>1. 0 \in Nat
    OBVIOUS
  <2> HIDE DEF N
  <2> QED BY <1>3, <1>6, <1>7, <2>1, EveryCount
<1>9. N \in S
  BY <1>3, <1>8
<1> QED BY <1>5, <1>9 DEF S

\* A span lies in a span of finding f, or of finding k.
HoldsIn(f, t) == \E p \in ToSet(f.spans) : Inside(t, p)
Holds(k, t) == HoldsIn(findings[k], t)

\* So it lies in a span of the report.
LEMMA HeldSpan ==
  ASSUME NEW k \in DOMAIN findings, NEW t, Holds(k, t)
  PROVE  \E u \in AllSpans : u.finding = k /\ Inside(t, u)
<1>1. PICK p \in ToSet(findings[k].spans) : Inside(t, p)
  BY DEF Holds, HoldsIn
<1> DEFINE u == [from |-> p.from, to |-> p.to, finding |-> k]
<1>2. u \in AllSpans
  BY <1>1 DEF AllSpans, SpansOf
<1>3. u.finding = k /\ Inside(t, u)
  BY <1>1 DEF Inside
<1> HIDE DEF u
<1> QED BY <1>2, <1>3

\* An occurrence of a value located everywhere begins in a span of its finding.
LEMMA OccurrenceHeld ==
  ASSUME text \in Seq(Bytes), Report, NEW v \in Seq(Bytes), Len(v) >= 1, NEW a \in Starts(v, 0),
         NEW k \in DOMAIN findings, \A t \in ToSet(LocateAll(v)) : Holds(k, t)
  PROVE  \E u \in AllSpans : u.finding = k /\ u.from <= a /\ a < u.to
<1>0. ScannedBytes \in Nat /\ 0 \in 0 .. ScannedBytes
  BY DataFacts
<1>1. PICK t \in ToSet(LocateAll(v)) : t \in SpanSet /\ t.from <= a /\ a < t.to
  BY OccurrencesLocated
<1>2. PICK u \in AllSpans : u.finding = k /\ Inside(t, u)
  BY HeldSpan
<1>3. u.from \in Nat /\ u.to \in Nat
  BY <1>0, AllSpansFacts DEF NonEmpty
<1>4. t.from \in Nat /\ t.to \in Nat
  BY <1>0, <1>1, SpanFacts DEF NonEmpty
<1>5. a \in Nat
  BY <1>0, StartsFacts
<1> QED BY <1>1, <1>2, <1>3, <1>4, <1>5 DEF Inside

\* So none is left to see in what was scanned: a run that ends before the unscanned
\* tail of the output comes from a stretch of the text that was scanned.
LEMMA NoOccurrence ==
  ASSUME text \in Seq(Bytes), Report, NEW M, Blocks(M), Pieced(out, M),
         NEW v \in Seq(Bytes), Len(v) >= 1, NEW k \in DOMAIN findings,
         \A t \in ToSet(LocateAll(v)) : Holds(k, t),
         NEW s \in Nat, s + Len(v) <= Len(Visible) - Unscanned
  PROVE  ~OccursAt(v, s, Visible)
<1> DEFINE V == Visible
           l == Len(v)
<1>0. /\ Size \in Nat /\ ScannedBytes \in Nat /\ ScannedBytes <= Size
      /\ Data \in Seq(Bytes) /\ Len(Data) = ScannedBytes
      /\ \A m \in 1 .. ScannedBytes : Data[m] = text[m]
  BY DataFacts
<1>1. Size \in Nat /\ Tiles(out) /\ Reads(V, Len(out))
  BY <1>0, TilingFacts, VisibleReads
<1>2. V \in Seq(Symbols) /\ Len(V) \in Nat /\ l \in Nat \ {0}
  BY <1>1 DEF Reads
<1>20. s + l <= Len(V) - (Size - ScannedBytes)
  BY DEF Unscanned
<1> HIDE DEF V
<1> SUFFICES ASSUME OccursAt(v, s, V) PROVE FALSE
  BY DEF V
<1>3. s + l <= Len(V) /\ \A m \in 1 .. l : V[s + m] = v[m]
  BY <1>2, OccursFacts
<1>4. \A m \in 1 .. l : v[m] \in Bytes
  BY <1>2
<1>5. Unmarked(V, s, l)
  BY <1>3, <1>4, MarkAssumption DEF Unmarked
<1>6. Read(V, s, l, Len(out))
  BY <1>1, <1>2, <1>5 DEF Reads
<1>7. PICK n \in 1 .. Len(out), a \in 0 .. Size :
          /\ ~IsMask(out[n]) /\ out[n].from <= a /\ a + l <= out[n].to
          /\ n = Len(out) => a + (Len(V) - s) = out[n].to
          /\ \A m \in 1 .. l : V[s + m] = text[a + m]
  BY <1>6 DEF Read
<1>8. out[n].from \in 0 .. Size /\ out[n].to \in 0 .. Size
  BY <1>1 DEF Tiles
<1>9. a \in Starts(v, 0)
  <2>1. a + l <= ScannedBytes
    <3>1. CASE n = Len(out)
      <4>1. a + (Len(V) - s) = Size
        BY <1>1, <1>7, <3>1 DEF Tiles
      <4> QED BY <1>0, <1>2, <1>20, <4>1
    <3>2. CASE n # Len(out)
      <4>1. out[n].to <= ScannedBytes /\ out[n].to \in Nat
        BY <1>0, <1>7, <3>2, GapScanned
      <4> QED BY <1>0, <1>2, <1>7, <4>1
    <3> QED BY <3>1, <3>2
  <2>2. a \in Nat /\ a \in 0 .. ScannedBytes
    BY <1>0, <1>2, <2>1
  <2>3. \A m \in 1 .. l : Data[a + m] = v[m]
    <3> TAKE m \in 1 .. l
    <3>1. a + m \in 1 .. ScannedBytes
      BY <1>0, <1>2, <2>1, <2>2
    <3> QED BY <1>0, <1>3, <1>7, <3>1
  <2>4. OccursAt(v, a, Data)
    BY <1>0, <1>2, <2>1, <2>2, <2>3, OccursFacts
  <2> QED BY <2>2, <2>4 DEF Starts
<1>10. PICK u \in AllSpans : u.from <= a /\ a < u.to
  BY <1>9, OccurrenceHeld
<1>11. a \in Covered(AllSpans)
  <2>1. u.from \in Nat /\ u.to \in Nat
    BY <1>0, AllSpansFacts DEF NonEmpty
  <2>2. a \in u.from .. u.to - 1
    BY <1>10, <2>1
  <2> QED BY <2>2 DEF Covered
<1>12. a \in out[n].from .. out[n].to - 1
  BY <1>1, <1>2, <1>7, <1>8
<1> QED BY <1>1, <1>7, <1>11, <1>12 DEF Tiles

-----------------------------------------------------------------------------
(* What masks hide and what they are called.                               *)

\* A mask of the output is one of M.
LEMMA MaskOf ==
  ASSUME Size \in Nat, ScannedBytes \in Nat, ScannedBytes <= Size, Report,
         NEW M, Blocks(M), NEW P, Pieced(P, M),
         NEW n \in 1 .. Len(P), IsMask(P[n])
  PROVE  \E q \in 1 .. Len(M) : P[n] = Masked(M[q])
<1> DEFINE L == Len(M)
<1>1. L \in Nat /\ Len(P) = 2 * L + 1
  BY DEF Blocks, Pieced
<1>2. \A q \in 1 .. L + 1 : ~IsMask(P[2 * q - 1])
  BY PieceFacts DEF Pieced
<1> HIDE DEF L
<1>3. PICK q \in 1 .. L : n = 2 * q
  BY <1>1, <1>2, Parity
<1> QED BY <1>3 DEF Pieced, L

\* Every mask of M is in the output.
LEMMA MaskAt ==
  ASSUME Size \in Nat, ScannedBytes \in Nat, ScannedBytes <= Size, Report,
         NEW M, Blocks(M), NEW P, Pieced(P, M), NEW q \in 1 .. Len(M)
  PROVE  \E n \in DOMAIN P : P[n] = Masked(M[q])
<1>1. Len(M) \in Nat /\ DOMAIN P = 1 .. 2 * Len(M) + 1
  BY DEF Blocks, Pieced
<1>2. 2 * q \in DOMAIN P
  BY <1>1
<1> QED BY <1>2 DEF Pieced

\* A mask names what it hides.
LEMMA MaskNames ==
  ASSUME Size \in Nat, ScannedBytes \in Nat, ScannedBytes <= Size, Report,
         NEW M, Blocks(M), NEW P, Pieced(P, M),
         NEW n \in 1 .. Len(P), IsMask(P[n])
  PROVE  /\ IsInjective(P[n].labels)
         /\ ToSet(P[n].labels) = {Label(findings[s.finding]) : s \in
               {u \in AllSpans : P[n].from <= u.from /\ u.to <= P[n].to}}
<1>1. PICK q \in 1 .. Len(M) : P[n] = Masked(M[q])
  BY MaskOf
<1> DEFINE p == P[n]
           m == M[q]
<1>2. p.from = m.from /\ p.to = m.to /\ p.labels = m.labels
  BY <1>1, PieceFacts
<1>3. IsInjective(m.labels) /\ ToSet(m.labels) = {OwnLabel(s) : s \in Within(AllSpans, m)}
  BY DEF Blocks, Names
<1> HIDE DEF p, m
<1>4. Within(AllSpans, m) = {u \in AllSpans : p.from <= u.from /\ u.to <= p.to}
  BY <1>2 DEF Within, Inside
<1>5. {OwnLabel(s) : s \in Within(AllSpans, m)} = {Label(findings[s.finding]) : s \in Within(AllSpans, m)}
  BY DEF OwnLabel
<1>6. ToSet(p.labels) = {Label(findings[s.finding]) : s \in
         {u \in AllSpans : p.from <= u.from /\ u.to <= p.to}}
  BY <1>2, <1>3, <1>4, <1>5
<1>7. IsInjective(p.labels)
  BY <1>2, <1>3
<1> QED BY <1>6, <1>7 DEF p

\* A span a finding's spans hold lies in a mask.
LEMMA HeldMasked ==
  ASSUME Size \in Nat, ScannedBytes \in Nat, ScannedBytes <= Size, Report,
         NEW M, Blocks(M), NEW P, Pieced(P, M),
         NEW k \in DOMAIN findings, NEW t, t.from \in Nat, t.to \in Nat, Holds(k, t)
  PROVE  \E n \in DOMAIN P : IsMask(P[n]) /\ P[n].from <= t.from /\ t.to <= P[n].to
<1>1. PICK u \in AllSpans : Inside(t, u)
  BY HeldSpan
<1>2. PICK q \in 1 .. Len(M) : Inside(u, M[q])
  BY DEF Blocks
<1>3. PICK n \in DOMAIN P : P[n] = Masked(M[q])
  BY MaskAt
<1> DEFINE p == P[n]
           m == M[q]
<1>4. IsMask(p) /\ p.from = m.from /\ p.to = m.to
  BY <1>3, PieceFacts
<1>5. u.from \in Nat /\ u.to \in Nat /\ m.from \in Nat /\ m.to \in Nat
  BY AllSpansFacts DEF Blocks, NonEmpty
<1>6. m.from <= u.from /\ u.to <= m.to /\ u.from <= t.from /\ t.to <= u.to
  BY <1>1, <1>2 DEF Inside
<1> HIDE DEF p, m
<1>7. p.from <= t.from /\ t.to <= p.to
  BY <1>4, <1>5, <1>6
<1> QED BY <1>4, <1>7 DEF p

\* A span that no other overlaps or touches has a mask of its own.
LEMMA OwnMask ==
  ASSUME Size \in Nat, ScannedBytes \in Nat, ScannedBytes <= Size, Report,
         NEW M, Blocks(M), NEW s \in Nat, NEW e \in Nat, s < e,
         \A u \in AllSpans : (u.from = s /\ u.to = e) \/ u.to < s \/ u.from > e,
         NEW u \in AllSpans, u.from <= s, s < u.to
  PROVE  u.from = s /\ u.to = e /\ \E q \in 1 .. Len(M) :
            M[q].from = s /\ M[q].to = e /\ OwnLabel(u) \in ToSet(M[q].labels)
<1>1. \A w \in AllSpans : w.from \in Nat /\ w.to \in Nat
  BY AllSpansFacts DEF NonEmpty
<1>2. u.from = s /\ u.to = e
  BY <1>1
<1>3. PICK q \in 1 .. Len(M) : Inside(u, M[q])
  BY DEF Blocks
<1> DEFINE a == M[q].from
           b == M[q].to
<1>4. a \in Nat /\ b \in Nat /\ \A c \in a .. b - 1 : \E w \in AllSpans : w.from <= c /\ c < w.to
  BY DEF Blocks, NonEmpty
<1>5. a <= s /\ e <= b
  BY <1>2, <1>3 DEF Inside
<1>6. OwnLabel(u) \in ToSet(M[q].labels)
  <2>1. u \in Within(AllSpans, M[q])
    BY <1>3 DEF Within
  <2> QED BY <2>1 DEF Blocks, Names
<1> HIDE DEF a, b
<1>7. a = s
  <2> SUFFICES ASSUME a # s PROVE FALSE
    OBVIOUS
  <2>1. s - 1 \in a .. b - 1
    BY <1>4, <1>5
  <2>2. PICK w \in AllSpans : w.from <= s - 1 /\ s - 1 < w.to
    BY <1>4, <2>1
  <2> QED BY <1>1, <2>2
<1>8. b = e
  <2> SUFFICES ASSUME b # e PROVE FALSE
    OBVIOUS
  <2>1. e \in a .. b - 1
    BY <1>4, <1>5
  <2>2. PICK w \in AllSpans : w.from <= e /\ e < w.to
    BY <1>4, <2>1
  <2> QED BY <1>1, <2>2
<1> QED BY <1>2, <1>6, <1>7, <1>8 DEF a, b

\* Such a copy has a mask of its own, with the fingerprint of its value.
LEMMA CopyTagged ==
  ASSUME text \in Seq(Bytes), Report, NEW M, Blocks(M), NEW P, Pieced(P, M),
         NEW v \in Seq(Bytes), Len(v) >= 1, NEW k \in DOMAIN findings,
         \A t \in ToSet(LocateAll(v)) : Holds(k, t),
         NEW s \in 0 .. ScannedBytes, OccursAt(v, s, Data), NEW e, e = s + Len(v),
         \A u \in AllSpans : (u.from = s /\ u.to = e) \/ u.to < s \/ u.from > e
  PROVE  \E n \in DOMAIN P : /\ P[n].from = s /\ P[n].to = e
                             /\ P[n].tag = Fingerprint(v) /\ Label(findings[k]) \in ToSet(P[n].labels)
<1>0. /\ Size \in Nat /\ ScannedBytes \in Nat /\ ScannedBytes <= Size /\ Size = Len(text)
      /\ Data \in Seq(Bytes) /\ Len(Data) = ScannedBytes
      /\ \A b \in 1 .. ScannedBytes : Data[b] = text[b]
  BY DataFacts DEF Size
<1>1. Size \in Nat /\ s \in Nat /\ e \in Nat /\ s < e
  BY <1>0
<1>2. s \in Starts(v, 0)
  BY DEF Starts
<1>3. PICK u \in AllSpans : u.finding = k /\ u.from <= s /\ s < u.to
  BY <1>2, OccurrenceHeld
<1>4. PICK q \in 1 .. Len(M) : M[q].from = s /\ M[q].to = e /\ OwnLabel(u) \in ToSet(M[q].labels)
  <2>1. Size \in Nat /\ ScannedBytes \in Nat /\ ScannedBytes <= Size
    BY <1>0
  <2>2. s \in Nat /\ e \in Nat /\ s < e /\ u.from <= s /\ s < u.to
    BY <1>1, <1>3
  <2> QED BY ONLY <2>1, <2>2, Report, Blocks(M), u \in AllSpans, OwnMask,
             \A w \in AllSpans : (w.from = s /\ w.to = e) \/ w.to < s \/ w.from > e
<1>5. PICK n \in DOMAIN P : P[n] = Masked(M[q])
  BY <1>0, MaskAt
<1> DEFINE p == P[n]
           m == M[q]
<1>6. p.from = m.from /\ p.to = m.to /\ p.labels = m.labels /\ p.tag = Fingerprint(CoveredBytes(m))
  BY <1>0, <1>5, PieceFacts
<1>7. CoveredBytes(m) = v
  <2>1. CoveredBytes(m) = SubSeq(text, s + 1, s + Len(v))
    BY <1>4 DEF CoveredBytes
  <2>2. s + Len(v) <= ScannedBytes /\ SubSeq(Data, s + 1, s + Len(v)) = v
    BY <1>0 DEF OccursAt
  <2>3. SubSeq(text, s + 1, s + Len(v)) = [b \in 1 .. Len(v) |-> text[s + b]]
    BY <1>0, <1>1, <2>2
  <2>4. SubSeq(Data, s + 1, s + Len(v)) = [b \in 1 .. Len(v) |-> Data[s + b]]
    BY <1>0, <1>1, <2>2
  <2>5. \A b \in 1 .. Len(v) : text[s + b] = Data[s + b]
    BY <1>0, <1>1, <2>2
  <2> QED BY <2>1, <2>2, <2>3, <2>4, <2>5
<1>8. OwnLabel(u) = Label(findings[k])
  BY <1>3 DEF OwnLabel
<1> HIDE DEF p
<1>9. p.from = s /\ p.to = e /\ p.tag = Fingerprint(v) /\ Label(findings[k]) \in ToSet(p.labels)
  BY <1>4, <1>6, <1>7, <1>8
<1> QED BY <1>9 DEF p

\* A byte is masked and its neighbour, of the same code point, is not.
SplitAt(k) ==
    k \in 1 .. Size - 1 /\ text[k] = Lead /\ (k - 1 \in Covered(AllSpans)) # (k \in Covered(AllSpans))

\* A gap that does not decode is cut inside a code point.
LEMMA SplitFacts ==
  ASSUME text \in Seq(Bytes), ValidUTF8(text), Report, NEW M, Blocks(M),
         NEW P, Pieced(P, M), ~Decodes(P)
  PROVE  CutsCodePoint
<1> DEFINE L == Len(M)
<1> SUFFICES \E k : SplitAt(k)
  BY DEF SplitAt, CutsCodePoint
<1>1. Size \in Nat /\ Size = Len(text) /\ ScannedBytes \in Nat /\ ScannedBytes <= Size
  BY DataFacts DEF Size
<1>2. PICK n \in DOMAIN P : ~IsMask(P[n]) /\ ~ValidUTF8(BytesOf(P[n]))
  BY DEF Decodes
<1>3. L \in Nat /\ n \in 1 .. 2 * L + 1 /\ \A r \in 1 .. L : IsMask(P[2 * r])
  <2>1. \A r \in 1 .. L : P[2 * r] = Masked(M[r]) /\ IsMask(Masked(M[r]))
    BY <1>1, PieceFacts DEF Pieced
  <2>2. L \in Nat /\ DOMAIN P = 1 .. 2 * L + 1
    BY DEF Pieced, Blocks
  <2> QED BY <2>1, <2>2
<1> HIDE DEF L
<1>4. PICK q \in 1 .. L + 1 : n = 2 * q - 1
  BY <1>2, <1>3, Parity
<1> DEFINE p == KeptBefore(M, q)
           a == p.from
           b == p.to
           W == SubSeq(text, a + 1, b)
<1>5. P[n] = p
  BY <1>4 DEF Pieced, L
<1>6. p.from = CursorAt(M, q) /\ p.to = IF q > Len(M) THEN Size ELSE M[q].from
  BY <1>1, PieceFacts DEF L
<1>7. ~ValidUTF8(W)
  BY <1>2, <1>5 DEF BytesOf
<1> HIDE DEF p
<1>8. /\ a \in 0 .. Size /\ b \in 0 .. Size /\ a <= b
      /\ \A c \in a .. b - 1 : c \notin Covered(AllSpans)
      /\ a > 0 => a - 1 \in Covered(AllSpans)
      /\ b < Size => b \in Covered(AllSpans)
  BY <1>1, <1>6, GapFacts DEF L
<1> HIDE DEF a, b
<1>9. Len(W) = b - a /\ \A k \in 1 .. b - a : W[k] = text[a + k]
  <2>1. b \in a .. Size
    BY <1>1, <1>8
  <2> QED BY <1>8, <2>1, StretchFacts
<1> HIDE DEF W
<1>10. PICK k \in 1 .. b - a :
          \/ W[k] = Lead /\ ~(k < b - a /\ W[k + 1] = Cont)
          \/ W[k] = Cont /\ ~(k > 1 /\ W[k - 1] = Lead)
  BY <1>7, <1>9 DEF ValidUTF8
<1>11. a + k \in 1 .. Len(text) /\ W[k] = text[a + k] /\ k \in Nat /\ a \in Nat /\ b \in Nat
  BY <1>1, <1>8, <1>9
<1>12. CASE W[k] = Lead /\ ~(k < b - a /\ W[k + 1] = Cont)
  <2>1. a + k < Size /\ text[a + k + 1] = Cont
    BY <1>1, <1>11, <1>12 DEF ValidUTF8
  <2>2. k = b - a
    <3> SUFFICES ASSUME k < b - a PROVE FALSE
      BY <1>8, <1>11
    <3>1. k + 1 \in 1 .. b - a /\ a + (k + 1) = a + k + 1
      BY <1>8, <1>11
    <3>2. W[k + 1] = text[a + (k + 1)]
      BY <1>9, <3>1
    <3> QED BY <1>12, <2>1, <3>1, <3>2
  <2>3. a + k = b /\ b < Size /\ b - 1 \in a .. b - 1 /\ b \in 1 .. Size - 1
    BY <1>1, <1>8, <1>11, <2>1, <2>2
  <2>4. SplitAt(b)
    BY <1>8, <1>11, <1>12, <2>3 DEF SplitAt
  <2> QED BY <2>4
<1>13. CASE W[k] = Cont /\ ~(k > 1 /\ W[k - 1] = Lead)
  <2>1. a + k > 1 /\ text[(a + k) - 1] = Lead
    BY <1>11, <1>13 DEF ValidUTF8
  <2>2. k = 1
    <3> SUFFICES ASSUME k > 1 PROVE FALSE
      BY <1>11
    <3>1. k - 1 \in 1 .. b - a /\ a + (k - 1) = (a + k) - 1
      BY <1>8, <1>11
    <3>2. W[k - 1] = text[a + (k - 1)]
      BY <1>9, <3>1
    <3> QED BY <1>13, <2>1, <3>1, <3>2
  <2>3. a > 0 /\ a \in a .. b - 1 /\ a \in 1 .. Size - 1 /\ (a + k) - 1 = a
    BY <1>1, <1>8, <1>11, <2>1, <2>2
  <2>4. SplitAt(a)
    BY <1>8, <2>1, <2>3 DEF SplitAt
  <2> QED BY <2>4
<1> QED BY <1>10, <1>12, <1>13

\* Every byte is in some piece.
LEMMA PieceAt ==
  ASSUME Size \in Nat, NEW P, Tiles(P), NEW b \in 0 .. Size - 1
  PROVE  \E n \in 1 .. Len(P) : P[n].from <= b /\ b < P[n].to
<1> DEFINE S == {n \in 1 .. Len(P) : b < P[n].to}
           n == First(S)
<1>1. Len(P) \in Nat \ {0} /\ P[1].from = 0 /\ P[Len(P)].to = Size
  BY DEF Tiles
<1>2. \A m \in 1 .. Len(P) : P[m].from \in Nat /\ P[m].to \in Nat /\ (m > 1 => P[m].from = P[m - 1].to)
  BY DEF Tiles
<1>3. S \in SUBSET Nat /\ Len(P) \in S
  BY <1>1
<1> HIDE DEF S
<1>4. n \in S /\ \A m \in S : n <= m
  BY <1>3, FirstFacts
<1> HIDE DEF n
<1>5. n \in 1 .. Len(P) /\ b < P[n].to
  BY <1>4 DEF S
<1>6. P[n].from <= b
  <2>1. CASE n = 1
    BY <1>1, <2>1
  <2>2. CASE n # 1
    <3>1. n - 1 \in 1 .. Len(P) /\ n > 1 /\ ~(n <= n - 1)
      BY <1>1, <1>5, <2>2
    <3>2. n - 1 \notin S
      BY <1>4, <3>1
    <3>3. ~(b < P[n - 1].to)
      BY <3>1, <3>2 DEF S
    <3> QED BY <1>2, <1>5, <3>1, <3>3
  <2> QED BY <2>1, <2>2
<1> QED BY <1>5, <1>6

\* A splice that decodes cuts no code point: the piece kept on one side of the cut
\* would end with its first byte or begin with its second.
LEMMA UncutFacts ==
  ASSUME text \in Seq(Bytes), ValidUTF8(text), NEW P, Tiles(P), Decodes(P)
  PROVE  ~CutsCodePoint
<1> SUFFICES ASSUME NEW k \in 1 .. Size - 1, text[k] = Lead,
                    (k - 1 \in Covered(AllSpans)) # (k \in Covered(AllSpans))
             PROVE  FALSE
  BY DEF CutsCodePoint
<1>1. Size \in Nat /\ Size = Len(text) /\ k \in 1 .. Len(text)
  BY DEF Size
<1>2. text[k + 1] = Cont
  BY <1>1 DEF ValidUTF8
<1>3. ASSUME NEW n \in 1 .. Len(P), ~IsMask(P[n])
      PROVE  LET a == P[n].from
                 b == P[n].to
             IN  /\ ValidUTF8(SubSeq(text, a + 1, b)) /\ a \in 0 .. Size /\ b \in a .. Size
                 /\ Len(SubSeq(text, a + 1, b)) = b - a
                 /\ \A m \in 1 .. b - a : SubSeq(text, a + 1, b)[m] = text[a + m]
                 /\ \A c \in a .. b - 1 : c \notin Covered(AllSpans)
  <2> DEFINE a == P[n].from
             b == P[n].to
  <2>1. a \in 0 .. Size /\ b \in 0 .. Size /\ a <= b /\ n \in DOMAIN P
    BY DEF Tiles
  <2>2. \A c \in a .. b - 1 : c \notin Covered(AllSpans)
    BY <1>3 DEF Tiles
  <2>3. ValidUTF8(SubSeq(text, a + 1, b))
    BY <1>3, <2>1 DEF Decodes, BytesOf
  <2> HIDE DEF a, b
  <2>4. b \in a .. Size
    BY <1>1, <2>1
  <2>5. /\ Len(SubSeq(text, a + 1, b)) = b - a
        /\ \A m \in 1 .. b - a : SubSeq(text, a + 1, b)[m] = text[a + m]
    BY <2>1, <2>4, StretchFacts
  <2> QED BY <2>1, <2>2, <2>3, <2>4, <2>5 DEF a, b
<1>4. \A n \in 1 .. Len(P) : \A c \in P[n].from .. P[n].to - 1 :
         IsMask(P[n]) <=> c \in Covered(AllSpans)
  BY DEF Tiles
<1>5. CASE k - 1 \notin Covered(AllSpans)
  <2>1. PICK n \in 1 .. Len(P) : P[n].from <= k - 1 /\ k - 1 < P[n].to
    <3>1. k - 1 \in 0 .. Size - 1
      BY <1>1
    <3> QED BY <1>1, <3>1, PieceAt
  <2> DEFINE a == P[n].from
             b == P[n].to
             W == SubSeq(text, a + 1, b)
  <2>2. a \in Nat /\ b \in Nat
    BY <1>1 DEF Tiles
  <2>3. ~IsMask(P[n])
    <3>1. k - 1 \in a .. b - 1
      BY <1>1, <2>1, <2>2
    <3> QED BY <1>4, <1>5, <3>1
  <2>4. /\ ValidUTF8(W) /\ Len(W) = b - a /\ \A m \in 1 .. b - a : W[m] = text[a + m]
        /\ \A c \in a .. b - 1 : c \notin Covered(AllSpans)
    BY <1>3, <2>3
  <2>5. a <= k - 1 /\ k - 1 < b
    BY <2>1
  <2> HIDE DEF a, b, W
  <2>6. b = k
    <3>1. k \notin a .. b - 1
      BY <1>5, <2>4
    <3> QED BY <1>1, <2>2, <2>5, <3>1
  <2>7. b - a \in 1 .. Len(W) /\ W[b - a] = Lead
    <3>1. b - a \in 1 .. b - a /\ a + (b - a) = k
      BY <1>1, <2>2, <2>5, <2>6
    <3> QED BY <2>4, <3>1
  <2>8. b - a < Len(W)
    BY <2>4, <2>7 DEF ValidUTF8
  <2> QED BY <2>2, <2>4, <2>8
<1>6. CASE k - 1 \in Covered(AllSpans)
  <2>0. k \notin Covered(AllSpans) /\ k \in 0 .. Size - 1
    BY <1>1, <1>6
  <2>1. PICK n \in 1 .. Len(P) : P[n].from <= k /\ k < P[n].to
    BY <1>1, <2>0, PieceAt
  <2> DEFINE a == P[n].from
             b == P[n].to
             W == SubSeq(text, a + 1, b)
  <2>2. a \in Nat /\ b \in Nat
    BY <1>1 DEF Tiles
  <2>3. ~IsMask(P[n])
    <3>1. k \in a .. b - 1
      BY <1>1, <2>1, <2>2
    <3> QED BY <1>4, <2>0, <3>1
  <2>4. /\ ValidUTF8(W) /\ Len(W) = b - a /\ \A m \in 1 .. b - a : W[m] = text[a + m]
        /\ \A c \in a .. b - 1 : c \notin Covered(AllSpans)
    BY <1>3, <2>3
  <2>5. a <= k /\ k < b
    BY <2>1
  <2> HIDE DEF a, b, W
  <2>6. a = k
    <3>1. k - 1 \notin a .. b - 1
      BY <1>6, <2>4
    <3> QED BY <1>1, <2>2, <2>5, <3>1
  <2>7. 1 \in 1 .. Len(W) /\ W[1] = Cont
    <3>1. 1 \in 1 .. b - a /\ a + 1 = k + 1
      BY <1>1, <2>2, <2>5, <2>6
    <3> QED BY <1>2, <2>4, <3>1
  <2>8. 1 > 1
    BY <2>4, <2>7 DEF ValidUTF8
  <2> QED BY <2>8
<1> QED BY <1>5, <1>6

-----------------------------------------------------------------------------
(* The inductive invariant.                                                *)

\* Candidate k of res is located everywhere.
Everywhere(res, k) ==
    /\ Len(Candidates(res)[k].value) >= MinCandidateLen
    /\ Candidates(res)[k].whole \/ Len(Candidates(res)[k].value) >= MinRepeatMaskLen

\* The spans of the current result hold every occurrence of each candidate looked
\* at and located everywhere, and every occurrence the result has claimed.
HeldBefore(res, n, S) ==
    \A k \in 1 .. Len(Candidates(res)) :
        k < n /\ Everywhere(res, k) => ToSet(LocateAll(Candidates(res)[k].value)) \subseteq S
ClaimedBy(r, C, S) == \A c \in 1 .. Len(C) : C[c].by = r => C[c].span \in S
CurrentInv ==
    pc = "locate" => /\ i \in 1 .. Len(results)
                     /\ HeldBefore(ResultAt, j, spans) /\ ClaimedBy(i, claims, spans)

\* Claims and findings are of results looked at.
OrderInv ==
    /\ \A c \in 1 .. Len(claims) : claims[c].by <= i /\ (pc = "result" => claims[c].by < i)
    /\ \A k \in 1 .. Len(findings) : findings[k].from < i

\* The spans of a finding hold the same of its result.
FindingOf(f, C) ==
    /\ \A v \in WholeValues(results[f.from]) : \A t \in ToSet(LocateAll(v)) : HoldsIn(f, t)
    /\ \A c \in 1 .. Len(C) : C[c].by = f.from => HoldsIn(f, C[c].span)
FindingsInv == \A k \in 1 .. Len(findings) : FindingOf(findings[k], claims)

\* The claims of a value by a detector among the first n of C, and the n-th in its place.
Made(C, n, det, v) == {m \in 1 .. n : C[m].det = det /\ C[m].value = v}
InOrder(C, c) ==
    /\ Len(C[c].value) >= 1
    /\ C[c].span = LocateAll(C[c].value)[Cardinality(Made(C, c - 1, C[c].det, C[c].value)) + 1]

\* The tracker N stands at the end of the last occurrence claimed.
Tracked(C, N, det, v) ==
    LET n == Cardinality(Made(C, Len(C), det, v)) IN
    /\ n \in 0 .. Len(LocateAll(v))
    /\ IF TrackerKey(det, v) \in DOMAIN N
       THEN n >= 1 /\ N[TrackerKey(det, v)] = LocateAll(v)[n].to
       ELSE n = 0
Tracking(C, N) == \A det \in Detectors, v \in Seq(Bytes) : Len(v) >= 1 => Tracked(C, N, det, v)
ClaimsInv == (\A c \in 1 .. Len(claims) : InOrder(claims, c)) /\ Tracking(claims, nextAt)

\* What is returned is a splice of a located report that cuts no code point, and
\* what is refused was not located or would have one cut.
OutInv ==
    /\ pc = "returned" => FullyRedactable /\ ~CutsCodePoint /\ \E M : Blocks(M) /\ Pieced(out, M)
    /\ pc = "refused" => ~FullyRedactable \/ CutsCodePoint

IInv == TypeOK /\ CurrentInv /\ OrderInv /\ FindingsInv /\ ClaimsInv /\ OutInv

-----------------------------------------------------------------------------
(* Types.                                                                  *)

\* The inputs.
LEMMA InputFacts ==
  ASSUME TypeOK
  PROVE  /\ text \in Seq(Bytes) /\ ValidUTF8(text) /\ results \in Seq(Result)
         /\ Size \in Nat /\ ScannedBytes \in Nat /\ ScannedBytes <= Size
         /\ Report /\ DOMAIN results = 1 .. Len(results) /\ Len(results) \in Nat
<1>1. text \in Seq(Bytes) /\ ValidUTF8(text)
  BY InputsAssumption DEF TypeOK
<1>2. results \in Seq(Result)
  BY InputsAssumption DEF TypeOK
<1>3. Size \in Nat /\ ScannedBytes \in Nat /\ ScannedBytes <= Size
  BY <1>1, DataFacts
<1>4. Report
  BY DEF TypeOK, Report
<1> QED BY <1>1, <1>2, <1>3, <1>4

\* The result and the candidate being looked at.
LEMMA IndexFacts ==
  ASSUME TypeOK
  PROVE  i \in Nat /\ j \in Nat
<1>1. i \in 1 .. Len(results) + 1 /\ j \in Nat \ {0}
  BY DEF TypeOK
<1>2. Len(results) \in Nat
  BY InputFacts
<1> QED BY <1>1, <1>2

\* They stay, and with them what depends on nothing else.
LEMMA InputsStay ==
  ASSUME [Next]_vars
  PROVE  text' = text /\ results' = results
BY DEF Next, vars, SkipResult, BeginResult, SkipCandidate, LocateEverywhere, LocateOnce,
       FinishResult, EndOfResults, ReturnUnchanged, RefuseUnlocated, RefuseSplit, ReturnMasked,
       Refuse, Return

\* What depends on the inputs alone stays with them.
LEMMA SameInputs ==
  ASSUME text' = text, results' = results
  PROVE  /\ Size' = Size /\ ScannedBytes' = ScannedBytes
         /\ SpanSet' = SpanSet /\ Finding' = Finding /\ Claim' = Claim
         /\ \A v : LocateAll(v)' = LocateAll(v)
<1>1. Size' = Size /\ Data' = Data /\ ScannedBytes' = ScannedBytes /\ SpanSet' = SpanSet
  BY DEF Size, Data, ScannedBytes, SpanSet
<1>2. Finding' = Finding /\ Claim' = Claim
  BY <1>1 DEF Finding, Claim
<1>3. ASSUME NEW v PROVE LocateAll(v)' = LocateAll(v)
  BY <1>1 DEF LocateAll, Search, Starts
<1> QED BY <1>1, <1>2, <1>3

\* The candidate being looked at.
LEMMA CandidateAtFacts ==
  ASSUME TypeOK, CurrentInv, AtCandidate
  PROVE  /\ i \in 1 .. Len(results) /\ ResultAt \in Result /\ ResultAt.det \in Detectors
         /\ j \in 1 .. Len(Candidates(ResultAt)) /\ CandidateAt \in Seq(Bytes)
         /\ ~TurnedAway(Candidates(ResultAt), j) =>
               Len(CandidateAt) >= MinCandidateLen /\ Len(CandidateAt) >= 1
<1>1. i \in 1 .. Len(results) /\ results \in Seq(Result)
  BY InputFacts DEF CurrentInv, AtCandidate
<1>2. ResultAt \in Result
  BY <1>1 DEF ResultAt
<1>3. ResultAt.det \in Detectors
  BY <1>2 DEF Result
<1> DEFINE list == Candidates(ResultAt)
<1>4. list \in Seq(Candidate)
  BY <1>2, CandidateFacts
<1> HIDE DEF list
<1>5. j \in 1 .. Len(list)
  <2>1. j \in Nat \ {0} /\ j <= Len(list)
    BY DEF TypeOK, AtCandidate, list
  <2> QED BY <1>4, <2>1
<1>6. list[j] \in Candidate
  BY <1>4, <1>5
<1>7. CandidateAt \in Seq(Bytes) /\ Len(CandidateAt) \in Nat
  <2>1. CandidateAt = list[j].value
    BY DEF CandidateAt, list
  <2> QED BY <1>6, <2>1 DEF Candidate
<1>8. ASSUME ~TurnedAway(list, j)
      PROVE  Len(CandidateAt) >= MinCandidateLen /\ Len(CandidateAt) >= 1
  <2>1. ~(Len(CandidateAt) < MinCandidateLen)
    BY <1>8 DEF TurnedAway, CandidateAt, list
  <2> QED BY <1>7, <2>1, LengthsAssumption
<1> QED BY <1>1, <1>2, <1>3, <1>5, <1>7, <1>8 DEF list

\* A claim and a finding.
LEMMA ClaimFacts ==
  ASSUME TypeOK, NEW c \in 1 .. Len(claims)
  PROVE  /\ claims[c] \in Claim /\ claims[c].by \in Nat /\ claims[c].value \in Seq(Bytes)
         /\ claims[c].det \in Detectors /\ claims[c].span \in SpanSet
         /\ claims[c].span.from \in Nat /\ claims[c].span.to \in Nat
<1>1. claims \in Seq(Claim)
  BY DEF TypeOK
<1>2. claims[c] \in Claim
  BY <1>1
<1>3. /\ claims[c].by \in DOMAIN results /\ claims[c].value \in Seq(Bytes)
      /\ claims[c].det \in Detectors /\ claims[c].span \in SpanSet
  BY <1>2 DEF Claim
<1>4. claims[c].by \in Nat
  BY <1>3, InputFacts
<1>5. claims[c].span.from \in Nat /\ claims[c].span.to \in Nat
  BY <1>3, InputFacts, SpanFacts DEF NonEmpty
<1> QED BY <1>2, <1>3, <1>4, <1>5

\* A finding has its type, and came from a result.
LEMMA FindingFacts ==
  ASSUME TypeOK, NEW k \in 1 .. Len(findings)
  PROVE  /\ findings[k] \in Finding /\ findings[k].from \in 1 .. Len(results)
         /\ findings[k].from \in Nat /\ findings[k].spans \in Seq(SpanSet)
         /\ results[findings[k].from] \in Result /\ k \in DOMAIN findings
<1>1. findings \in Seq(Finding) /\ results \in Seq(Result)
  BY InputFacts DEF Report
<1>2. findings[k] \in Finding /\ k \in DOMAIN findings
  BY <1>1
<1>3. findings[k].from \in DOMAIN results /\ findings[k].spans \in Seq(SpanSet)
  BY <1>2 DEF Finding
<1>4. findings[k].from \in 1 .. Len(results) /\ findings[k].from \in Nat
  BY <1>3, InputFacts
<1>5. results[findings[k].from] \in Result
  BY <1>1, <1>4
<1> QED BY <1>2, <1>3, <1>4, <1>5

\* What locate claims, and where it starts to look.
KeyAt == TrackerKey(ResultAt.det, CandidateAt)
NextFrom == IF KeyAt \in DOMAIN nextAt THEN nextAt[KeyAt] ELSE 0
NextSpan == SpanAt(First(Starts(CandidateAt, NextFrom)), CandidateAt)
NewClaim == [det |-> ResultAt.det, value |-> CandidateAt, span |-> NextSpan, by |-> i]
Claiming ==
    /\ Starts(CandidateAt, NextFrom) # {}
    /\ spans' = spans \cup {NextSpan}
    /\ nextAt' = [k \in DOMAIN nextAt \cup {KeyAt} |-> IF k = KeyAt THEN NextSpan.to ELSE nextAt[k]]
    /\ claims' = Append(claims, NewClaim)

\* locate either finds nothing left to claim or claims it.
LEMMA LocateOnceFacts ==
  ASSUME LocateOnce
  PROVE  /\ AtCandidate /\ ~TurnedAway(Candidates(ResultAt), j) /\ ~Repeated /\ j' = j + 1
         /\ UNCHANGED <<text, results, i, seen, findings, pc, out, why>>
         /\ UNCHANGED <<spans, nextAt, claims>> \/ Claiming
BY DEF LocateOnce, Claiming, KeyAt, NextFrom, NextSpan, NewClaim

\* A claim has the right type.
LEMMA NewClaimFacts ==
  ASSUME TypeOK, CurrentInv, AtCandidate, ~TurnedAway(Candidates(ResultAt), j),
         Starts(CandidateAt, NextFrom) # {}
  PROVE  /\ NextFrom \in 0 .. ScannedBytes /\ NextSpan \in SpanSet /\ NextSpan.to \in 0 .. ScannedBytes
         /\ NewClaim \in Claim
<1>1. text \in Seq(Bytes) /\ ScannedBytes \in Nat /\ DOMAIN results = 1 .. Len(results)
  BY InputFacts
<1>2. /\ CandidateAt \in Seq(Bytes) /\ Len(CandidateAt) >= 1 /\ ResultAt.det \in Detectors
      /\ i \in 1 .. Len(results)
  BY CandidateAtFacts
<1>3. NextFrom \in 0 .. ScannedBytes
  <2>1. nextAt \in [DOMAIN nextAt -> 0 .. ScannedBytes]
    BY DEF TypeOK
  <2>2. \A k \in DOMAIN nextAt : nextAt[k] \in 0 .. ScannedBytes
    BY <2>1
  <2>3. 0 \in 0 .. ScannedBytes
    BY <1>1
  <2> QED BY <2>2, <2>3, Zenon DEF NextFrom
<1> DEFINE v == CandidateAt
           a == NextFrom
           s == SpanAt(First(Starts(v, a)), v)
<1>4. s = NextSpan
  BY DEF NextSpan
<1>5. v \in Seq(Bytes) /\ Len(v) >= 1 /\ a \in 0 .. ScannedBytes /\ Starts(v, a) # {}
  BY <1>2, <1>3
<1> HIDE DEF v, a
<1>6. s \in SpanSet
  <2> HIDE DEF s
  <2>1. s = SpanAt(First(Starts(v, a)), v)
    BY DEF s
  <2> QED BY <1>1, <1>5, <2>1, MatchFacts
<1>7. NextSpan \in SpanSet
  BY <1>4, <1>6
<1>8. NextSpan.to \in 0 .. ScannedBytes
  BY <1>1, <1>7, SpanFacts
<1>9. NewClaim \in Claim
  BY <1>1, <1>2, <1>7 DEF NewClaim, Claim
<1> QED BY <1>3, <1>7, <1>8, <1>9

\* What a step does to the parts of the type invariant.
TypeParts ==
    /\ i \in 1 .. Len(results) + 1 /\ j \in Nat \ {0}
    /\ pc \in {"result", "locate", "report", "returned", "refused"}
    /\ why \in {"none", "unlocated", "split code point"}
Spaced(s) == \A m \in 2 .. Len(s) : s[m - 1].to < s[m].from
LocatedParts ==
    spans \subseteq SpanSet /\ nextAt \in [DOMAIN nextAt -> 0 .. ScannedBytes] /\ claims \in Seq(Claim)
FindingsParts == findings \in Seq(Finding) /\ \A k \in DOMAIN findings : Spaced(findings[k].spans)

\* The type invariant is its parts.
LEMMA TypeParted ==
  TypeOK <=> /\ text \in Texts /\ results \in ResultLists
             /\ TypeParts /\ LocatedParts /\ FindingsParts
BY DEF TypeOK, TypeParts, LocatedParts, FindingsParts, Spaced

\* The finding of a result.
NewFinding == [det |-> ResultAt.det, spans |-> Located, from |-> i]

\* A finding has its type, and its spans are spaced as mergeSpans leaves them.
LEMMA NewFindingFacts ==
  ASSUME TypeOK, CurrentInv, pc = "locate"
  PROVE  /\ NewFinding \in Finding /\ Spaced(NewFinding.spans)
         /\ NewFinding.from = i /\ i \in 1 .. Len(results)
<1>1. ScannedBytes \in Nat /\ DOMAIN results = 1 .. Len(results) /\ results \in Seq(Result)
  BY InputFacts
<1>2. i \in 1 .. Len(results)
  BY DEF CurrentInv
<1>3. ResultAt.det \in Detectors
  <2>1. ResultAt \in Result
    BY <1>1, <1>2 DEF ResultAt
  <2> QED BY <2>1 DEF Result
<1>4. spans \in SUBSET SpanSet
  BY DEF TypeOK
<1> DEFINE m == Located
<1>5. m \in Seq(SpanSet) /\ (m = <<>> \/ Apart(m))
  BY <1>1, <1>4, MergeSpansFacts DEF Located, Merged
<1> HIDE DEF m
<1>6. Spaced(m)
  <2>1. CASE m = <<>>
    <3>1. \A k \in 2 .. Len(m) : FALSE
      BY <2>1
    <3> QED BY <3>1 DEF Spaced
  <2>2. CASE Apart(m)
    <3>1. Len(m) \in Nat /\ \A k, l \in 1 .. Len(m) : k < l => m[k].to < m[l].from
      BY <2>2 DEF Apart
    <3>2. ASSUME NEW k \in 2 .. Len(m) PROVE m[k - 1].to < m[k].from
      <4>1. k - 1 \in 1 .. Len(m) /\ k \in 1 .. Len(m) /\ k - 1 < k
        BY <3>1
      <4> QED BY <3>1, <4>1
    <3> QED BY <3>2 DEF Spaced
  <2> QED BY <1>5, <2>1, <2>2
<1>7. NewFinding \in Finding
  BY <1>1, <1>2, <1>3, <1>5 DEF NewFinding, Finding, m
<1>8. NewFinding.spans = m /\ NewFinding.from = i
  BY DEF NewFinding, m
<1> QED BY <1>2, <1>6, <1>7, <1>8

\* Appending to a sequence.
LEMMA AppendFacts ==
  ASSUME NEW S, NEW s \in Seq(S), NEW e \in S
  PROVE  /\ Append(s, e) \in Seq(S) /\ Len(Append(s, e)) = Len(s) + 1 /\ Len(s) \in Nat
         /\ \A k \in 1 .. Len(s) : Append(s, e)[k] = s[k]
         /\ Append(s, e)[Len(s) + 1] = e
OBVIOUS

\* The next finding, if the result is no duplicate.
LEMMA FinishFacts ==
  ASSUME FinishResult
  PROVE  /\ pc = "locate" /\ j > Len(Candidates(ResultAt)) /\ i' = i + 1 /\ pc' = "result"
         /\ UNCHANGED <<text, results, j, spans, nextAt, out, why, claims>>
         /\ findings' = findings \/ findings' = Append(findings, NewFinding)
BY DEF FinishResult, NewFinding

\* Every step keeps the types.
LEMMA TypeStep ==
  ASSUME TypeOK, CurrentInv, [Next]_vars
  PROVE  TypeOK'
<1>1. text' = text /\ results' = results
  BY InputsStay
<1>2. /\ SpanSet' = SpanSet /\ Finding' = Finding /\ Claim' = Claim /\ ScannedBytes' = ScannedBytes
  BY <1>1, SameInputs
<1>3. /\ text \in Texts /\ results \in ResultLists
      /\ TypeParts /\ LocatedParts /\ FindingsParts
  BY TypeParted
<1>4. Len(results) \in Nat
  BY InputFacts
<1>5. /\ spans' \subseteq SpanSet /\ nextAt' \in [DOMAIN nextAt' -> 0 .. ScannedBytes] /\ claims' \in Seq(Claim)
  <2>1. CASE UNCHANGED <<spans, nextAt, claims>>
    BY <1>3, <2>1 DEF LocatedParts
  <2>2. CASE spans' = {} /\ UNCHANGED <<nextAt, claims>>
    BY <1>3, <2>2 DEF LocatedParts
  <2>3. CASE LocateEverywhere
    <3>1. /\ AtCandidate /\ ~TurnedAway(Candidates(ResultAt), j)
          /\ spans' = spans \cup ToSet(LocateAll(CandidateAt)) /\ UNCHANGED <<nextAt, claims>>
      BY <2>3 DEF LocateEverywhere
    <3>2. CandidateAt \in Seq(Bytes) /\ Len(CandidateAt) >= 1
      BY <3>1, CandidateAtFacts
    <3>3. LocateAll(CandidateAt) \in Seq(SpanSet)
      BY <3>2, InputFacts, LocateAllFacts DEF AllMatches, Matches
    <3>4. ToSet(LocateAll(CandidateAt)) \subseteq SpanSet
      BY <3>3 DEF ToSet
    <3> QED BY <1>3, <3>1, <3>4 DEF LocatedParts
  <2>4. CASE LocateOnce
    <3>1. CASE UNCHANGED <<spans, nextAt, claims>>
      BY <2>1, <3>1
    <3>2. CASE Claiming
      <4>1. AtCandidate /\ ~TurnedAway(Candidates(ResultAt), j) /\ Starts(CandidateAt, NextFrom) # {}
        BY <2>4, <3>2, LocateOnceFacts DEF Claiming
      <4>2. NextSpan \in SpanSet /\ NewClaim \in Claim /\ NextSpan.to \in 0 .. ScannedBytes
        BY <4>1, NewClaimFacts
      <4>3. claims' \in Seq(Claim)
        BY <1>3, <3>2, <4>2, AppendFacts DEF Claiming, LocatedParts
      <4>4. nextAt' \in [DOMAIN nextAt' -> 0 .. ScannedBytes]
        <5> DEFINE D == DOMAIN nextAt \cup {KeyAt}
                   f(k) == IF k = KeyAt THEN NextSpan.to ELSE nextAt[k]
        <5>1. \A k \in DOMAIN nextAt : nextAt[k] \in 0 .. ScannedBytes
          BY <1>3 DEF LocatedParts
        <5>2. \A k \in D : f(k) \in 0 .. ScannedBytes
          BY <4>2, <5>1
        <5>3. nextAt' = [k \in D |-> f(k)]
          BY <3>2 DEF Claiming
        <5> HIDE DEF D, f
        <5>4. DOMAIN nextAt' = D
          BY <5>3
        <5> QED BY <5>2, <5>3, <5>4
      <4> QED BY <1>3, <3>2, <4>2, <4>3, <4>4 DEF Claiming, LocatedParts
    <3> QED BY <2>4, <3>1, <3>2, LocateOnceFacts
  <2> QED BY <2>1, <2>2, <2>3, <2>4
      DEF Next, vars, located, SkipResult, BeginResult, SkipCandidate, FinishResult, EndOfResults,
          ReturnUnchanged, RefuseUnlocated, RefuseSplit, ReturnMasked, Refuse, Return
<1>6. LocatedParts'
  BY <1>2, <1>5 DEF LocatedParts
<1>7. findings' \in Seq(Finding) /\ \A k \in DOMAIN findings' : Spaced(findings'[k].spans)
  <2>1. CASE findings' = findings
    BY <1>3, <2>1 DEF FindingsParts
  <2>2. CASE FinishResult
    <3>1. NewFinding \in Finding /\ Spaced(NewFinding.spans)
      BY <2>2, FinishFacts, NewFindingFacts
    <3>2. CASE findings' = Append(findings, NewFinding)
      <4>1. /\ findings' \in Seq(Finding) /\ Len(findings') = Len(findings) + 1
            /\ Len(findings) \in Nat
            /\ \A k \in 1 .. Len(findings) : findings'[k] = findings[k]
            /\ findings'[Len(findings) + 1] = NewFinding
        BY <1>3, <3>1, <3>2, AppendFacts DEF FindingsParts
      <4>2. /\ DOMAIN findings' = 1 .. Len(findings) + 1
            /\ DOMAIN findings = 1 .. Len(findings)
        BY <1>3, <4>1 DEF FindingsParts
      <4>3. ASSUME NEW k \in 1 .. Len(findings) + 1 PROVE Spaced(findings'[k].spans)
        <5>1. k \in 1 .. Len(findings) \/ k = Len(findings) + 1
          BY <4>1
        <5>2. k \in 1 .. Len(findings) => Spaced(findings[k].spans)
          BY <1>3, <4>2 DEF FindingsParts
        <5> QED BY <3>1, <4>1, <5>1, <5>2
      <4> QED BY <4>1, <4>2, <4>3
    <3> QED BY <2>1, <2>2, <3>2, FinishFacts
  <2> QED BY <2>1, <2>2
      DEF Next, vars, located, SkipResult, BeginResult, SkipCandidate, LocateEverywhere, LocateOnce,
          EndOfResults, ReturnUnchanged, RefuseUnlocated, RefuseSplit, ReturnMasked, Refuse, Return
<1>8. FindingsParts'
  BY <1>2, <1>7 DEF FindingsParts, Spaced
<1>9. TypeParts'
  <2>1. i \in 1 .. Len(results) + 1 /\ j \in Nat \ {0} /\ (pc = "locate" => i \in 1 .. Len(results))
    BY <1>3 DEF TypeParts, CurrentInv
  <2>2. i' \in 1 .. Len(results) + 1
    <3>1. ASSUME SkipResult PROVE i' = i + 1 /\ i <= Len(results)
      BY <3>1 DEF SkipResult
    <3>2. ASSUME FinishResult PROVE i' = i + 1 /\ i <= Len(results)
      BY <1>4, <2>1, <3>2 DEF FinishResult
    <3>3. i' = i \/ SkipResult \/ FinishResult
      BY DEF Next, vars, located, BeginResult, SkipCandidate, LocateEverywhere, LocateOnce,
          EndOfResults, ReturnUnchanged, RefuseUnlocated, RefuseSplit, ReturnMasked, Refuse, Return
    <3> QED BY <1>4, <2>1, <3>1, <3>2, <3>3
  <2>3. j' \in Nat \ {0}
    <3>1. j' = j \/ j' = 1 \/ j' = j + 1
      BY DEF Next, vars, located, SkipResult, BeginResult, SkipCandidate, LocateEverywhere, LocateOnce,
          FinishResult, EndOfResults, ReturnUnchanged, RefuseUnlocated, RefuseSplit, ReturnMasked,
          Refuse, Return
    <3> QED BY <2>1, <3>1
  <2>4. /\ pc' \in {"result", "locate", "report", "returned", "refused"}
        /\ why' \in {"none", "unlocated", "split code point"}
    BY <1>3
    DEF TypeParts, Next, vars, located, SkipResult, BeginResult, SkipCandidate, LocateEverywhere,
        LocateOnce, FinishResult, EndOfResults, ReturnUnchanged, RefuseUnlocated, RefuseSplit,
        ReturnMasked, Refuse, Return
  <2> QED BY <1>1, <2>2, <2>3, <2>4 DEF TypeParts
<1>10. TypeOK' <=> /\ text' \in Texts /\ results' \in ResultLists
                   /\ TypeParts' /\ LocatedParts' /\ FindingsParts'
  BY DEF TypeOK, TypeParts, LocatedParts, FindingsParts, Spaced
<1> QED BY <1>1, <1>3, <1>6, <1>8, <1>9, <1>10

-----------------------------------------------------------------------------
(* The current result.                                                     *)

\* One more candidate is looked at.
LEMMA HeldNext ==
  ASSUME TypeOK, CurrentInv, AtCandidate, NEW S, spans \subseteq S,
         Everywhere(ResultAt, j) =>
            \/ \E m \in 1 .. j - 1 : Candidates(ResultAt)[m].value = CandidateAt
            \/ ToSet(LocateAll(CandidateAt)) \subseteq S
  PROVE  HeldBefore(ResultAt, j + 1, S)
<1> DEFINE list == Candidates(ResultAt)
<1>1. ResultAt \in Result /\ j \in 1 .. Len(list) /\ HeldBefore(ResultAt, j, spans)
  BY CandidateAtFacts DEF CurrentInv, AtCandidate
<1>2. /\ list \in Seq(Candidate)
      /\ \A m, k \in 1 .. Len(list) : m < k /\ list[k].whole => list[m].whole
  BY <1>1, CandidateFacts
<1>3. CandidateAt = list[j].value
  BY DEF CandidateAt
<1> SUFFICES ASSUME NEW k \in 1 .. Len(list), k < j + 1, Everywhere(ResultAt, k)
             PROVE  ToSet(LocateAll(list[k].value)) \subseteq S
  BY DEF HeldBefore
<1>4. \A m \in 1 .. Len(list) : m < j /\ Everywhere(ResultAt, m) =>
         ToSet(LocateAll(list[m].value)) \subseteq spans
  BY <1>1 DEF HeldBefore
<1>5. Len(list) \in Nat
  BY <1>2
<1> HIDE DEF list
<1>6. CASE k < j
  BY <1>4, <1>6
<1>7. CASE k = j
  <2>1. CASE \E m \in 1 .. j - 1 : Candidates(ResultAt)[m].value = CandidateAt
    <3>1. PICK m \in 1 .. j - 1 : list[m].value = CandidateAt
      BY <2>1 DEF list
    <3>2. m \in 1 .. Len(list) /\ m < j
      BY <1>1, <1>5
    <3>3. list[j].whole => list[m].whole
      BY <1>1, <1>2, <3>2
    <3>4. Everywhere(ResultAt, m)
      BY <1>3, <1>7, <3>1, <3>3 DEF Everywhere, list
    <3> QED BY <1>3, <1>4, <1>7, <3>1, <3>2, <3>4
  <2>2. CASE ToSet(LocateAll(CandidateAt)) \subseteq S
    BY <1>3, <1>7, <2>2
  <2> QED BY <1>7, <2>1, <2>2
<1>8. k < j \/ k = j
  BY <1>1, <1>5
<1> QED BY <1>6, <1>7, <1>8

\* Every step keeps what the current result holds.
LEMMA CurrentStep ==
  ASSUME TypeOK, CurrentInv, OrderInv, [Next]_vars
  PROVE  CurrentInv'
<1>1. text' = text /\ results' = results
  BY InputsStay
<1>2. \A v : LocateAll(v)' = LocateAll(v)
  BY <1>1, SameInputs
<1>3. ASSUME pc' = "locate" => /\ i' \in 1 .. Len(results)
                               /\ HeldBefore(results[i'], j', spans') /\ ClaimedBy(i', claims', spans')
      PROVE  CurrentInv'
  BY <1>1, <1>2, <1>3 DEF CurrentInv, HeldBefore, ClaimedBy, ResultAt, Everywhere
<1>4. CASE pc' # "locate"
  BY <1>3, <1>4
<1>5. CASE BeginResult
  <2>1. /\ pc = "result" /\ i <= Len(results) /\ j' = 1 /\ spans' = {} /\ UNCHANGED <<i, claims>>
    BY <1>5 DEF BeginResult
  <2>2. i \in 1 .. Len(results)
    <3>1. i \in 1 .. Len(results) + 1 /\ Len(results) \in Nat
      BY InputFacts DEF TypeOK
    <3> QED BY <2>1, <3>1
  <2>3. HeldBefore(results[i], 1, {})
    <3>1. \A k \in 1 .. Len(Candidates(results[i])) : ~(k < 1)
      OBVIOUS
    <3> QED BY <3>1 DEF HeldBefore
  <2>4. ClaimedBy(i, claims, {})
    <3>1. ASSUME NEW c \in 1 .. Len(claims) PROVE claims[c].by # i
      <4>1. claims[c].by < i
        BY <2>1 DEF OrderInv
      <4>2. claims[c].by \in Nat
        BY ClaimFacts
      <4> QED BY <2>2, <4>1, <4>2
    <3> QED BY <3>1 DEF ClaimedBy
  <2> QED BY <1>3, <2>1, <2>2, <2>3, <2>4
<1>6. CASE SkipCandidate
  <2>1. /\ AtCandidate /\ TurnedAway(Candidates(ResultAt), j) /\ j' = j + 1
        /\ UNCHANGED <<i, spans, claims>>
    BY <1>6 DEF SkipCandidate
  <2>2. Everywhere(ResultAt, j) => \E m \in 1 .. j - 1 : Candidates(ResultAt)[m].value = CandidateAt
    <3>1. CandidateAt \in Seq(Bytes)
      BY <2>1, CandidateAtFacts
    <3>2. Everywhere(ResultAt, j) => Len(CandidateAt) >= MinCandidateLen
      BY DEF Everywhere, CandidateAt
    <3>3. Len(CandidateAt) >= MinCandidateLen => ~(Len(CandidateAt) < MinCandidateLen)
      BY <3>1, LengthsAssumption
    <3> QED BY <2>1, <3>2, <3>3 DEF TurnedAway, CandidateAt
  <2>3. HeldBefore(ResultAt, j + 1, spans)
    BY <2>1, <2>2, HeldNext
  <2> QED BY <1>3, <2>1, <2>3 DEF CurrentInv, AtCandidate, ResultAt
<1>7. CASE LocateEverywhere
  <2>1. /\ AtCandidate /\ j' = j + 1 /\ spans' = spans \cup ToSet(LocateAll(CandidateAt))
        /\ UNCHANGED <<i, claims>>
    BY <1>7 DEF LocateEverywhere
  <2>2. HeldBefore(ResultAt, j + 1, spans')
    BY <2>1, HeldNext
  <2>3. ClaimedBy(i, claims, spans')
    BY <2>1 DEF CurrentInv, AtCandidate, ClaimedBy
  <2> QED BY <1>3, <2>1, <2>2, <2>3 DEF CurrentInv, AtCandidate, ResultAt
<1>8. CASE LocateOnce
  <2>1. /\ AtCandidate /\ ~Repeated /\ j' = j + 1 /\ UNCHANGED i
        /\ UNCHANGED <<spans, nextAt, claims>> \/ Claiming
    BY <1>8, LocateOnceFacts
  <2>2. spans \subseteq spans'
    BY <2>1 DEF Claiming
  <2>3. ~Everywhere(ResultAt, j)
    BY <2>1 DEF Repeated, Everywhere, CandidateAt
  <2>4. HeldBefore(ResultAt, j + 1, spans')
    BY <2>1, <2>2, <2>3, HeldNext
  <2>5. ClaimedBy(i, claims', spans')
    <3>1. ClaimedBy(i, claims, spans)
      BY <2>1 DEF CurrentInv, AtCandidate
    <3>2. CASE UNCHANGED <<spans, nextAt, claims>>
      BY <3>1, <3>2
    <3>3. CASE Claiming
      <4>1. AtCandidate /\ ~TurnedAway(Candidates(ResultAt), j) /\ Starts(CandidateAt, NextFrom) # {}
        BY <1>8, <3>3, LocateOnceFacts DEF Claiming
      <4>2. NewClaim \in Claim /\ claims \in Seq(Claim)
        BY <4>1, NewClaimFacts DEF TypeOK
      <4>3. /\ Len(claims') = Len(claims) + 1 /\ Len(claims) \in Nat
            /\ \A c \in 1 .. Len(claims) : claims'[c] = claims[c]
            /\ claims'[Len(claims) + 1] = NewClaim
        BY <3>3, <4>2, AppendFacts DEF Claiming
      <4>4. NewClaim.span \in spans'
        BY <3>3 DEF NewClaim, Claiming
      <4>5. ASSUME NEW c \in 1 .. Len(claims'), claims'[c].by = i PROVE claims'[c].span \in spans'
        <5>1. c \in 1 .. Len(claims) \/ c = Len(claims) + 1
          BY <4>3
        <5>2. CASE c \in 1 .. Len(claims)
          BY <2>2, <3>1, <4>3, <4>5, <5>2 DEF ClaimedBy
        <5> QED BY <4>3, <4>4, <5>1, <5>2
      <4> QED BY <4>5 DEF ClaimedBy
    <3> QED BY <2>1, <3>2, <3>3
  <2> QED BY <1>3, <2>1, <2>4, <2>5 DEF CurrentInv, AtCandidate, ResultAt
<1>9. CASE UNCHANGED vars
  BY <1>3, <1>9 DEF vars, CurrentInv, ResultAt
<1> QED BY <1>4, <1>5, <1>6, <1>7, <1>8, <1>9
    DEF Next, SkipResult, FinishResult, EndOfResults, ReturnUnchanged, RefuseUnlocated, RefuseSplit,
        ReturnMasked, Refuse, Return

-----------------------------------------------------------------------------
(* The findings.                                                           *)

\* What a claim adds.
LEMMA ClaimingFacts ==
  ASSUME TypeOK, CurrentInv, LocateOnce, Claiming
  PROVE  /\ Len(claims') = Len(claims) + 1 /\ Len(claims) \in Nat
         /\ \A c \in 1 .. Len(claims) : claims'[c] = claims[c]
         /\ claims'[Len(claims) + 1] = NewClaim
         /\ NewClaim.by = i /\ NewClaim.det = ResultAt.det /\ NewClaim.value = CandidateAt
         /\ NewClaim.span = NextSpan
<1>1. AtCandidate /\ ~TurnedAway(Candidates(ResultAt), j) /\ Starts(CandidateAt, NextFrom) # {}
  BY LocateOnceFacts DEF Claiming
<1>2. NewClaim \in Claim /\ claims \in Seq(Claim)
  BY <1>1, NewClaimFacts DEF TypeOK
<1>3. /\ Len(claims') = Len(claims) + 1 /\ Len(claims) \in Nat
      /\ \A c \in 1 .. Len(claims) : claims'[c] = claims[c]
      /\ claims'[Len(claims) + 1] = NewClaim
  BY <1>2, AppendFacts DEF Claiming
<1> QED BY <1>3 DEF NewClaim

\* Every step keeps the order of claims and findings.
LEMMA OrderStep ==
  ASSUME TypeOK, CurrentInv, OrderInv, [Next]_vars
  PROVE  OrderInv'
<1>1. i \in Nat
  BY IndexFacts
<1>2. /\ \A c \in 1 .. Len(claims) : claims[c].by \in Nat
      /\ \A k \in 1 .. Len(findings) : findings[k].from \in Nat
  BY ClaimFacts, FindingFacts
<1>3. /\ \A c \in 1 .. Len(claims) : claims[c].by <= i /\ (pc = "result" => claims[c].by < i)
      /\ \A k \in 1 .. Len(findings) : findings[k].from < i
  BY DEF OrderInv
<1>4. CASE UNCHANGED <<claims, findings, i>> /\ (pc' = pc \/ pc' # "result")
  BY <1>3, <1>4 DEF OrderInv
<1>5. CASE SkipResult
  <2>1. i' = i + 1 /\ UNCHANGED <<claims, findings>>
    BY <1>5 DEF SkipResult
  <2>2. \A c \in 1 .. Len(claims) : claims[c].by < i + 1
    BY <1>1, <1>2, <1>3
  <2>3. \A c \in 1 .. Len(claims) : claims[c].by <= i + 1
    BY <1>1, <1>2, <1>3
  <2>4. \A k \in 1 .. Len(findings) : findings[k].from < i + 1
    BY <1>1, <1>2, <1>3
  <2> QED BY <2>1, <2>2, <2>3, <2>4 DEF OrderInv
<1>6. CASE LocateOnce
  <2>1. /\ pc = "locate" /\ UNCHANGED <<i, findings, pc>>
        /\ UNCHANGED <<spans, nextAt, claims>> \/ Claiming
    BY <1>6, LocateOnceFacts DEF AtCandidate
  <2>2. CASE UNCHANGED <<spans, nextAt, claims>>
    BY <1>4, <2>1, <2>2
  <2>3. CASE Claiming
    <3>1. /\ Len(claims') = Len(claims) + 1 /\ Len(claims) \in Nat
          /\ \A c \in 1 .. Len(claims) : claims'[c] = claims[c]
          /\ claims'[Len(claims) + 1] = NewClaim /\ NewClaim.by = i
      BY <1>6, <2>3, ClaimingFacts
    <3>2. ASSUME NEW c \in 1 .. Len(claims') PROVE claims'[c].by <= i
      <4>1. c \in 1 .. Len(claims) \/ c = Len(claims) + 1
        BY <3>1
      <4>2. CASE c \in 1 .. Len(claims)
        BY <1>3, <3>1, <4>2
      <4>3. CASE c = Len(claims) + 1
        <5>1. claims'[c].by = i
          BY <3>1, <4>3
        <5> QED BY <1>1, <5>1
      <4> QED BY <4>1, <4>2, <4>3
    <3> QED BY <1>3, <2>1, <3>2 DEF OrderInv
  <2> QED BY <2>1, <2>2, <2>3
<1>7. CASE FinishResult
  <2>1. /\ pc = "locate" /\ i' = i + 1 /\ claims' = claims
        /\ findings' = findings \/ findings' = Append(findings, NewFinding)
    BY <1>7, FinishFacts
  <2>2. \A c \in 1 .. Len(claims) : claims[c].by < i + 1
    BY <1>1, <1>2, <1>3
  <2>3. \A c \in 1 .. Len(claims) : claims[c].by <= i + 1
    BY <1>1, <1>2, <1>3
  <2>4. \A k \in 1 .. Len(findings) : findings[k].from < i + 1
    BY <1>1, <1>2, <1>3
  <2>5. \A k \in 1 .. Len(findings') : findings'[k].from < i + 1
    <3>1. CASE findings' = findings
      BY <2>4, <3>1
    <3>2. CASE findings' = Append(findings, NewFinding)
      <4>1. NewFinding \in Finding /\ findings \in Seq(Finding) /\ NewFinding.from = i
        BY <2>1, NewFindingFacts, InputFacts DEF Report
      <4>2. /\ Len(findings') = Len(findings) + 1 /\ Len(findings) \in Nat
            /\ \A k \in 1 .. Len(findings) : findings'[k] = findings[k]
            /\ findings'[Len(findings) + 1] = NewFinding
        BY <3>2, <4>1, AppendFacts
      <4>3. ASSUME NEW k \in 1 .. Len(findings') PROVE findings'[k].from < i + 1
        <5>1. k \in 1 .. Len(findings) \/ k = Len(findings) + 1
          BY <4>2
        <5>2. CASE k \in 1 .. Len(findings)
          BY <2>4, <4>2, <5>2
        <5>3. CASE k = Len(findings) + 1
          <6>1. findings'[k].from = i
            BY <4>1, <4>2, <5>3
          <6> QED BY <1>1, <6>1
        <5> QED BY <5>1, <5>2, <5>3
      <4> QED BY <4>3
    <3> QED BY <2>1, <3>1, <3>2
  <2> QED BY <2>1, <2>2, <2>3, <2>5 DEF OrderInv
<1> QED BY <1>4, <1>5, <1>6, <1>7
    DEF Next, vars, located, BeginResult, SkipCandidate, LocateEverywhere, EndOfResults,
        ReturnUnchanged, RefuseUnlocated, RefuseSplit, ReturnMasked, Refuse, Return

\* A finding's spans hold those it was merged from.
LEMMA LocatedHolds ==
  ASSUME TypeOK, NEW t \in spans
  PROVE  HoldsIn(NewFinding, t)
<1>1. ScannedBytes \in Nat /\ spans \in SUBSET SpanSet
  BY InputFacts DEF TypeOK
<1>2. Merged(MergeSpans(spans), spans)
  BY <1>1, MergeSpansFacts
<1>3. PICK k \in 1 .. Len(MergeSpans(spans)) : Inside(t, MergeSpans(spans)[k])
  BY <1>2 DEF Merged
<1>4. MergeSpans(spans) \in Seq(SpanSet)
  BY <1>1, MergeSpansFacts
<1>5. MergeSpans(spans)[k] \in ToSet(MergeSpans(spans))
  BY <1>4 DEF ToSet
<1> QED BY <1>3, <1>5 DEF HoldsIn, NewFinding, Located

\* Every step keeps what findings hold.
LEMMA FindingsStep ==
  ASSUME TypeOK, CurrentInv, OrderInv, FindingsInv, [Next]_vars
  PROVE  FindingsInv'
<1>1. text' = text /\ results' = results
  BY InputsStay
<1>2. \A v : LocateAll(v)' = LocateAll(v)
  BY <1>1, SameInputs
<1>3. ASSUME \A k \in 1 .. Len(findings') : FindingOf(findings'[k], claims')
      PROVE  FindingsInv'
  BY <1>1, <1>2, <1>3 DEF FindingsInv, FindingOf, HoldsIn
<1>4. CASE UNCHANGED <<findings, claims>>
  BY <1>3, <1>4 DEF FindingsInv
<1>5. CASE LocateOnce
  <2>1. findings' = findings /\ (UNCHANGED <<spans, nextAt, claims>> \/ Claiming)
    BY <1>5, LocateOnceFacts
  <2>2. CASE Claiming
    <3>1. /\ Len(claims') = Len(claims) + 1 /\ Len(claims) \in Nat
          /\ \A c \in 1 .. Len(claims) : claims'[c] = claims[c]
          /\ claims'[Len(claims) + 1] = NewClaim /\ NewClaim.by = i
      BY <1>5, <2>2, ClaimingFacts
    <3>2. ASSUME NEW k \in 1 .. Len(findings) PROVE FindingOf(findings[k], claims')
      <4>1. FindingOf(findings[k], claims)
        BY DEF FindingsInv
      <4>2. findings[k].from # i
        <5>1. findings[k].from < i
          BY DEF OrderInv
        <5>2. findings[k].from \in Nat /\ i \in Nat
          BY FindingFacts, IndexFacts
        <5> QED BY <5>1, <5>2
      <4>3. ASSUME NEW c \in 1 .. Len(claims'), claims'[c].by = findings[k].from
            PROVE  HoldsIn(findings[k], claims'[c].span)
        <5>1. c \in 1 .. Len(claims) \/ c = Len(claims) + 1
          BY <3>1
        <5>2. c \in 1 .. Len(claims)
          BY <3>1, <4>2, <4>3, <5>1
        <5> QED BY <3>1, <4>1, <4>3, <5>2 DEF FindingOf
      <4> QED BY <4>1, <4>3 DEF FindingOf
    <3> QED BY <1>3, <2>1, <3>2
  <2> QED BY <1>4, <2>1, <2>2
<1>6. CASE FinishResult
  <2>1. /\ pc = "locate" /\ j > Len(Candidates(ResultAt)) /\ claims' = claims
        /\ findings' = findings \/ findings' = Append(findings, NewFinding)
    BY <1>6, FinishFacts
  <2>2. NewFinding \in Finding /\ findings \in Seq(Finding) /\ NewFinding.from = i
    BY <2>1, NewFindingFacts, InputFacts DEF Report
  <2>3. HeldBefore(ResultAt, j, spans) /\ ClaimedBy(i, claims, spans) /\ ResultAt \in Result
    <3>1. i \in 1 .. Len(results) /\ results \in Seq(Result)
      BY <2>1, InputFacts DEF CurrentInv
    <3> QED BY <2>1, <3>1 DEF CurrentInv, ResultAt
  <2>4. ASSUME NEW v \in WholeValues(results[i]), NEW t \in ToSet(LocateAll(v))
        PROVE  HoldsIn(NewFinding, t)
    <3> DEFINE list == Candidates(ResultAt)
    <3>1. PICK k \in DOMAIN list : Everywhere(ResultAt, k) /\ v = list[k].value
      BY DEF WholeValues, Everywhere, ResultAt
    <3>2. list \in Seq(Candidate)
      BY <2>3, CandidateFacts
    <3>3. k \in 1 .. Len(list) /\ Len(list) \in Nat
      BY <3>1, <3>2
    <3>4. k < j
      <4>1. j \in Nat /\ j > Len(list)
        BY <2>1 DEF TypeOK
      <4> HIDE DEF list
      <4> QED BY <3>3, <4>1
    <3>5. t \in spans
      BY <2>3, <3>1, <3>3, <3>4 DEF HeldBefore
    <3> QED BY <3>5, LocatedHolds
  <2>5. FindingOf(NewFinding, claims)
    BY <2>2, <2>3, <2>4, LocatedHolds DEF FindingOf, ClaimedBy
  <2>6. CASE findings' = Append(findings, NewFinding)
    <3>1. /\ Len(findings') = Len(findings) + 1 /\ Len(findings) \in Nat
          /\ \A k \in 1 .. Len(findings) : findings'[k] = findings[k]
          /\ findings'[Len(findings) + 1] = NewFinding
      BY <2>2, <2>6, AppendFacts
    <3>2. ASSUME NEW k \in 1 .. Len(findings') PROVE FindingOf(findings'[k], claims)
      <4>1. k \in 1 .. Len(findings) \/ k = Len(findings) + 1
        BY <3>1
      <4> QED BY <2>5, <3>1, <4>1 DEF FindingsInv
    <3> QED BY <1>3, <2>1, <3>2
  <2> QED BY <1>4, <2>1, <2>6
<1> QED BY <1>4, <1>5, <1>6
    DEF Next, vars, located, SkipResult, BeginResult, SkipCandidate, LocateEverywhere, EndOfResults,
        ReturnUnchanged, RefuseUnlocated, RefuseSplit, ReturnMasked, Refuse, Return

-----------------------------------------------------------------------------
(* The claims.                                                             *)

\* The claims of a value are finitely many; other claims do not count.
LEMMA MadeFacts ==
  ASSUME NEW C, NEW n \in Nat, NEW det, NEW v
  PROVE  /\ IsFiniteSet(Made(C, n, det, v)) /\ Cardinality(Made(C, n, det, v)) \in Nat
         /\ n + 1 \notin Made(C, n, det, v)
<1>1. IsFiniteSet(1 .. n)
  BY FS_Interval
<1>2. Made(C, n, det, v) \subseteq 1 .. n
  BY DEF Made
<1>3. IsFiniteSet(Made(C, n, det, v))
  BY <1>1, <1>2, FS_Subset
<1>4. n + 1 \notin 1 .. n
  OBVIOUS
<1> QED BY <1>2, <1>3, <1>4, FS_CardinalityType

Agree(C, D, n) == \A c \in 1 .. n : D[c] = C[c]

\* Claims made later do not count.
LEMMA MadeSame ==
  ASSUME NEW C, NEW D, NEW n \in Nat, Agree(C, D, n), NEW det, NEW v,
         NEW m \in 0 .. n
  PROVE  Made(D, m, det, v) = Made(C, m, det, v)
<1>1. \A c \in 1 .. m : c \in 1 .. n
  OBVIOUS
<1> QED BY <1>1 DEF Made, Agree

\* The next claim counts for its own detector and value only.
LEMMA MadeNext ==
  ASSUME NEW C, NEW D, NEW n \in Nat, Agree(C, D, n), NEW det, NEW v
  PROVE  /\ D[n + 1].det = det /\ D[n + 1].value = v =>
               Cardinality(Made(D, n + 1, det, v)) = Cardinality(Made(C, n, det, v)) + 1
         /\ D[n + 1].det # det \/ D[n + 1].value # v => Made(D, n + 1, det, v) = Made(C, n, det, v)
<1>1. 1 .. n + 1 = (1 .. n) \cup {n + 1}
  OBVIOUS
<1>2. ASSUME D[n + 1].det = det /\ D[n + 1].value = v
      PROVE  Made(D, n + 1, det, v) = Made(C, n, det, v) \cup {n + 1}
  BY <1>1, <1>2 DEF Made, Agree
<1>3. ASSUME D[n + 1].det # det \/ D[n + 1].value # v
      PROVE  Made(D, n + 1, det, v) = Made(C, n, det, v)
  BY <1>1, <1>3 DEF Made, Agree
<1>4. ASSUME D[n + 1].det = det /\ D[n + 1].value = v
      PROVE  Cardinality(Made(D, n + 1, det, v)) = Cardinality(Made(C, n, det, v)) + 1
  <2> DEFINE S == Made(C, n, det, v)
  <2>1. IsFiniteSet(S) /\ n + 1 \notin S
    BY MadeFacts
  <2>2. Made(D, n + 1, det, v) = S \cup {n + 1}
    BY <1>2, <1>4
  <2> HIDE DEF S
  <2>3. Cardinality(S \cup {n + 1}) = Cardinality(S) + 1
    BY <2>1, FS_AddElement
  <2> QED BY <2>2, <2>3 DEF S
<1> QED BY <1>3, <1>4

\* What is claimed is the next occurrence.
LEMMA NextOccurrence ==
  ASSUME text \in Seq(Bytes), NEW v \in Seq(Bytes), Len(v) >= 1,
         NEW n \in 0 .. Len(LocateAll(v)), NEW a, a = CursorAt(LocateAll(v), n + 1),
         Starts(v, a) # {}
  PROVE  n + 1 \in 1 .. Len(LocateAll(v)) /\ LocateAll(v)[n + 1] = SpanAt(First(Starts(v, a)), v)
<1> DEFINE L == LocateAll(v)
<1>1. Matches(v, L) /\ Starts(v, SearchFrom(L)) = {}
  BY LocateAllFacts DEF AllMatches
<1> HIDE DEF L
<1>2. L \in Seq(SpanSet)
  BY <1>1 DEF Matches
<1>3. SearchFrom(L) = CursorAt(L, Len(L) + 1) /\ Len(L) \in Nat
  BY <1>2, SearchFromFacts
<1>4. n # Len(L)
  BY <1>1, <1>3 DEF L
<1>5. n + 1 \in 1 .. Len(L)
  BY <1>3, <1>4 DEF L
<1>6. L[n + 1] = SpanAt(First(Starts(v, CursorAt(L, n + 1))), v)
  BY <1>1, <1>5 DEF Matches
<1> QED BY <1>5, <1>6 DEF L

\* A claim keeps the claims in order.
LEMMA ClaimStep ==
  ASSUME TypeOK, CurrentInv, ClaimsInv, LocateOnce, Claiming
  PROVE  (\A c \in 1 .. Len(claims') : InOrder(claims', c)) /\ Tracking(claims', nextAt')
<1> DEFINE v == CandidateAt
           det == ResultAt.det
           n == Cardinality(Made(claims, Len(claims), det, v))
           L == LocateAll(v)
<1>1. /\ Len(claims') = Len(claims) + 1 /\ Len(claims) \in Nat
      /\ \A c \in 1 .. Len(claims) : claims'[c] = claims[c]
      /\ claims'[Len(claims) + 1] = NewClaim
      /\ NewClaim.det = det /\ NewClaim.value = v /\ NewClaim.span = NextSpan
  BY ClaimingFacts
<1>0. Agree(claims, claims', Len(claims)) /\ Len(claims) \in Nat
  BY <1>1 DEF Agree
<1>2. /\ v \in Seq(Bytes) /\ Len(v) >= 1 /\ det \in Detectors
      /\ Starts(v, NextFrom) # {} /\ text \in Seq(Bytes)
  BY LocateOnceFacts, CandidateAtFacts, InputFacts DEF Claiming
<1>3. /\ nextAt' = [k \in DOMAIN nextAt \cup {KeyAt} |-> IF k = KeyAt THEN NextSpan.to ELSE nextAt[k]]
      /\ KeyAt = TrackerKey(det, v) /\ NextSpan = SpanAt(First(Starts(v, NextFrom)), v)
      /\ NextFrom = IF KeyAt \in DOMAIN nextAt THEN nextAt[KeyAt] ELSE 0
  BY DEF Claiming, KeyAt, NextFrom, NextSpan
<1>4. Tracked(claims, nextAt, det, v)
  BY <1>2 DEF ClaimsInv, Tracking
<1> HIDE DEF v, det
<1>5. n \in 0 .. Len(L) /\ NextFrom = CursorAt(L, n + 1)
  <2>1. /\ n \in 0 .. Len(L)
        /\ KeyAt \in DOMAIN nextAt => n >= 1 /\ nextAt[KeyAt] = L[n].to
        /\ KeyAt \notin DOMAIN nextAt => n = 0
    BY <1>3, <1>4 DEF Tracked
  <2>2. n \in Nat
    BY <1>1, MadeFacts
  <2> HIDE DEF n, L
  <2>3. CASE KeyAt \in DOMAIN nextAt
    <3>1. n + 1 # 1 /\ (n + 1) - 1 = n
      BY <2>1, <2>2, <2>3
    <3> QED BY <1>3, <2>1, <2>3, <3>1 DEF CursorAt
  <2>4. CASE KeyAt \notin DOMAIN nextAt
    <3>1. n + 1 = 1
      BY <2>1, <2>4
    <3> QED BY <1>3, <2>1, <2>4, <3>1 DEF CursorAt
  <2> QED BY <2>3, <2>4
<1>6. n + 1 \in 1 .. Len(L) /\ L[n + 1] = NextSpan
  <2> HIDE DEF n
  <2> QED BY <1>2, <1>3, <1>5, NextOccurrence
<1>7. ASSUME NEW c \in 1 .. Len(claims') PROVE InOrder(claims', c)
  <2>1. c \in 1 .. Len(claims) \/ c = Len(claims) + 1
    BY <1>1
  <2>2. CASE c \in 1 .. Len(claims)
    <3>1. claims'[c] = claims[c] /\ InOrder(claims, c) /\ c - 1 \in 0 .. Len(claims)
      BY <1>1, <2>2 DEF ClaimsInv
    <3>2. Made(claims', c - 1, claims[c].det, claims[c].value) =
             Made(claims, c - 1, claims[c].det, claims[c].value)
      BY <1>0, <3>1, MadeSame
    <3> QED BY <3>1, <3>2 DEF InOrder
  <2>3. CASE c = Len(claims) + 1
    <3>1. claims'[c] = NewClaim /\ c - 1 = Len(claims) /\ Len(claims) \in 0 .. Len(claims)
      BY <1>1, <2>3
    <3>2. Made(claims', Len(claims), det, v) = Made(claims, Len(claims), det, v)
      BY <1>0, <3>1, MadeSame
    <3> QED BY <1>1, <1>2, <1>6, <3>1, <3>2 DEF InOrder
  <2> QED BY <2>1, <2>2, <2>3
<1>8. ASSUME NEW d \in Detectors, NEW w \in Seq(Bytes), Len(w) >= 1
      PROVE  Tracked(claims', nextAt', d, w)
  <2> DEFINE N == Cardinality(Made(claims', Len(claims'), d, w))
             key == TrackerKey(d, w)
  <2>1. CASE d = det /\ w = v
    <3>1. N = n + 1
      BY <1>0, <1>1, <2>1, MadeNext
    <3>2. key = KeyAt
      BY <1>3, <2>1
    <3>3. KeyAt \in DOMAIN nextAt' /\ nextAt'[KeyAt] = NextSpan.to
      BY <1>3
    <3>4. n + 1 \in 0 .. Len(L) /\ n + 1 >= 1
      BY <1>5, <1>6
    <3>5. /\ n + 1 \in 0 .. Len(LocateAll(w))
          /\ key \in DOMAIN nextAt' /\ nextAt'[key] = LocateAll(w)[n + 1].to
      BY <1>6, <2>1, <3>2, <3>3, <3>4
    <3> HIDE DEF n
    <3> QED BY <3>1, <3>4, <3>5 DEF Tracked
  <2>2. CASE d # det \/ w # v
    <3>1. Made(claims', Len(claims'), d, w) = Made(claims, Len(claims), d, w)
      BY <1>0, <1>1, <2>2, MadeNext
    <3>2. key # KeyAt
      BY <1>3, <2>2 DEF TrackerKey
    <3> HIDE DEF key
    <3>3. /\ key \in DOMAIN nextAt' <=> key \in DOMAIN nextAt
          /\ key \in DOMAIN nextAt => nextAt'[key] = nextAt[key]
      BY <1>3, <3>2
    <3>4. Tracked(claims, nextAt, d, w)
      BY <1>8 DEF ClaimsInv, Tracking
    <3> QED BY <3>1, <3>3, <3>4 DEF Tracked, key
  <2> QED BY <2>1, <2>2
<1> QED BY <1>7, <1>8 DEF Tracking

\* Every step keeps the claims in order.
LEMMA ClaimsStep ==
  ASSUME TypeOK, CurrentInv, ClaimsInv, [Next]_vars
  PROVE  ClaimsInv'
<1>1. text' = text /\ results' = results
  BY InputsStay
<1>2. \A v : LocateAll(v)' = LocateAll(v)
  BY <1>1, SameInputs
<1>3. ASSUME (\A c \in 1 .. Len(claims') : InOrder(claims', c)) /\ Tracking(claims', nextAt')
      PROVE  ClaimsInv'
  BY <1>2, <1>3 DEF ClaimsInv, Tracking, InOrder, Tracked
<1>4. CASE UNCHANGED <<claims, nextAt>>
  BY <1>3, <1>4 DEF ClaimsInv
<1>5. CASE LocateOnce
  BY <1>3, <1>4, <1>5, LocateOnceFacts, ClaimStep
<1> QED BY <1>4, <1>5
    DEF Next, vars, located, SkipResult, BeginResult, SkipCandidate, LocateEverywhere, FinishResult,
        EndOfResults, ReturnUnchanged, RefuseUnlocated, RefuseSplit, ReturnMasked, Refuse, Return

-----------------------------------------------------------------------------
(* The outcome.                                                            *)

\* What depends on the text and the report alone.
LEMMA SameReport ==
  ASSUME text' = text, results' = results, findings' = findings
  PROVE  /\ FullyRedactable' <=> FullyRedactable
         /\ \A M : Blocks(M)' <=> Blocks(M)
         /\ \A P, M : Pieced(P, M)' <=> Pieced(P, M)
         /\ CutsCodePoint' <=> CutsCodePoint
<1>1. Size' = Size /\ ScannedBytes' = ScannedBytes /\ AllSpans' = AllSpans
  BY SameInputs DEF AllSpans, SpansOf
<1>2. \A s : OwnLabel(s)' = OwnLabel(s)
  BY DEF OwnLabel, Label
<1>3. FullyRedactable' <=> FullyRedactable
  BY DEF FullyRedactable, Redactable
<1>4. ASSUME NEW M PROVE Blocks(M)' <=> Blocks(M)
  BY <1>1, <1>2 DEF Blocks, Names, Within, Inside, NonEmpty
<1>5. ASSUME NEW P, NEW M PROVE Pieced(P, M)' <=> Pieced(P, M)
  BY <1>1 DEF Pieced, KeptBefore, Kept, CursorAt, Masked, CoveredBytes, Fingerprint
<1>6. CutsCodePoint' <=> CutsCodePoint
  BY <1>1 DEF CutsCodePoint, Covered
<1> QED BY <1>3, <1>4, <1>5, <1>6

\* Without findings the text is one gap.
LEMMA WholeText ==
  ASSUME Size \in Nat, findings = <<>>
  PROVE  FullyRedactable /\ ~CutsCodePoint /\ \E M : Blocks(M) /\ Pieced(<<Kept(0, Size)>>, M)
<1>1. DOMAIN findings = {} /\ DOMAIN <<>> = 1 .. 0 /\ Len(<<>>) = 0
  OBVIOUS
<1>2. FullyRedactable
  BY <1>1 DEF FullyRedactable
<1>3. AllSpans = {}
  BY <1>1 DEF AllSpans
<1>4. Blocks(<<>>)
  BY <1>1, <1>3 DEF Blocks
<1> DEFINE P == <<Kept(0, Size)>>
<1>5. Len(P) = 1 /\ DOMAIN P = 1 .. 1 /\ P[1] = Kept(0, Size)
  OBVIOUS
<1>6. KeptBefore(<<>>, 1) = Kept(0, Size)
  BY <1>1 DEF KeptBefore, CursorAt
<1> HIDE DEF P
<1>7. Pieced(P, <<>>)
  <2>1. 2 * Len(<<>>) + 1 = 1 /\ Len(<<>>) + 1 = 1
    BY <1>1
  <2>2. \A q \in 1 .. 1 : q = 1 /\ 2 * q - 1 = 1
    OBVIOUS
  <2>3. \A q \in 1 .. 0 : FALSE
    OBVIOUS
  <2> QED BY <1>1, <1>5, <1>6, <2>1, <2>2, <2>3 DEF Pieced
<1>8. ~CutsCodePoint
  <2>1. Covered(AllSpans) = {}
    BY <1>3 DEF Covered
  <2> QED BY <2>1 DEF CutsCodePoint
<1> QED BY <1>2, <1>4, <1>7, <1>8 DEF P

\* Every step keeps what is known of the outcome.
LEMMA OutStep ==
  ASSUME TypeOK, OutInv, [Next]_vars
  PROVE  OutInv'
<1>1. text' = text /\ results' = results
  BY InputsStay
<1>2. /\ text \in Seq(Bytes) /\ ValidUTF8(text) /\ Report
      /\ Size \in Nat /\ ScannedBytes \in Nat /\ ScannedBytes <= Size
  BY InputFacts
<1>3. Blocks(MergeLabelled)
  BY <1>2, MergeLabelledBlocks
<1>4. Pieced(Spliced.pieces, MergeLabelled)
  BY <1>2, <1>3, SplicePieces DEF Spliced
<1>5. CASE pc' # "returned" /\ pc' # "refused"
  BY <1>5 DEF OutInv
<1>6. ASSUME findings' = findings,
             pc' = "returned" => /\ FullyRedactable /\ ~CutsCodePoint
                                 /\ \E M : Blocks(M) /\ Pieced(out', M),
             pc' = "refused" => ~FullyRedactable \/ CutsCodePoint
      PROVE  OutInv'
  <2>1. /\ FullyRedactable' <=> FullyRedactable
        /\ \A M : Blocks(M)' <=> Blocks(M)
        /\ \A P, M : Pieced(P, M)' <=> Pieced(P, M)
        /\ CutsCodePoint' <=> CutsCodePoint
    BY <1>1, <1>6, SameReport
  <2> QED BY <1>6, <2>1 DEF OutInv
<1>7. CASE ReturnUnchanged
  <2>1. pc' = "returned" /\ out' = <<Kept(0, Size)>> /\ findings = <<>> /\ findings' = findings
    BY <1>7 DEF ReturnUnchanged, Return
  <2>2. FullyRedactable /\ ~CutsCodePoint /\ \E M : Blocks(M) /\ Pieced(out', M)
    BY <1>2, <2>1, WholeText
  <2> QED BY <1>6, <2>1, <2>2
<1>8. CASE ReturnMasked
  <2>1. pc' = "returned" /\ out' = Spliced.pieces /\ FullyRedactable /\ findings' = findings
    BY <1>8 DEF ReturnMasked, Return, Spliceable
  <2>2. ~CutsCodePoint
    <3>1. Tiles(Spliced.pieces)
      BY <1>2, <1>3, <1>4, TilingFacts
    <3>2. Decodes(Spliced.pieces)
      BY <1>8 DEF ReturnMasked
    <3> QED BY <1>2, <3>1, <3>2, UncutFacts
  <2> QED BY <1>3, <1>4, <1>6, <2>1, <2>2
<1>9. CASE RefuseUnlocated
  <2>1. pc' = "refused" /\ ~FullyRedactable /\ findings' = findings
    BY <1>9 DEF RefuseUnlocated, Refuse
  <2> QED BY <1>6, <2>1
<1>10. CASE RefuseSplit
  <2>1. pc' = "refused" /\ ~Decodes(Spliced.pieces) /\ findings' = findings
    BY <1>10 DEF RefuseSplit, Refuse
  <2>2. CutsCodePoint
    BY <1>2, <1>3, <1>4, <2>1, SplitFacts
  <2> QED BY <1>6, <2>1, <2>2
<1>11. CASE UNCHANGED vars
  <2>1. findings' = findings /\ pc' = pc /\ out' = out
    BY <1>11 DEF vars
  <2> QED BY <1>6, <2>1 DEF OutInv
<1> QED BY <1>5, <1>7, <1>8, <1>9, <1>10, <1>11
    DEF Next, SkipResult, BeginResult, SkipCandidate, LocateEverywhere, LocateOnce, FinishResult,
        EndOfResults, AtCandidate

\* Initially.
LEMMA InitInv == Init => IInv
<1> SUFFICES ASSUME Init PROVE IInv
  OBVIOUS
<1>1. /\ text \in Texts /\ results \in ResultLists /\ i = 1 /\ j = 1 /\ spans = {}
      /\ nextAt = [k \in {} |-> 0] /\ findings = <<>> /\ pc = "result" /\ why = "none" /\ claims = <<>>
  BY DEF Init
<1>2. TypeOK
  <2>1. results \in Seq(Result)
    BY <1>1, InputsAssumption
  <2>2. Len(results) \in Nat
    BY <2>1
  <2>3. i \in 1 .. Len(results) + 1 /\ j \in Nat \ {0}
    BY <1>1, <2>2
  <2>4. nextAt \in [DOMAIN nextAt -> 0 .. ScannedBytes]
    BY <1>1
  <2>5. findings \in Seq(Finding) /\ claims \in Seq(Claim) /\ DOMAIN findings = {}
    BY <1>1
  <2> QED BY <1>1, <2>3, <2>4, <2>5 DEF TypeOK
<1>3. Len(claims) = 0 /\ Len(findings) = 0 /\ DOMAIN nextAt = {}
  BY <1>1
<1>4. CurrentInv /\ OrderInv /\ FindingsInv /\ OutInv
  BY <1>1, <1>3 DEF CurrentInv, OrderInv, FindingsInv, OutInv
<1>5. ASSUME NEW det \in Detectors, NEW v \in Seq(Bytes), Len(v) >= 1
      PROVE  Tracked(claims, nextAt, det, v)
  <2>1. Made(claims, Len(claims), det, v) = {}
    <3>1. 1 .. Len(claims) = {}
      BY <1>3
    <3> QED BY <3>1 DEF Made
  <2>2. Cardinality(Made(claims, Len(claims), det, v)) = 0
    BY <2>1, FS_EmptySet
  <2>3. LocateAll(v) \in Seq(SpanSet)
    BY <1>2, <1>5, InputFacts, LocateAllFacts DEF AllMatches, Matches
  <2>4. 0 \in 0 .. Len(LocateAll(v))
    BY <2>3
  <2> QED BY <1>3, <2>2, <2>4 DEF Tracked
<1>6. ClaimsInv
  BY <1>3, <1>5 DEF ClaimsInv, Tracking
<1> QED BY <1>2, <1>4, <1>6 DEF IInv

\* The inductive invariant is one.
THEOREM Invariant == Spec => []IInv
<1>1. IInv /\ [Next]_vars => IInv'
  BY TypeStep, CurrentStep, OrderStep, FindingsStep, ClaimsStep, OutStep DEF IInv
<1> QED BY InitInv, <1>1, PTL DEF Spec

-----------------------------------------------------------------------------
(* The theorems: what the invariant says of every scan and its redaction.  *)

\* A value located everywhere is not empty, and its finding holds each place of it.
LEMMA WholeValueFacts ==
  ASSUME IInv, NEW k \in DOMAIN findings, NEW v \in WholeValues(results[findings[k].from])
  PROVE  v \in Seq(Bytes) /\ Len(v) >= 1 /\ \A t \in ToSet(LocateAll(v)) : Holds(k, t)
<1> DEFINE res == results[findings[k].from]
           list == Candidates(res)
<1>1. k \in 1 .. Len(findings) /\ TypeOK
  <2>1. TypeOK /\ findings \in Seq(Finding)
    BY InputFacts DEF IInv, Report
  <2> QED BY <2>1
<1>2. res \in Result
  BY <1>1, FindingFacts
<1>3. PICK m \in DOMAIN list : v = list[m].value /\ Len(list[m].value) >= MinCandidateLen
  BY DEF WholeValues
<1>4. list \in Seq(Candidate)
  BY <1>2, CandidateFacts
<1> HIDE DEF list
<1>5. list[m] \in Candidate
  BY <1>3, <1>4
<1>6. v \in Seq(Bytes)
  BY <1>3, <1>5 DEF Candidate
<1>7. Len(v) >= 1
  <2>1. Len(v) \in Nat /\ Len(v) >= MinCandidateLen
    BY <1>3, <1>6
  <2> QED BY <2>1, LengthsAssumption
<1>8. \A t \in ToSet(LocateAll(v)) : Holds(k, t)
  BY <1>1 DEF IInv, FindingsInv, FindingOf, Holds
<1> QED BY <1>6, <1>7, <1>8

\* What is returned is a splice of the report.
LEMMA ReturnedFacts ==
  ASSUME IInv, pc = "returned"
  PROVE  /\ text \in Seq(Bytes) /\ Report /\ FullyRedactable /\ ~CutsCodePoint
         /\ Size \in Nat /\ ScannedBytes \in Nat /\ ScannedBytes <= Size
         /\ \E M : Blocks(M) /\ Pieced(out, M)
BY InputFacts DEF IInv, OutInv

\* Values have their types throughout; i and j stay in range, every span is in
\* the text, and the spans of a finding, as mergeSpans leaves them, are sorted and
\* neither overlap nor touch.
THEOREM TypeCorrect == Spec => []TypeOK
<1>1. IInv => TypeOK
  BY DEF IInv
<1> QED BY Invariant, <1>1, PTL

\* No copy of a reported credential survives a redaction in what Scan saw, wherever
\* copies overlap and wherever MaxBytes cuts: locateAll's search resumes behind
\* each match, so an occurrence it steps over begins inside the match before it, and
\* the splice masks that byte.
THEOREM NothingSurvives == Spec => []NoCopySurvives
<1>1. ASSUME IInv PROVE NoCopySurvives
  <2> SUFFICES ASSUME pc = "returned", NEW k \in DOMAIN findings,
                      NEW v \in WholeValues(results[findings[k].from]),
                      NEW s \in 0 .. Len(Visible), s + Len(v) <= Len(Visible) - Unscanned
               PROVE  ~OccursAt(v, s, Visible)
    BY DEF NoCopySurvives
  <2>1. text \in Seq(Bytes) /\ Report /\ \E M : Blocks(M) /\ Pieced(out, M)
    BY <1>1, ReturnedFacts
  <2>2. v \in Seq(Bytes) /\ Len(v) >= 1 /\ \A t \in ToSet(LocateAll(v)) : Holds(k, t)
    BY <1>1, WholeValueFacts
  <2>3. s \in Nat
    <3>1. Visible \in Seq(Symbols)
      BY <2>1, VisibleReads DEF Reads
    <3> QED BY <3>1
  <2> QED BY <2>1, <2>2, <2>3, NoOccurrence
<1> QED BY Invariant, <1>1, PTL

\* _apply_redaction masks exactly the covered bytes: its pieces follow each other
\* from the first byte of the text to the last, and a byte is in a mask if and only
\* if some span of the report covers it.
THEOREM MasksAreExact == Spec => []MasksExactlyTheSpans
<1>1. ASSUME IInv PROVE MasksExactlyTheSpans
  <2> SUFFICES ASSUME pc = "returned"
               PROVE  /\ out[1].from = 0 /\ out[Len(out)].to = Size
                      /\ \A n \in DOMAIN out :
                            /\ out[n].from <= out[n].to
                            /\ n > 1 => out[n].from = out[n - 1].to
                            /\ \A b \in out[n].from .. out[n].to - 1 :
                                  IsMask(out[n]) <=> b \in Covered(AllSpans)
    BY DEF MasksExactlyTheSpans
  <2>1. Tiles(out)
    BY <1>1, ReturnedFacts, TilingFacts
  <2> QED BY <2>1 DEF Tiles
<1> QED BY Invariant, <1>1, PTL

\* A mask carries the label of every finding with a span in it, each once, and no
\* other: _merge_labelled_spans drops no label and invents none.
THEOREM MasksAreNamed == Spec => []MasksNameTheirFindings
<1>1. ASSUME IInv PROVE MasksNameTheirFindings
  <2> SUFFICES ASSUME pc = "returned", NEW n \in DOMAIN out, IsMask(out[n])
               PROVE  /\ IsInjective(out[n].labels)
                      /\ ToSet(out[n].labels) = {Label(findings[s.finding]) : s \in
                            {u \in AllSpans : out[n].from <= u.from /\ u.to <= out[n].to}}
    BY DEF MasksNameTheirFindings
  <2>1. Report /\ Size \in Nat /\ ScannedBytes \in Nat /\ ScannedBytes <= Size
    BY <1>1, ReturnedFacts
  <2>2. PICK M : Blocks(M) /\ Pieced(out, M)
    BY <1>1, ReturnedFacts
  <2>3. n \in 1 .. Len(out)
    BY <2>1, <2>2, TilingFacts DEF Tiles
  <2> QED BY <2>1, <2>2, <2>3, MaskNames
<1> QED BY Invariant, <1>1, PTL

\* Every copy of a finding's value in what Scan saw that stands apart has a mask of
\* its own, with the fingerprint of the value: equal credentials have equal tags.
THEOREM CopiesTagged == Spec => []CopiesShareATag
<1>1. ASSUME IInv PROVE CopiesShareATag
  <2> SUFFICES ASSUME pc = "returned", NEW k \in DOMAIN findings, NEW s \in 0 .. ScannedBytes,
                      NEW v \in WholeValues(results[findings[k].from]), NEW e, e = s + Len(v),
                      OccursAt(v, s, Data),
                      \A u \in AllSpans : (u.from = s /\ u.to = e) \/ u.to < s \/ u.from > e
               PROVE  \E n \in DOMAIN out :
                         /\ out[n].from = s /\ out[n].to = e
                         /\ out[n].tag = Fingerprint(v) /\ Label(findings[k]) \in ToSet(out[n].labels)
    BY DEF CopiesShareATag
  <2>1. text \in Seq(Bytes) /\ Report
    BY <1>1, ReturnedFacts
  <2>2. PICK M : Blocks(M) /\ Pieced(out, M)
    BY <1>1, ReturnedFacts
  <2>3. v \in Seq(Bytes) /\ Len(v) >= 1 /\ \A t \in ToSet(LocateAll(v)) : Holds(k, t)
    BY <1>1, WholeValueFacts
  <2> QED BY <2>1, <2>2, <2>3, CopyTagged
<1> QED BY Invariant, <1>1, PTL

\* A text is refused if and only if a finding has no span or a mask would cut a code
\* point in two: a report with a span out of range or out of order never reaches the
\* splice, and nothing that would not decode is returned.
THEOREM RefusalsJustified == Spec => []RefusedIfUnmaskable
<1>1. ASSUME IInv PROVE RefusedIfUnmaskable
  <2>1. pc = "refused" => ~FullyRedactable \/ CutsCodePoint
    BY <1>1 DEF IInv, OutInv
  <2>2. pc = "returned" => FullyRedactable /\ ~CutsCodePoint
    BY <1>1, ReturnedFacts
  <2>3. Spliced.ok
    <3>1. Report /\ Size \in Nat /\ ScannedBytes \in Nat /\ ScannedBytes <= Size
      BY <1>1, InputFacts DEF IInv
    <3> QED BY <3>1, MergeLabelledBlocks, SplicePieces DEF Spliced
  <2> QED BY <2>1, <2>2, <2>3 DEF RefusedIfUnmaskable
<1> QED BY Invariant, <1>1, PTL

\* locate claims the occurrences of a short part in the order of the text, for each
\* detector by itself, and what a reported result claimed is masked.
THEOREM ClaimsAreOrdered == Spec => []ClaimsInOrder
<1>1. ASSUME IInv PROVE ClaimsInOrder
  <2> SUFFICES ASSUME NEW k \in DOMAIN claims
               PROVE  /\ claims[k].span = LocateAll(claims[k].value)
                            [Cardinality({m \in 1 .. k - 1 : claims[m].det = claims[k].det
                                            /\ claims[m].value = claims[k].value}) + 1]
                      /\ /\ pc = "returned"
                         /\ \E f \in DOMAIN findings : findings[f].from = claims[k].by
                         =>
                            \E n \in DOMAIN out : /\ IsMask(out[n])
                                                  /\ out[n].from <= claims[k].span.from
                                                  /\ claims[k].span.to <= out[n].to
    BY DEF ClaimsInOrder
  <2>1. TypeOK
    BY <1>1 DEF IInv
  <2>2. k \in 1 .. Len(claims)
    <3>1. claims \in Seq(Claim)
      BY <2>1 DEF TypeOK
    <3> QED BY <3>1
  <2>3. InOrder(claims, k)
    BY <1>1, <2>2 DEF IInv, ClaimsInv
  <2>4. ASSUME pc = "returned", NEW f \in DOMAIN findings, findings[f].from = claims[k].by
        PROVE  \E n \in DOMAIN out : /\ IsMask(out[n])
                                     /\ out[n].from <= claims[k].span.from
                                     /\ claims[k].span.to <= out[n].to
    <3>1. Report /\ Size \in Nat /\ ScannedBytes \in Nat /\ ScannedBytes <= Size
      BY <1>1, <2>4, ReturnedFacts
    <3>2. PICK M : Blocks(M) /\ Pieced(out, M)
      BY <1>1, <2>4, ReturnedFacts
    <3>3. f \in 1 .. Len(findings)
      BY <3>1 DEF Report
    <3>4. Holds(f, claims[k].span)
      BY <1>1, <2>2, <2>4, <3>3 DEF IInv, FindingsInv, FindingOf, Holds
    <3>5. claims[k].span.from \in Nat /\ claims[k].span.to \in Nat
      BY <2>1, <2>2, ClaimFacts
    <3> QED BY <3>1, <3>2, <3>4, <3>5, HeldMasked
  <2> QED BY <2>3, <2>4 DEF InOrder, Made
<1> QED BY Invariant, <1>1, PTL
=============================================================================

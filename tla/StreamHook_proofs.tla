-------------------------- MODULE StreamHook_proofs --------------------------
(***************************************************************************)
(* Proofs about StreamHook, for any number of choices, any items, overlap  *)
(* and window: under a policy that does not only log no whole credential   *)
(* reaches the consumer unseen, a stream is only cut off for a credential, *)
(* and what is delivered is what was scanned.                              *)
(***************************************************************************)
EXTENDS StreamHook, StreamScanner_proofs, WellFoundedInduction

-----------------------------------------------------------------------------
(* The text of an item.                                                    *)

\* Induction, for a set of natural numbers.
LEMMA EveryNatural ==
  ASSUME NEW S \in SUBSET Nat, 0 \in S, \A n \in S : n + 1 \in S
  PROVE  \A n \in Nat : n \in S
<1> DEFINE T == Nat \ S
<1> SUFFICES ASSUME T # {} PROVE FALSE
  OBVIOUS
<1>1. T \subseteq Nat
  OBVIOUS
<1>2. PICK x \in T : \A y \in T : <<y, x>> \notin OpToRel(<, Nat)
  <2> HIDE DEF T
  <2> QED BY <1>1, WFMin, NatLessThanWellFounded, Zenon
<1>3. x \in Nat /\ x # 0 /\ x - 1 \in Nat /\ x - 1 < x /\ x = (x - 1) + 1
  <2>1. x \in Nat /\ x \notin S
    BY <1>2, Zenon
  <2>2. x # 0
    BY <2>1, Zenon
  <2> QED BY <2>1, <2>2
<1>4. x - 1 \notin T
  <2>1. ASSUME x - 1 \in T PROVE <<x - 1, x>> \in OpToRel(<, Nat)
    BY <1>3, Zenon DEF OpToRel
  <2> QED BY <1>2, <2>1
<1>5. x \in S
  BY <1>3, <1>4
<1> QED BY <1>2, <1>5

\* The fragments before each choice, joined.
Joins(f, item, m) ==
    /\ f \in [1 .. m -> Seq(Chars)]
    /\ \A n \in 1 .. m : f[n] = IF n = 1 THEN <<>> ELSE f[n - 1] \o item[n - 1]

\* The recursion of TextBefore has a solution, whatever the number of choices.
LEMMA JoinExists ==
  ASSUME NEW item \in [Choices -> Seq(Chars)]
  PROVE  \E f : Joins(f, item, NumChoices)
<1> DEFINE S == {m \in Nat : m <= NumChoices => \E f : Joins(f, item, m)}
<1>1. 0 \in S
  <2>1. Joins([n \in 1 .. 0 |-> <<>>], item, 0)
    BY DEF Joins
  <2> QED BY <2>1
<1>2. ASSUME NEW m \in S PROVE m + 1 \in S
  <2> SUFFICES ASSUME m + 1 <= NumChoices PROVE \E f : Joins(f, item, m + 1)
    OBVIOUS
  <2>1. m \in Nat /\ m <= NumChoices
    BY ItemsAssumption
  <2>2. PICK f : Joins(f, item, m)
    BY <1>2, <2>1
  <2> DEFINE last == IF m = 0 THEN <<>> ELSE f[m] \o item[m]
             g == [n \in 1 .. m + 1 |-> IF n = m + 1 THEN last ELSE f[n]]
  <2>3. last \in Seq(Chars)
    <3>1. CASE m = 0
      BY <3>1
    <3>2. CASE m # 0
      <4>1. m \in 1 .. m /\ m \in Choices
        BY <2>1, <3>2, ItemsAssumption DEF Choices
      <4>2. f[m] \in Seq(Chars) /\ item[m] \in Seq(Chars)
        BY <2>2, <4>1 DEF Joins
      <4>3. f[m] \o item[m] \in Seq(Chars)
        BY <4>2
      <4> QED BY <3>2, <4>3
    <3> QED BY <3>1, <3>2
  <2>4. \A n \in 1 .. m + 1 : n = m + 1 \/ n \in 1 .. m
    BY <2>1
  <2>5. g \in [1 .. m + 1 -> Seq(Chars)]
    <3> HIDE DEF last
    <3> QED BY <2>2, <2>3, <2>4 DEF Joins
  <2>6. ASSUME NEW n \in 1 .. m + 1
        PROVE  g[n] = IF n = 1 THEN <<>> ELSE g[n - 1] \o item[n - 1]
    <3>1. CASE n = m + 1
      <4>1. g[n] = last
        BY <3>1
      <4>2. m # 0 => g[m] = f[m] /\ n - 1 = m /\ n # 1
        BY <2>1, <3>1
      <4>3. m = 0 => n = 1
        BY <3>1
      <4> HIDE DEF g
      <4> QED BY <4>1, <4>2, <4>3
    <3>2. CASE n \in 1 .. m
      <4>1. g[n] = f[n] /\ (n # 1 => n - 1 \in 1 .. m /\ g[n - 1] = f[n - 1])
        BY <2>1, <3>2
      <4> HIDE DEF g
      <4> QED BY <2>2, <3>2, <4>1 DEF Joins
    <3> QED BY <2>4, <3>1, <3>2
  <2> HIDE DEF g
  <2> QED BY <2>5, <2>6 DEF Joins
<1>3. \A m \in Nat : m \in S
  <2> HIDE DEF S
  <2>1. S \in SUBSET Nat
    BY DEF S
  <2> QED BY <1>1, <1>2, <2>1, EveryNatural
<1> QED BY <1>3, ItemsAssumption

\* What TextBefore returns, choice by choice.
LEMMA TextBeforeSteps ==
  ASSUME NEW item \in [Choices -> Seq(Chars)]
  PROVE  /\ TextBefore(1, item) = <<>>
         /\ \A n \in Choices : n # 1 => TextBefore(n, item) = TextBefore(n - 1, item) \o item[n - 1]
<1> DEFINE body(f) == [n \in Choices |-> IF n = 1 THEN <<>> ELSE f[n - 1] \o item[n - 1]]
           joined == CHOOSE f : f = body(f)
<1>1. PICK f : Joins(f, item, NumChoices)
  BY JoinExists
<1>2. f = body(f)
  BY <1>1 DEF Joins, Choices
<1>3. joined = body(joined)
  BY <1>2
<1>4. \A c \in Choices : TextBefore(c, item) = joined[c]
  BY DEF TextBefore
<1>5. 1 \in Choices /\ \A n \in Choices : n # 1 => n - 1 \in Choices
  BY ItemsAssumption DEF Choices
<1> HIDE DEF joined
<1>6. joined[1] = <<>> /\ \A n \in Choices : n # 1 => joined[n] = joined[n - 1] \o item[n - 1]
  BY <1>3, <1>5
<1> QED BY <1>4, <1>5, <1>6

\* The fragments up to a choice: each of its characters is in one of them.
Upto(n, item) == TextBefore(n, item) \o item[n]

FragmentsLie(n, item) ==
    /\ Upto(n, item) \in Seq(Chars)
    /\ \A c \in 1 .. n :
          /\ TextBefore(c, item) \in Seq(Chars)
          /\ \A k \in 1 .. Len(item[c]) :
                /\ Len(TextBefore(c, item)) + k \in 1 .. Len(Upto(n, item))
                /\ Upto(n, item)[Len(TextBefore(c, item)) + k] = item[c][k]
    /\ \A p \in 1 .. Len(Upto(n, item)) :
          \E c \in 1 .. n : \E k \in 1 .. Len(item[c]) : p = Len(TextBefore(c, item)) + k

\* Appending a fragment.
LEMMA Appended ==
  ASSUME NEW s \in Seq(Chars), NEW u \in Seq(Chars)
  PROVE  /\ s \o u \in Seq(Chars) /\ Len(s \o u) = Len(s) + Len(u)
         /\ Len(s) \in Nat /\ Len(u) \in Nat
         /\ \A p \in 1 .. Len(s) : (s \o u)[p] = s[p]
         /\ \A k \in 1 .. Len(u) : (s \o u)[Len(s) + k] = u[k]
         /\ \A p \in 1 .. Len(s \o u) : p \in 1 .. Len(s) \/ \E k \in 1 .. Len(u) : p = Len(s) + k
<1>1. /\ s \o u \in Seq(Chars) /\ Len(s \o u) = Len(s) + Len(u)
      /\ Len(s) \in Nat /\ Len(u) \in Nat
      /\ \A p \in 1 .. Len(s) : (s \o u)[p] = s[p]
  OBVIOUS
<1>2. ASSUME NEW k \in 1 .. Len(u) PROVE (s \o u)[Len(s) + k] = u[k]
  OBVIOUS
<1>3. ASSUME NEW p \in 1 .. Len(s \o u), p \notin 1 .. Len(s)
      PROVE  \E k \in 1 .. Len(u) : p = Len(s) + k
  <2>1. p - Len(s) \in 1 .. Len(u) /\ p = Len(s) + (p - Len(s))
    BY <1>1, <1>3
  <2> QED BY <2>1
<1> QED BY <1>1, <1>2, <1>3

\* The text up to the first choice is its fragment.
LEMMA FirstFragment ==
  ASSUME NEW item \in [Choices -> Seq(Chars)]
  PROVE  FragmentsLie(1, item)
<1> DEFINE u == item[1]
<1>1. 1 \in Choices /\ u \in Seq(Chars) /\ TextBefore(1, item) = <<>>
  <2>1. 1 \in Choices
    BY ItemsAssumption DEF Choices
  <2>2. TextBefore(1, item) = <<>>
    BY TextBeforeSteps
  <2> QED BY <2>1, <2>2
<1>2. <<>> \in Seq(Chars) /\ Len(<<>>) = 0
  OBVIOUS
<1>3. Upto(1, item) = u
  <2>1. <<>> \o u = u
    BY <1>1
  <2> QED BY <1>1, <2>1 DEF Upto
<1>4. 1 \in 1 .. 1 /\ \A c \in 1 .. 1 : c = 1
  OBVIOUS
<1>5. \A k \in 1 .. Len(u) : 0 + k = k /\ k \in Int
  OBVIOUS
<1>6. \A c \in 1 .. 1 : item[c] = u /\ TextBefore(c, item) = <<>>
  BY <1>1, <1>4
<1> HIDE DEF u
<1>7. \A c \in 1 .. 1 : /\ TextBefore(c, item) \in Seq(Chars)
                        /\ \A k \in 1 .. Len(item[c]) :
                              /\ Len(TextBefore(c, item)) + k \in 1 .. Len(u)
                              /\ u[Len(TextBefore(c, item)) + k] = item[c][k]
  BY <1>2, <1>5, <1>6
<1>8. \A p \in 1 .. Len(u) :
         \E c \in 1 .. 1 : \E k \in 1 .. Len(item[c]) : p = Len(TextBefore(c, item)) + k
  BY <1>2, <1>4, <1>5, <1>6
<1> QED BY <1>1, <1>3, <1>7, <1>8 DEF FragmentsLie

\* The text up to a choice, from the text up to the one before it.
LEMMA NextFragment ==
  ASSUME NEW item \in [Choices -> Seq(Chars)], NEW n \in Choices, n + 1 \in Choices,
         FragmentsLie(n, item)
  PROVE  FragmentsLie(n + 1, item)
<1> DEFINE s == Upto(n, item)
           u == item[n + 1]
           t == Upto(n + 1, item)
<1>1. s \in Seq(Chars) /\ u \in Seq(Chars) /\ n \in Nat /\ n >= 1
  BY ItemsAssumption DEF FragmentsLie, Choices
<1>2. TextBefore(n + 1, item) = s /\ t = s \o u
  <2>1. n + 1 # 1 /\ (n + 1) - 1 = n
    BY <1>1
  <2>2. TextBefore(n + 1, item) = s
    BY <2>1, TextBeforeSteps DEF Upto
  <2> QED BY <2>2 DEF Upto
<1>3. /\ t \in Seq(Chars) /\ Len(t) = Len(s) + Len(u) /\ Len(s) \in Nat /\ Len(u) \in Nat
      /\ \A p \in 1 .. Len(s) : t[p] = s[p]
      /\ \A k \in 1 .. Len(u) : t[Len(s) + k] = u[k]
      /\ \A p \in 1 .. Len(t) : p \in 1 .. Len(s) \/ \E k \in 1 .. Len(u) : p = Len(s) + k
  <2> HIDE DEF s, u, t
  <2>1. /\ s \o u \in Seq(Chars) /\ Len(s \o u) = Len(s) + Len(u)
        /\ Len(s) \in Nat /\ Len(u) \in Nat
        /\ \A p \in 1 .. Len(s) : (s \o u)[p] = s[p]
        /\ \A k \in 1 .. Len(u) : (s \o u)[Len(s) + k] = u[k]
        /\ \A p \in 1 .. Len(s \o u) : p \in 1 .. Len(s) \/ \E k \in 1 .. Len(u) : p = Len(s) + k
    BY <1>1, Appended
  <2> QED BY <1>2, <2>1
<1>4. \A c \in 1 .. n + 1 : c \in 1 .. n \/ c = n + 1
  BY <1>1
<1>5. \A c \in 1 .. n :
         /\ TextBefore(c, item) \in Seq(Chars)
         /\ \A k \in 1 .. Len(item[c]) : /\ Len(TextBefore(c, item)) + k \in 1 .. Len(s)
                                         /\ s[Len(TextBefore(c, item)) + k] = item[c][k]
  BY DEF FragmentsLie
<1>6. \A p \in 1 .. Len(s) :
         \E c \in 1 .. n : \E k \in 1 .. Len(item[c]) : p = Len(TextBefore(c, item)) + k
  BY DEF FragmentsLie
<1> HIDE DEF s, u, t
<1>7. 1 .. Len(s) \subseteq 1 .. Len(t) /\ \A k \in 1 .. Len(u) : Len(s) + k \in 1 .. Len(t)
  BY <1>3
<1>8. ASSUME NEW c \in 1 .. n + 1
      PROVE  /\ TextBefore(c, item) \in Seq(Chars)
             /\ \A k \in 1 .. Len(item[c]) :
                   /\ Len(TextBefore(c, item)) + k \in 1 .. Len(t)
                   /\ t[Len(TextBefore(c, item)) + k] = item[c][k]
  <2>1. CASE c \in 1 .. n
    BY <1>3, <1>5, <1>7, <2>1
  <2>2. CASE c = n + 1
    BY <1>1, <1>2, <1>3, <1>7, <2>2 DEF u
  <2> QED BY <1>4, <2>1, <2>2
<1>9. ASSUME NEW p \in 1 .. Len(t)
      PROVE  \E c \in 1 .. n + 1 : \E k \in 1 .. Len(item[c]) : p = Len(TextBefore(c, item)) + k
  <2>1. CASE p \in 1 .. Len(s)
    <3>1. 1 .. n \subseteq 1 .. n + 1
      BY <1>1
    <3> QED BY <1>6, <2>1, <3>1
  <2>2. CASE \E k \in 1 .. Len(u) : p = Len(s) + k
    <3>1. n + 1 \in 1 .. n + 1
      BY <1>1
    <3> QED BY <1>2, <2>2, <3>1 DEF u
  <2> QED BY <1>3, <2>1, <2>2
<1> QED BY <1>3, <1>8, <1>9 DEF FragmentsLie, t

\* The text of an item has each character of each choice, at its place, and
\* nothing else.
LEMMA TextOfFacts ==
  ASSUME NEW item \in [Choices -> Seq(Chars)]
  PROVE  /\ TextOf(item) \in Seq(Chars)
         /\ \A c \in Choices :
               /\ Len(TextBefore(c, item)) \in Nat
               /\ \A k \in 1 .. Len(item[c]) :
                     /\ Len(TextBefore(c, item)) + k \in 1 .. Len(TextOf(item))
                     /\ TextOf(item)[Len(TextBefore(c, item)) + k] = item[c][k]
         /\ \A p \in 1 .. Len(TextOf(item)) :
               \E c \in Choices : \E k \in 1 .. Len(item[c]) : p = Len(TextBefore(c, item)) + k
<1> DEFINE S == {m \in Nat : m \in Choices => FragmentsLie(m, item)}
<1>1. 0 \in S
  BY DEF Choices
<1>2. ASSUME NEW m \in S PROVE m + 1 \in S
  <2>1. CASE m = 0
    BY <2>1, FirstFragment
  <2>2. CASE m # 0 /\ m + 1 \in Choices
    <3>1. m \in Choices
      BY <2>2, ItemsAssumption DEF Choices
    <3> QED BY <2>2, <3>1, NextFragment
  <2> QED BY <2>1, <2>2
<1>3. \A m \in Nat : m \in S
  <2> HIDE DEF S
  <2>1. S \in SUBSET Nat
    BY DEF S
  <2> QED BY <1>1, <1>2, <2>1, EveryNatural
<1>4. NumChoices \in Choices /\ NumChoices \in Nat /\ Choices = 1 .. NumChoices
  BY ItemsAssumption DEF Choices
<1>5. FragmentsLie(NumChoices, item)
  BY <1>3, <1>4
<1>6. Upto(NumChoices, item) = TextOf(item)
  BY DEF Upto, TextOf
<1>7. \A c \in Choices : TextBefore(c, item) \in Seq(Chars)
  BY <1>4, <1>5 DEF FragmentsLie
<1>8. \A c \in Choices : Len(TextBefore(c, item)) \in Nat
  BY <1>7
<1> QED BY <1>4, <1>5, <1>6, <1>8 DEF FragmentsLie
-----------------------------------------------------------------------------
(* The invariant.                                                          *)

\* The texts, one for each choice, lie in the scanned text: each character at its
\* place, in order, and nothing else is in it.
Aligned(texts) ==
    /\ \A c \in Choices :
          /\ Len(texts[c]) <= Len(place[c])
          /\ \A i \in 1 .. Len(texts[c]) :
                place[c][i] \in 1 .. Len(stream) /\ stream[place[c][i]] = texts[c][i]
          /\ \A a, b \in 1 .. Len(texts[c]) : a < b => place[c][b] - place[c][a] >= b - a
    /\ \A p \in 1 .. Len(stream) : \E c \in Choices : \E i \in 1 .. Len(texts[c]) : place[c][i] = p

Scanned == IF hpc = "raised" THEN delivered ELSE upstream

\* Unless the policy only logs, the first credential a scan finds ends the stream.
HInv ==
    /\ IInv /\ HookTypeOK
    /\ \A c \in Choices : /\ Len(place[c]) = Len(upstream[c])
                          /\ Len(delivered[c]) <= Len(upstream[c])
    /\ hpc \in {"open", "ended"} => delivered = upstream /\ (onDetection # "log" => seen = {})
    /\ Aligned(Scanned)
    /\ hpc \in {"blocked", "raised"} => NoSecretDelivered
    /\ BlockedForASecret

-----------------------------------------------------------------------------
(* What the steps do to the texts.                                         *)

\* What the concatenation of two sequences holds.
LEMMA Concatenation ==
  ASSUME NEW S, NEW s \in Seq(S), NEW u \in Seq(S)
  PROVE  /\ s \o u \in Seq(S) /\ Len(s \o u) = Len(s) + Len(u)
         /\ \A i \in 1 .. Len(s) : (s \o u)[i] = s[i]
         /\ \A k \in 1 .. Len(u) : (s \o u)[Len(s) + k] = u[k]
OBVIOUS

\* new is texts with more behind them, choice by choice.
Grown(new, texts, more, S) ==
    /\ new \in [Choices -> Seq(S)]
    /\ \A c \in Choices :
          /\ Len(new[c]) = Len(texts[c]) + Len(more[c])
          /\ \A i \in 1 .. Len(texts[c]) : new[c][i] = texts[c][i]
          /\ \A k \in 1 .. Len(more[c]) : new[c][Len(texts[c]) + k] = more[c][k]

\* Extended grows the text of every choice by its fragment.
LEMMA ExtendedFacts ==
  ASSUME NEW S, NEW texts \in [Choices -> Seq(S)], NEW more \in [Choices -> Seq(S)]
  PROVE  Grown(Extended(texts, more), texts, more, S)
<1> DEFINE new == Extended(texts, more)
<1>2. \A c \in Choices : new[c] = texts[c] \o more[c]
  BY DEF Extended
<1>3. \A c \in Choices : texts[c] \in Seq(S) /\ more[c] \in Seq(S)
  OBVIOUS
<1>4. new = [c \in Choices |-> new[c]]
  BY DEF Extended
<1> HIDE DEF new
<1>5. ASSUME NEW c \in Choices
      PROVE  /\ new[c] \in Seq(S) /\ Len(new[c]) = Len(texts[c]) + Len(more[c])
             /\ \A i \in 1 .. Len(texts[c]) : new[c][i] = texts[c][i]
             /\ \A k \in 1 .. Len(more[c]) : new[c][Len(texts[c]) + k] = more[c][k]
  <2> DEFINE s == texts[c]
             u == more[c]
  <2>1. s \in Seq(S) /\ u \in Seq(S) /\ new[c] = s \o u
    BY <1>2, <1>3
  <2> HIDE DEF s, u
  <2>2. /\ s \o u \in Seq(S) /\ Len(s \o u) = Len(s) + Len(u)
        /\ \A i \in 1 .. Len(s) : (s \o u)[i] = s[i]
        /\ \A k \in 1 .. Len(u) : (s \o u)[Len(s) + k] = u[k]
    BY <2>1, Concatenation
  <2> QED BY <2>1, <2>2 DEF s, u
<1>6. new \in [Choices -> Seq(S)]
  BY <1>4, <1>5
<1> QED BY <1>5, <1>6 DEF new, Grown

\* The places an item gives its characters follow the scanned text.
LEMMA PlacesOfFacts ==
  ASSUME NEW item \in [Choices -> Seq(Chars)], stream \in Seq(Chars)
  PROVE  /\ PlacesOf(item) \in [Choices -> Seq(Nat \ {0})]
         /\ \A c \in Choices :
               /\ Len(PlacesOf(item)[c]) = Len(item[c])
               /\ \A k \in 1 .. Len(item[c]) :
                     PlacesOf(item)[c][k] = Len(stream) + Len(TextBefore(c, item)) + k
<1> DEFINE P == PlacesOf(item)
<1>1. \A c \in Choices : P[c] = [k \in DOMAIN item[c] |-> Len(stream) + Len(TextBefore(c, item)) + k]
  BY DEF PlacesOf
<1>2. P = [c \in Choices |-> P[c]]
  BY DEF PlacesOf
<1>3. Len(stream) \in Nat
  OBVIOUS
<1>4. \A c \in Choices : Len(TextBefore(c, item)) \in Nat
  BY TextOfFacts
<1> HIDE DEF P
<1>5. ASSUME NEW c \in Choices
      PROVE  /\ P[c] \in Seq(Nat \ {0}) /\ Len(P[c]) = Len(item[c])
             /\ \A k \in 1 .. Len(item[c]) : P[c][k] = Len(stream) + Len(TextBefore(c, item)) + k
  <2> DEFINE n == Len(item[c])
             off == Len(stream) + Len(TextBefore(c, item))
  <2>1. n \in Nat /\ DOMAIN item[c] = 1 .. n /\ off \in Nat
    BY <1>3, <1>4
  <2>2. P[c] = [k \in 1 .. n |-> off + k]
    BY <1>1, <2>1
  <2> HIDE DEF n, off
  <2>3. \A k \in 1 .. n : off + k \in Nat \ {0}
    BY <2>1
  <2>4. P[c] \in [1 .. n -> Nat \ {0}]
    BY <2>2, <2>3
  <2>5. P[c] \in Seq(Nat \ {0}) /\ Len(P[c]) = n
    BY <2>1, <2>4
  <2> QED BY <2>2, <2>5 DEF n, off
<1>6. P \in [Choices -> Seq(Nat \ {0})]
  BY <1>2, <1>5
<1> QED BY <1>5, <1>6 DEF P

\* An item arrives: its characters and their places are appended.
Received(item, c) ==
    /\ Len(upstream'[c]) = Len(upstream[c]) + Len(item[c])
    /\ Len(place'[c]) = Len(place[c]) + Len(item[c])
    /\ Len(upstream[c]) \in Nat /\ Len(place[c]) \in Nat /\ Len(item[c]) \in Nat
    /\ \A i \in 1 .. Len(upstream[c]) : upstream'[c][i] = upstream[c][i]
    /\ \A i \in 1 .. Len(place[c]) : place'[c][i] = place[c][i]
    /\ \A k \in 1 .. Len(item[c]) : upstream'[c][Len(upstream[c]) + k] = item[c][k]
    /\ \A k \in 1 .. Len(item[c]) :
          place'[c][Len(place[c]) + k] = Len(stream) + Len(TextBefore(c, item)) + k

\* Receive grows the histories of every choice alike.
LEMMA ReceiveFacts ==
  ASSUME HookTypeOK, NEW item, Receive(item)
  PROVE  /\ item \in [Choices -> Seq(Chars)]
         /\ upstream' \in [Choices -> Seq(Chars)] /\ place' \in [Choices -> Seq(Nat \ {0})]
         /\ upstream' = Extended(upstream, item)
         /\ \A c \in Choices : Received(item, c)
<1>1. item \in [Choices -> Seq(Chars)]
  BY ItemsAssumption DEF Receive, Choices
<1>2. /\ upstream \in [Choices -> Seq(Chars)] /\ place \in [Choices -> Seq(Nat \ {0})]
      /\ stream \in Seq(Chars)
  BY DEF HookTypeOK, ScannerTypeOK
<1>3. upstream' = Extended(upstream, item) /\ place' = Extended(place, PlacesOf(item))
  BY DEF Receive
<1>4. /\ upstream' \in [Choices -> Seq(Chars)]
      /\ \A c \in Choices :
            /\ Len(upstream'[c]) = Len(upstream[c]) + Len(item[c])
            /\ \A i \in 1 .. Len(upstream[c]) : upstream'[c][i] = upstream[c][i]
            /\ \A k \in 1 .. Len(item[c]) : upstream'[c][Len(upstream[c]) + k] = item[c][k]
  <2>1. Grown(Extended(upstream, item), upstream, item, Chars)
    BY <1>1, <1>2, ExtendedFacts
  <2> QED BY <1>3, <2>1 DEF Grown
<1>5. /\ PlacesOf(item) \in [Choices -> Seq(Nat \ {0})]
      /\ \A c \in Choices :
            /\ Len(PlacesOf(item)[c]) = Len(item[c])
            /\ \A k \in 1 .. Len(item[c]) :
                  PlacesOf(item)[c][k] = Len(stream) + Len(TextBefore(c, item)) + k
  BY <1>1, <1>2, PlacesOfFacts
<1>6. /\ place' \in [Choices -> Seq(Nat \ {0})]
      /\ \A c \in Choices :
            /\ Len(place'[c]) = Len(place[c]) + Len(PlacesOf(item)[c])
            /\ \A i \in 1 .. Len(place[c]) : place'[c][i] = place[c][i]
            /\ \A k \in 1 .. Len(PlacesOf(item)[c]) :
                  place'[c][Len(place[c]) + k] = PlacesOf(item)[c][k]
  <2> DEFINE more == PlacesOf(item)
  <2>1. more \in [Choices -> Seq(Nat \ {0})] /\ place' = Extended(place, more)
    BY <1>3, <1>5
  <2> HIDE DEF more
  <2>2. Grown(Extended(place, more), place, more, Nat \ {0})
    BY <1>2, <2>1, ExtendedFacts
  <2> QED BY <2>1, <2>2 DEF Grown, more
<1>7. \A c \in Choices :
         Len(upstream[c]) \in Nat /\ Len(place[c]) \in Nat /\ Len(item[c]) \in Nat
  <2>1. \A c \in Choices :
           upstream[c] \in Seq(Chars) /\ place[c] \in Seq(Nat \ {0}) /\ item[c] \in Seq(Chars)
    BY <1>1, <1>2
  <2> QED BY <2>1
<1>8. ASSUME NEW c \in Choices
      PROVE  Received(item, c)
  <2> DEFINE more == PlacesOf(item)[c]
  <2>1. Len(more) = Len(item[c]) /\ more = PlacesOf(item)[c]
    BY <1>5
  <2>2. \A k \in 1 .. Len(item[c]) : more[k] = Len(stream) + Len(TextBefore(c, item)) + k
    BY <1>5
  <2> HIDE DEF more
  <2>3. /\ Len(place'[c]) = Len(place[c]) + Len(item[c])
        /\ \A k \in 1 .. Len(item[c]) : place'[c][Len(place[c]) + k] = more[k]
    BY <1>6, <2>1
  <2>4. \A k \in 1 .. Len(item[c]) :
           place'[c][Len(place[c]) + k] = Len(stream) + Len(TextBefore(c, item)) + k
    BY <2>2, <2>3
  <2>5. /\ Len(upstream'[c]) = Len(upstream[c]) + Len(item[c])
        /\ \A i \in 1 .. Len(upstream[c]) : upstream'[c][i] = upstream[c][i]
        /\ \A k \in 1 .. Len(item[c]) : upstream'[c][Len(upstream[c]) + k] = item[c][k]
    BY <1>4
  <2>6. \A i \in 1 .. Len(place[c]) : place'[c][i] = place[c][i]
    BY <1>6
  <2> QED BY <1>7, <2>3, <2>4, <2>5, <2>6 DEF Received
<1> QED BY <1>1, <1>3, <1>4, <1>6, <1>8

\* An item whose text is scanned: the texts and the scanned text grow alike.
LEMMA AlignedGrows ==
  ASSUME HookTypeOK, NEW item, Receive(item), Aligned(upstream),
         \A c \in Choices : Len(place[c]) = Len(upstream[c]),
         stream' = stream \o TextOf(item)
  PROVE  Aligned(upstream)'
<1> DEFINE text == TextOf(item)
           off(c) == Len(TextBefore(c, item))
<1>1. item \in [Choices -> Seq(Chars)] /\ \A c \in Choices : Received(item, c)
  BY ReceiveFacts
<1>2. /\ text \in Seq(Chars)
      /\ \A c \in Choices :
            /\ off(c) \in Nat
            /\ \A k \in 1 .. Len(item[c]) : /\ off(c) + k \in 1 .. Len(text)
                                            /\ text[off(c) + k] = item[c][k]
      /\ \A p \in 1 .. Len(text) : \E c \in Choices : \E k \in 1 .. Len(item[c]) : p = off(c) + k
  BY <1>1, TextOfFacts
<1> HIDE DEF text, off
<1>3. /\ Len(stream') = Len(stream) + Len(text) /\ Len(stream) \in Nat /\ Len(text) \in Nat
      /\ \A p \in 1 .. Len(stream) : stream'[p] = stream[p]
      /\ \A k \in 1 .. Len(text) : stream'[Len(stream) + k] = text[k]
      /\ \A p \in 1 .. Len(stream') : \/ p \in 1 .. Len(stream)
                                      \/ \E k \in 1 .. Len(text) : p = Len(stream) + k
  <2>1. stream \in Seq(Chars)
    BY DEF HookTypeOK, ScannerTypeOK
  <2>2. /\ Len(stream \o text) = Len(stream) + Len(text) /\ Len(stream) \in Nat /\ Len(text) \in Nat
        /\ \A p \in 1 .. Len(stream) : (stream \o text)[p] = stream[p]
        /\ \A k \in 1 .. Len(text) : (stream \o text)[Len(stream) + k] = text[k]
        /\ \A p \in 1 .. Len(stream \o text) : \/ p \in 1 .. Len(stream)
                                               \/ \E k \in 1 .. Len(text) : p = Len(stream) + k
    BY <1>2, <2>1, Appended
  <2>3. stream' = stream \o text
    BY DEF text
  <2> QED BY <2>2, <2>3
<1>4. \A c \in Choices :
         /\ \A i \in 1 .. Len(upstream[c]) :
               place[c][i] \in 1 .. Len(stream) /\ stream[place[c][i]] = upstream[c][i]
         /\ \A a, b \in 1 .. Len(upstream[c]) : a < b => place[c][b] - place[c][a] >= b - a
  BY DEF Aligned
<1>5. ASSUME NEW c \in Choices
      PROVE  /\ Len(upstream'[c]) <= Len(place'[c])
             /\ \A i \in 1 .. Len(upstream'[c]) :
                   place'[c][i] \in 1 .. Len(stream') /\ stream'[place'[c][i]] = upstream'[c][i]
             /\ \A a, b \in 1 .. Len(upstream'[c]) : a < b => place'[c][b] - place'[c][a] >= b - a
  <2> DEFINE n == Len(upstream[c])
             m == Len(item[c])
             o == Len(stream) + off(c)
             P == place'[c]
             U == upstream'[c]
  <2>a. Received(item, c) /\ Len(place[c]) = Len(upstream[c])
    BY <1>1
  <2>1. /\ n \in Nat /\ m \in Nat /\ o \in Nat /\ o >= Len(stream)
        /\ Len(U) = n + m /\ Len(P) = n + m
    <3>1. n \in Nat /\ m \in Nat /\ Len(U) = n + m /\ Len(P) = n + m
      BY <2>a DEF Received
    <3>2. off(c) \in Nat
      BY <1>2
    <3> QED BY <1>3, <3>1, <3>2
  <2>2. \A i \in 1 .. n : P[i] = place[c][i] /\ U[i] = upstream[c][i]
    BY <2>a DEF Received
  <2>3. ASSUME NEW k \in 1 .. m
        PROVE  P[n + k] = o + k /\ U[n + k] = item[c][k]
    <3>1. U[n + k] = item[c][k]
      BY <2>a DEF Received
    <3>2. P[Len(place[c]) + k] = o + k
      BY <2>a DEF Received, off
    <3> QED BY <2>a, <3>1, <3>2
  <2>4. \A i \in 1 .. n : P[i] \in 1 .. Len(stream) /\ stream[P[i]] = U[i]
    BY <1>4, <2>2
  <2>5. \A a, b \in 1 .. n : a < b => P[b] - P[a] >= b - a
    BY <1>4, <2>2
  <2>6. \A k \in 1 .. m : off(c) + k \in 1 .. Len(text) /\ text[off(c) + k] = item[c][k]
    BY <1>2
  <2>7. \A k \in 1 .. m : o + k \in 1 .. Len(stream') /\ stream'[o + k] = item[c][k]
    <3> SUFFICES ASSUME NEW k \in 1 .. m
                 PROVE  o + k \in 1 .. Len(stream') /\ stream'[o + k] = item[c][k]
      OBVIOUS
    <3>1. PICK j \in 1 .. Len(text) : j = off(c) + k /\ text[j] = item[c][k]
      BY <2>6
    <3>2. o + k = Len(stream) + j
      BY <1>2, <1>3, <3>1
    <3>3. stream'[Len(stream) + j] = text[j]
      BY <1>3, <3>1
    <3>4. Len(stream) + j \in 1 .. Len(stream')
      BY <1>3, <3>1
    <3> HIDE DEF o
    <3> QED BY <3>1, <3>2, <3>3, <3>4
  <2> HIDE DEF n, m, o, P, U
  <2>8. \A i \in 1 .. n + m : i \in 1 .. n \/ \E k \in 1 .. m : i = n + k
    <3> SUFFICES ASSUME NEW i \in 1 .. n + m, i \notin 1 .. n PROVE \E k \in 1 .. m : i = n + k
      OBVIOUS
    <3>1. i - n \in 1 .. m /\ i = n + (i - n)
      BY <2>1
    <3> QED BY <3>1
  <2>9. ASSUME NEW i \in 1 .. n + m
        PROVE  P[i] \in 1 .. Len(stream') /\ stream'[P[i]] = U[i]
    <3>1. CASE i \in 1 .. n
      BY <1>3, <2>4, <3>1
    <3>2. CASE \E k \in 1 .. m : i = n + k
      BY <2>3, <2>7, <3>2
    <3> QED BY <2>8, <3>1, <3>2
  <2>10. ASSUME NEW a \in 1 .. n + m, NEW b \in 1 .. n + m, a < b
         PROVE  P[b] - P[a] >= b - a
    <3>1. CASE b \in 1 .. n
      <4>1. a \in 1 .. n
        BY <2>1, <2>10, <3>1
      <4> QED BY <2>5, <2>10, <3>1, <4>1
    <3>2. CASE a \in 1 .. n /\ b \notin 1 .. n
      <4>1. PICK k \in 1 .. m : b = n + k
        BY <2>8, <3>2
      <4>2. P[b] = o + k
        BY <2>3, <4>1
      <4>3. P[a] <= Len(stream) - (n - a) /\ P[a] \in Int
        <5>1. n \in 1 .. n /\ P[n] \in 1 .. Len(stream) /\ P[a] \in 1 .. Len(stream)
          BY <2>1, <2>4, <3>2
        <5>2. CASE a = n
          BY <1>3, <2>1, <5>1, <5>2
        <5>3. CASE a < n
          <6>1. P[n] - P[a] >= n - a
            BY <2>5, <3>2, <5>1, <5>3
          <6> QED BY <1>3, <2>1, <3>2, <5>1, <6>1
        <5> QED BY <2>1, <3>2, <5>2, <5>3
      <4> QED BY <1>3, <2>1, <3>2, <4>1, <4>2, <4>3
    <3>3. CASE a \notin 1 .. n /\ b \notin 1 .. n
      <4>1. PICK j \in 1 .. m : a = n + j
        BY <2>8, <3>3
      <4>2. PICK k \in 1 .. m : b = n + k
        BY <2>8, <3>3
      <4>3. P[a] = o + j /\ P[b] = o + k
        BY <2>3, <4>1, <4>2
      <4> QED BY <2>1, <4>1, <4>2, <4>3
    <3> QED BY <3>1, <3>2, <3>3
  <2>11. Len(U) <= Len(P) /\ 1 .. Len(U) = 1 .. n + m
    BY <2>1
  <2>12. \A a, b \in 1 .. Len(U) : a < b => P[b] - P[a] >= b - a
    BY <2>10, <2>11
  <2>13. \A i \in 1 .. Len(U) : P[i] \in 1 .. Len(stream') /\ stream'[P[i]] = U[i]
    BY <2>9, <2>11
  <2> QED BY <2>11, <2>12, <2>13 DEF P, U
<1>6. ASSUME NEW p \in 1 .. Len(stream')
      PROVE  \E c \in Choices : \E i \in 1 .. Len(upstream'[c]) : place'[c][i] = p
  <2>1. CASE p \in 1 .. Len(stream)
    <3>1. PICK c \in Choices : \E i \in 1 .. Len(upstream[c]) : place[c][i] = p
      BY <2>1 DEF Aligned
    <3>2. PICK i \in 1 .. Len(upstream[c]) : place[c][i] = p
      BY <3>1
    <3>a. Received(item, c) /\ Len(place[c]) = Len(upstream[c])
      BY <1>1
    <3>b. /\ Len(upstream[c]) \in Nat /\ Len(item[c]) \in Nat
          /\ Len(upstream'[c]) = Len(upstream[c]) + Len(item[c])
      BY <3>a DEF Received
    <3>3. i \in 1 .. Len(upstream'[c])
      <4> DEFINE n == Len(upstream[c])
                 m == Len(item[c])
                 l == Len(upstream'[c])
      <4>1. n \in Nat /\ m \in Nat /\ l = n + m /\ i \in 1 .. n
        BY <3>2, <3>b
      <4> HIDE DEF n, m, l
      <4>2. i \in 1 .. l
        BY <4>1
      <4> QED BY <4>2 DEF l
    <3>4. place'[c][i] = p
      BY <3>2, <3>a DEF Received
    <3> QED BY <3>3, <3>4
  <2>2. CASE \E j \in 1 .. Len(text) : p = Len(stream) + j
    <3>1. PICK j \in 1 .. Len(text) : p = Len(stream) + j
      BY <2>2
    <3>2. PICK c \in Choices : \E k \in 1 .. Len(item[c]) : j = off(c) + k
      BY <1>2
    <3>3. PICK k \in 1 .. Len(item[c]) : j = off(c) + k
      BY <3>2
    <3>a. Received(item, c) /\ Len(place[c]) = Len(upstream[c])
      BY <1>1
    <3>4. Len(place[c]) + k \in 1 .. Len(upstream'[c])
      <4>1. /\ Len(upstream[c]) \in Nat /\ Len(item[c]) \in Nat
            /\ Len(upstream'[c]) = Len(upstream[c]) + Len(item[c])
        BY <3>a DEF Received
      <4> DEFINE n == Len(upstream[c])
                 m == Len(item[c])
                 l == Len(upstream'[c])
      <4>2. n \in Nat /\ m \in Nat /\ l = n + m /\ k \in 1 .. m
        BY <4>1
      <4>3. Len(place[c]) = n
        BY <3>a
      <4> HIDE DEF n, m, l
      <4>4. n + k \in 1 .. l
        BY <4>2
      <4> QED BY <4>3, <4>4 DEF l
    <3>5. place'[c][Len(place[c]) + k] = p
      <4>1. place'[c][Len(place[c]) + k] = Len(stream) + off(c) + k
        BY <3>a DEF Received, off
      <4>2. off(c) \in Nat /\ Len(stream) \in Nat
        BY <1>2, <1>3
      <4> QED BY <3>1, <3>3, <4>1, <4>2
    <3> QED BY <3>4, <3>5
  <2> QED BY <1>3, <2>1, <2>2
<1> QED BY <1>5, <1>6 DEF Aligned

\* An item whose scan raised: what was delivered lies where it lay.
LEMMA AlignedKept ==
  ASSUME HookTypeOK, NEW item, Receive(item), Aligned(delivered), UNCHANGED <<stream, delivered>>
  PROVE  Aligned(delivered)'
<1>1. \A c \in Choices : Received(item, c)
  BY ReceiveFacts
<1>2. ASSUME NEW c \in Choices
      PROVE  /\ Len(delivered[c]) \in Nat /\ Len(delivered[c]) <= Len(place'[c])
             /\ \A i \in 1 .. Len(delivered[c]) : place'[c][i] = place[c][i]
  <2> DEFINE d == Len(delivered[c])
             n == Len(place[c])
             m == Len(item[c])
             l == Len(place'[c])
  <2>1. Received(item, c)
    BY <1>1
  <2>2. n \in Nat /\ m \in Nat /\ l = n + m
    BY <2>1 DEF Received
  <2>3. d \in Nat
    <3>1. delivered[c] \in Seq(Chars)
      BY DEF HookTypeOK
    <3> QED BY <3>1
  <2>4. d <= n
    BY DEF Aligned
  <2>5. \A i \in 1 .. n : place'[c][i] = place[c][i]
    BY <2>1 DEF Received
  <2> HIDE DEF d, n, m, l
  <2>6. d <= l /\ 1 .. d \subseteq 1 .. n
    BY <2>2, <2>3, <2>4
  <2> QED BY <2>3, <2>5, <2>6 DEF d, l
<1>3. ASSUME NEW c \in Choices
      PROVE  /\ \A i \in 1 .. Len(delivered[c]) :
                   place'[c][i] \in 1 .. Len(stream) /\ stream[place'[c][i]] = delivered[c][i]
             /\ \A a, b \in 1 .. Len(delivered[c]) : a < b => place'[c][b] - place'[c][a] >= b - a
  <2>1. \A i \in 1 .. Len(delivered[c]) :
           place[c][i] \in 1 .. Len(stream) /\ stream[place[c][i]] = delivered[c][i]
    BY DEF Aligned
  <2>2. \A a, b \in 1 .. Len(delivered[c]) : a < b => place[c][b] - place[c][a] >= b - a
    BY DEF Aligned
  <2>3. \A i \in 1 .. Len(delivered[c]) : place'[c][i] = place[c][i]
    BY <1>2
  <2> QED BY <2>1, <2>2, <2>3
<1>4. ASSUME NEW p \in 1 .. Len(stream)
      PROVE  \E c \in Choices : \E i \in 1 .. Len(delivered[c]) : place'[c][i] = p
  <2>1. PICK c \in Choices : \E i \in 1 .. Len(delivered[c]) : place[c][i] = p
    BY DEF Aligned
  <2> QED BY <1>2, <2>1
<1> QED BY <1>2, <1>3, <1>4 DEF Aligned

\* While the hook is open nothing was found, so no credential is in the scanned
\* text and none, uncut, in what was delivered.
LEMMA NothingFound ==
  ASSUME IInv, HookTypeOK, Aligned(delivered), onDetection # "log" => seen = {}
  PROVE  NoSecretDelivered
<1> SUFFICES ASSUME NEW c \in Choices, NEW k \in Credentials,
                    onDetection # "log", ~defect, Len(k) <= Overlap + 1,
                    NEW i \in DOMAIN delivered[c], OccursAt(k, delivered[c], i),
                    Uncut(c, i, i + Len(k) - 1)
             PROVE  FALSE
  BY DEF NoSecretDelivered
<1> DEFINE P == place[c]
           D == delivered[c]
           n == Len(k)
<1>1. k \in Seq(Chars) /\ n \in Nat /\ n >= 1
  <2>1. k \in Seq(Chars) /\ k # <<>>
    BY TextAssumption
  <2> QED BY <2>1
<1>2. D \in Seq(Chars) /\ Len(D) \in Nat /\ stream \in Seq(Chars) /\ Len(stream) \in Nat
  <2>1. D \in Seq(Chars) /\ stream \in Seq(Chars)
    BY DEF HookTypeOK, ScannerTypeOK
  <2> QED BY <2>1
<1>3. /\ \A j \in 1 .. Len(D) : P[j] \in 1 .. Len(stream) /\ stream[P[j]] = D[j]
      /\ \A a, b \in 1 .. Len(D) : a < b => P[b] - P[a] >= b - a
  BY DEF Aligned
<1>4. i \in Nat \ {0} /\ i + n <= Len(D) + 1 /\ \A j \in 1 .. n : D[i + j - 1] = k[j]
  BY DEF OccursAt
<1>5. P[i + n - 1] - P[i] = (i + n - 1) - i
  BY DEF Uncut
<1> HIDE DEF P, D, n
<1>6. \A j \in 1 .. n : i + j - 1 \in 1 .. Len(D)
  BY <1>1, <1>2, <1>4
<1>7. i \in 1 .. Len(D) /\ i + n - 1 \in 1 .. Len(D)
  BY <1>1, <1>2, <1>4
<1>8. ASSUME NEW j \in 1 .. n
      PROVE  P[i] + j - 1 = P[i + j - 1]
  <2> DEFINE m == i + j - 1
             l == i + n - 1
  <2>1. m \in 1 .. Len(D) /\ l \in 1 .. Len(D) /\ i <= m /\ m <= l /\ m = i + j - 1 /\ l = i + n - 1
    BY <1>1, <1>4, <1>6, <1>7
  <2>2. P[i] \in Int /\ P[m] \in Int /\ P[l] \in Int
    BY <1>3, <1>7, <2>1
  <2>3. P[l] - P[i] = l - i
    BY <1>5
  <2> HIDE DEF m, l
  <2>4. i < m => P[m] - P[i] >= m - i
    BY <1>3, <1>7, <2>1
  <2>5. m < l => P[l] - P[m] >= l - m
    BY <1>3, <2>1
  <2>6. P[m] - P[i] = m - i
    <3> DEFINE x == P[i]
               y == P[m]
               z == P[l]
    <3>1. /\ x \in Int /\ y \in Int /\ z \in Int /\ i \in Int /\ m \in Int /\ l \in Int
          /\ z - x = l - i /\ i <= m /\ m <= l
          /\ i < m => y - x >= m - i
          /\ m < l => z - y >= l - m
      BY <1>4, <2>1, <2>2, <2>3, <2>4, <2>5
    <3>2. (m = i => y = x) /\ (m = l => y = z)
      OBVIOUS
    <3> HIDE DEF x, y, z
    <3>3. y - x = m - i
      BY <3>1, <3>2
    <3> QED BY <3>3 DEF x, y
  <2>7. P[i] + j - 1 = P[m]
    BY <1>4, <2>1, <2>2, <2>6
  <2> QED BY <2>7 DEF m
<1>9. OccursAt(k, stream, P[i])
  <2>1. P[i] \in Nat \ {0} /\ P[i + n - 1] \in 1 .. Len(stream)
    BY <1>2, <1>3, <1>7
  <2>2. P[i] + n <= Len(stream) + 1
    BY <1>1, <1>2, <1>4, <1>5, <2>1
  <2>3. ASSUME NEW j \in 1 .. n PROVE stream[P[i] + j - 1] = k[j]
    <3>1. stream[P[i + j - 1]] = D[i + j - 1]
      BY <1>3, <1>6
    <3> QED BY <1>4, <1>8, <3>1
  <2> QED BY <2>1, <2>2, <2>3 DEF OccursAt, n
<1>10. OccursIn(k, stream)
  <2>1. P[i] \in 1 .. Len(stream)
    BY <1>3, <1>7
  <2> QED BY <1>9, <2>1 DEF OccursIn
<1>11. times[k] > 0
  BY <1>10 DEF IInv, EveryCredentialReported
<1>12. times[k] = 0
  BY DEF IInv, SeenInv
<1> QED BY <1>11, <1>12

\* What was not delivered uncut is not delivered uncut by withholding an item.
LEMMA NothingAdded ==
  ASSUME HookTypeOK, NEW item, Receive(item), NoSecretDelivered, UNCHANGED delivered, defect => defect',
         \A c \in Choices : Len(delivered[c]) <= Len(place[c])
  PROVE  NoSecretDelivered'
<1> SUFFICES ASSUME NEW c \in Choices, NEW k \in Credentials,
                    onDetection # "log", ~defect, Len(k) <= Overlap + 1,
                    NEW i \in DOMAIN delivered[c], OccursAt(k, delivered[c], i),
                    place'[c][i + Len(k) - 1] - place'[c][i] = (i + Len(k) - 1) - i
             PROVE  FALSE
  BY DEF NoSecretDelivered, Receive, Policy, Uncut
<1> DEFINE n == Len(k)
           d == Len(delivered[c])
           p == Len(place[c])
<1>1. n \in Nat /\ n >= 1
  <2>1. k \in Seq(Chars) /\ k # <<>>
    BY TextAssumption
  <2> QED BY <2>1
<1>2. i \in Nat \ {0} /\ i + n <= d + 1
  BY DEF OccursAt
<1>3. d \in Nat /\ p \in Nat /\ d <= p
  <2>1. delivered[c] \in Seq(Chars) /\ place[c] \in Seq(Nat \ {0})
    BY DEF HookTypeOK
  <2> QED BY <2>1
<1>4. \A j \in 1 .. p : place'[c][j] = place[c][j]
  <2>1. Received(item, c)
    BY ReceiveFacts
  <2> QED BY <2>1 DEF Received
<1> HIDE DEF n, d, p
<1>5. i \in 1 .. p /\ i + n - 1 \in 1 .. p
  BY <1>1, <1>2, <1>3
<1>6. place[c][i + n - 1] - place[c][i] = (i + n - 1) - i
  BY <1>4, <1>5 DEF n
<1> QED BY <1>6 DEF NoSecretDelivered, Uncut, n

\* A scan finds a credential it had not returned: it is in the scanned text, and,
\* if no earlier scan was defective, ends in the new fragment.
LEMMA FoundAtTheEnd ==
  ASSUME IInv, NEW chunk \in Seq(Chars), NEW degraded \in BOOLEAN,
         NEW found \in SUBSET Detected(Window(chunk)), FeedReported(chunk, found, degraded),
         NEW k \in found \ seen
  PROVE  \E i \in 1 .. Len(stream \o chunk) :
            OccursAt(k, stream \o chunk, i) /\ (defect \/ i + Len(k) - 1 > Len(stream))
<1> DEFINE w == Window(chunk)
           s == stream \o chunk
           f == FirstChars(w, MaxBytes)
           d == Len(s) - Len(w)
           n == Len(k)
<1>1. /\ w \in Seq(Chars) /\ s \in Seq(Chars)
      /\ Len(w) = Len(tail) + Len(chunk) /\ Len(s) = Len(stream) + Len(chunk)
      /\ Len(w) <= Len(s)
      /\ \A j \in 1 .. Len(w) : w[j] = s[d + j]
  BY WindowFacts DEF IInv
<1>2. /\ Len(tail) \in Nat /\ Len(stream) \in Nat /\ Len(chunk) \in Nat /\ Len(tail) <= Overlap
      /\ stream \in Seq(Chars)
  BY DEF IInv, ScannerTypeOK
<1>3. k \in Credentials /\ OccursIn(k, f)
  BY DEF Detected
<1>4. n \in Nat /\ n >= 1
  <2>1. k \in Seq(Chars) /\ k # <<>>
    BY <1>3, TextAssumption
  <2> QED BY <2>1
<1>5. Len(f) \in Nat /\ Len(f) <= Len(w) /\ \A j \in 1 .. Len(f) : f[j] = w[j]
  <2>1. MaxBytes \in Nat
    BY WindowAssumption
  <2> HIDE DEF w
  <2>2. CASE MaxBytes >= Len(w)
    BY <1>1, <2>2 DEF FirstChars
  <2>3. CASE MaxBytes < Len(w)
    BY <1>1, <2>1, <2>3 DEF FirstChars
  <2> QED BY <1>1, <2>1, <2>2, <2>3
<1>6. PICK q \in 1 .. Len(f) : OccursAt(k, f, q)
  BY <1>3 DEF OccursIn
<1>7. q \in Nat \ {0} /\ q + n <= Len(f) + 1 /\ \A j \in 1 .. n : f[q + j - 1] = k[j]
  BY <1>6 DEF OccursAt
<1>8. d \in Nat /\ d = Len(stream) - Len(tail) /\ d + Len(w) = Len(s)
  BY <1>1, <1>2
<1> HIDE DEF w, s, f, d, n
<1>9. ASSUME NEW j \in 1 .. n
      PROVE  s[(d + q) + j - 1] = k[j]
  <2> DEFINE m == q + j - 1
  <2>1. m \in 1 .. Len(f) /\ (d + q) + j - 1 = d + m
    BY <1>4, <1>5, <1>7, <1>8
  <2>2. f[m] = k[j]
    BY <1>7
  <2> HIDE DEF m
  <2>3. m \in 1 .. Len(w)
    BY <1>1, <1>5, <2>1
  <2>4. w[m] = s[d + m] /\ f[m] = w[m]
    BY <1>1, <1>5, <2>1, <2>3
  <2> QED BY <2>1, <2>2, <2>4
<1>10. d + q \in Nat \ {0} /\ (d + q) + n <= Len(s) + 1 /\ d + q \in 1 .. Len(s)
  BY <1>1, <1>2, <1>4, <1>5, <1>7, <1>8
<1>11. OccursAt(k, s, d + q)
  BY <1>9, <1>10 DEF OccursAt, n
<1>12. ASSUME (d + q) + n - 1 <= Len(stream)
       PROVE  defect
  <2>1. (d + q) + n <= Len(stream) + 1
    BY <1>2, <1>4, <1>7, <1>8, <1>12
  <2>2. OccursIn(k, stream)
    BY <1>2, <1>3, <1>11, <2>1, EndsBefore DEF s, n
  <2>3. n <= Overlap + 1
    BY <1>2, <1>4, <1>7, <1>8, <2>1, WindowAssumption
  <2>4. times[k] > 0 \/ defect
    BY <1>3, <2>2, <2>3 DEF IInv, EveryCredentialReported, n
  <2>5. times[k] = 0
    BY <1>3 DEF IInv, SeenInv
  <2> QED BY <2>4, <2>5
<1>13. defect \/ (d + q) + n - 1 > Len(stream)
  BY <1>2, <1>4, <1>10, <1>12
<1> QED BY <1>10, <1>11, <1>13 DEF s, n

-----------------------------------------------------------------------------
(* The invariant holds.                                                    *)

\* A new hook has received and scanned nothing.
LEMMA HookInitInv == HookInit => HInv
<1> SUFFICES ASSUME HookInit PROVE HInv
  OBVIOUS
<1>1. /\ IInv /\ hpc = "open" /\ seen = {} /\ stream = <<>>
      /\ onDetection \in {"block", "redact", "log"} /\ failClosed \in BOOLEAN
      /\ upstream = Silence /\ delivered = Silence /\ place = Silence
  BY InitInv DEF HookInit, ScannerInit
<1>2. \A c \in Choices : Silence[c] = <<>> /\ Len(Silence[c]) = 0
  BY DEF Silence
<1>3. Silence \in [Choices -> Seq(Chars)] /\ Silence \in [Choices -> Seq(Nat \ {0})]
  BY DEF Silence
<1>4. HookTypeOK
  <2>1. failClosed \in BOOLEAN
    BY <1>1
  <2> QED BY <1>1, <1>3, <2>1 DEF HookTypeOK, IInv
<1>5. Aligned(Scanned)
  <2>1. Scanned = Silence
    BY <1>1 DEF Scanned
  <2>2. Len(stream) = 0
    BY <1>1
  <2> QED BY <1>1, <1>2, <2>1, <2>2 DEF Aligned
<1>6. BlockedForASecret
  BY <1>1 DEF BlockedForASecret
<1> QED BY <1>1, <1>2, <1>4, <1>5, <1>6 DEF HInv

\* What a step takes from the invariant while the hook is open.
LEMMA WhileOpen ==
  ASSUME HInv, hpc = "open"
  PROVE  /\ IInv /\ HookTypeOK /\ delivered = upstream /\ Aligned(delivered) /\ NoSecretDelivered
         /\ onDetection # "log" => seen = {}
         /\ \A c \in Choices : Len(place[c]) = Len(upstream[c]) /\ Len(delivered[c]) <= Len(place[c])
<1>1. /\ IInv /\ HookTypeOK /\ delivered = upstream /\ Aligned(delivered)
      /\ onDetection # "log" => seen = {}
  BY DEF HInv, Scanned
<1>2. NoSecretDelivered
  BY <1>1, NothingFound
<1>3. \A c \in Choices : Len(place[c]) = Len(upstream[c]) /\ Len(delivered[c]) <= Len(place[c])
  BY DEF HInv
<1> QED BY <1>1, <1>2, <1>3

\* The histories after an item arrived, delivered or not.
LEMMA Lengths ==
  ASSUME HookTypeOK, NEW item, Receive(item),
         \A c \in Choices : Len(place[c]) = Len(upstream[c]) /\ Len(delivered[c]) <= Len(place[c]),
         delivered' = delivered \/ delivered' = upstream'
  PROVE  \A c \in Choices : Len(place'[c]) = Len(upstream'[c]) /\ Len(delivered'[c]) <= Len(upstream'[c])
<1> SUFFICES ASSUME NEW c \in Choices
             PROVE  Len(place'[c]) = Len(upstream'[c]) /\ Len(delivered'[c]) <= Len(upstream'[c])
  OBVIOUS
<1>1. Received(item, c)
  BY ReceiveFacts
<1>2. /\ Len(upstream'[c]) = Len(upstream[c]) + Len(item[c])
      /\ Len(place'[c]) = Len(place[c]) + Len(item[c])
      /\ Len(upstream[c]) \in Nat /\ Len(place[c]) \in Nat /\ Len(item[c]) \in Nat
  BY <1>1 DEF Received
<1>3. Len(delivered[c]) \in Nat /\ Len(delivered[c]) <= Len(upstream[c])
  <2>1. delivered[c] \in Seq(Chars)
    BY DEF HookTypeOK
  <2>2. Len(delivered[c]) \in Nat
    BY <2>1
  <2> QED BY <2>2
<1>4. Len(upstream'[c]) \in Nat /\ Len(delivered[c]) <= Len(upstream'[c])
  <2> DEFINE n == Len(upstream[c])
             m == Len(item[c])
             d == Len(delivered[c])
             l == Len(upstream'[c])
  <2>1. n \in Nat /\ m \in Nat /\ d \in Nat /\ l = n + m /\ d <= n
    BY <1>2, <1>3
  <2> HIDE DEF n, m, d, l
  <2>2. l \in Nat /\ d <= l
    BY <2>1
  <2> QED BY <2>2 DEF l, d
<1>5. Len(delivered'[c]) = Len(delivered[c]) \/ Len(delivered'[c]) = Len(upstream'[c])
  OBVIOUS
<1>6. Len(delivered'[c]) <= Len(upstream'[c])
  BY <1>4, <1>5
<1> QED BY <1>2, <1>6

\* An item whose scan returned, healthy or degraded.
LEMMA ScanKeeps ==
  ASSUME HInv, NEW item, Receive(item), NEW degraded \in BOOLEAN,
         NEW found \in SUBSET Detected(Window(TextOf(item))),
         degraded \/ found = Detected(Window(TextOf(item))),
         FeedReported(TextOf(item), found, degraded), ActOnReport(item)
  PROVE  HInv'
<1> DEFINE text == TextOf(item)
<1>1. /\ IInv /\ HookTypeOK /\ delivered = upstream /\ Aligned(delivered) /\ NoSecretDelivered
      /\ onDetection # "log" => seen = {}
      /\ \A c \in Choices : Len(place[c]) = Len(upstream[c]) /\ Len(delivered[c]) <= Len(place[c])
  <2>1. hpc = "open"
    BY DEF Receive
  <2> QED BY <2>1, WhileOpen
<1>2. /\ item \in [Choices -> Seq(Chars)] /\ text \in Seq(Chars)
      /\ upstream' \in [Choices -> Seq(Chars)] /\ place' \in [Choices -> Seq(Nat \ {0})]
      /\ upstream' = Extended(upstream, item)
      /\ hpc = "open" /\ UNCHANGED <<onDetection, failClosed>>
  <2>1. /\ item \in [Choices -> Seq(Chars)]
        /\ upstream' \in [Choices -> Seq(Chars)] /\ place' \in [Choices -> Seq(Nat \ {0})]
        /\ upstream' = Extended(upstream, item)
    BY <1>1, ReceiveFacts
  <2>2. text \in Seq(Chars)
    BY <2>1, TextOfFacts
  <2> QED BY <2>1, <2>2 DEF Receive, Policy
<1>3. IInv'
  BY <1>1, <1>2, FeedReportedInv
<1>4. /\ stream' = stream \o text /\ report' = found \ seen /\ seen' = seen \cup found
      /\ defect => defect'
      /\ text # <<>>
  BY DEF FeedReported, Fed, Remember
<1>5. Aligned(upstream)'
  BY <1>1, <1>4, AlignedGrows
<1> HIDE DEF text
<1>6. CASE Stops(report')
  <2>1. hpc' = "blocked" /\ UNCHANGED delivered
    BY <1>6 DEF ActOnReport, Raise
  <2>2. HookTypeOK'
    BY <1>1, <1>2, <1>3, <2>1 DEF HookTypeOK, IInv
  <2>3. NoSecretDelivered'
    BY <1>1, <1>4, <2>1, NothingAdded
  <2>4. BlockedForASecret'
    <3>1. onDetection' # "log" /\ found \ seen # {}
      BY <1>2, <1>4, <1>6 DEF Stops
    <3>2. PICK k \in found \ seen : TRUE
      BY <3>1
    <3>3. k \in Credentials
      BY <3>2 DEF Detected
    <3>4. PICK i \in 1 .. Len(stream') :
             OccursAt(k, stream', i) /\ (defect \/ i + Len(k) - 1 > Len(stream))
      <4>1. \E i \in 1 .. Len(stream \o text) :
               OccursAt(k, stream \o text, i) /\ (defect \/ i + Len(k) - 1 > Len(stream))
        BY <1>1, <1>2, <3>2, FoundAtTheEnd DEF text
      <4> QED BY <1>4, <4>1
    <3>5. \A p \in Places(delivered)' : p \in 1 .. Len(stream)
      <4>1. ASSUME NEW c \in Choices, NEW j \in DOMAIN delivered[c]
            PROVE  place'[c][j] \in 1 .. Len(stream)
        <5>1. DOMAIN delivered[c] = 1 .. Len(delivered[c]) /\ Len(delivered[c]) \in Nat
          <6>1. delivered[c] \in Seq(Chars)
            BY <1>1 DEF HookTypeOK
          <6> QED BY <6>1
        <5>2. Len(place[c]) \in Nat /\ \A m \in 1 .. Len(place[c]) : place'[c][m] = place[c][m]
          <6>1. Received(item, c)
            BY <1>1, ReceiveFacts
          <6> QED BY <6>1 DEF Received
        <5>3. j \in 1 .. Len(place[c])
          BY <1>1, <5>1, <5>2
        <5>4. place[c][j] \in 1 .. Len(stream)
          BY <1>1, <5>1 DEF Aligned
        <5> QED BY <5>2, <5>3, <5>4
      <4> QED BY <2>1, <4>1 DEF Places
    <3>6. defect' \/ i + Len(k) - 1 \notin Places(delivered)'
      <4>1. CASE defect
        BY <1>4, <4>1
      <4>2. CASE i + Len(k) - 1 > Len(stream)
        <5>1. Len(stream) \in Nat
          BY <1>1 DEF HookTypeOK, ScannerTypeOK
        <5>2. i + Len(k) - 1 \notin 1 .. Len(stream)
          BY <4>2, <5>1
        <5> QED BY <3>5, <5>2
      <4> QED BY <3>4, <4>1, <4>2
    <3>7. delivered' # upstream'
      <4>1. PICK p \in 1 .. Len(text) : TRUE
        <5>1. Len(text) \in Nat /\ Len(text) # 0
          BY <1>2, <1>4
        <5>2. 1 \in 1 .. Len(text)
          BY <5>1
        <5> QED BY <5>2
      <4>2. PICK c \in Choices : \E m \in 1 .. Len(item[c]) : TRUE
        BY <1>2, <4>1, TextOfFacts DEF text
      <4>3. Received(item, c)
        BY <1>1, ReceiveFacts
      <4>4. Len(item[c]) \in Nat /\ Len(item[c]) # 0 /\ Len(upstream[c]) \in Nat
            /\ Len(upstream'[c]) = Len(upstream[c]) + Len(item[c])
        <5>1. Len(item[c]) \in Nat /\ Len(upstream[c]) \in Nat
              /\ Len(upstream'[c]) = Len(upstream[c]) + Len(item[c])
          BY <4>3 DEF Received
        <5>2. Len(item[c]) # 0
          BY <4>2
        <5> QED BY <5>1, <5>2
      <4>5. Len(upstream'[c]) # Len(upstream[c])
        <5> DEFINE n == Len(upstream[c])
                   m == Len(item[c])
                   l == Len(upstream'[c])
        <5>1. n \in Nat /\ m \in Nat /\ m # 0 /\ l = n + m
          BY <4>4
        <5> HIDE DEF n, m, l
        <5>2. l # n
          BY <5>1
        <5> QED BY <5>2 DEF l, n
      <4> QED BY <1>1, <2>1, <4>5
    <3>8. DOMAIN stream' = 1 .. Len(stream')
      <4>1. stream' \in Seq(Chars)
        BY <2>2 DEF HookTypeOK, ScannerTypeOK
      <4> QED BY <4>1
    <3> QED BY <3>1, <3>3, <3>4, <3>6, <3>7, <3>8 DEF BlockedForASecret
  <2>5. \A c \in Choices : Len(place'[c]) = Len(upstream'[c]) /\ Len(delivered'[c]) <= Len(upstream'[c])
    BY <1>1, <2>1, Lengths
  <2>6. Scanned' = upstream'
    BY <2>1 DEF Scanned
  <2> QED BY <1>3, <1>5, <2>1, <2>2, <2>3, <2>4, <2>5, <2>6 DEF HInv, Aligned
<1>7. CASE ~Stops(report')
  <2>1. hpc' = "open" /\ delivered' = upstream'
    BY <1>1, <1>2, <1>7 DEF ActOnReport, Yield
  <2>2. HookTypeOK'
    BY <1>1, <1>2, <1>3, <2>1 DEF HookTypeOK, IInv
  <2>3. onDetection' # "log" => seen' = {}
    BY <1>1, <1>2, <1>4, <1>7 DEF Stops
  <2>4. BlockedForASecret'
    BY <2>1 DEF BlockedForASecret
  <2>5. \A c \in Choices : Len(place'[c]) = Len(upstream'[c]) /\ Len(delivered'[c]) <= Len(upstream'[c])
    BY <1>1, <2>1, Lengths
  <2>6. Scanned' = upstream'
    BY <2>1 DEF Scanned
  <2> QED BY <1>3, <1>5, <2>1, <2>2, <2>3, <2>4, <2>5, <2>6 DEF HInv, Aligned
<1> QED BY <1>6, <1>7

\* An item whose scan raised.
LEMMA RaiseKeeps ==
  ASSUME HInv, NEW item, ScanItemRaises(item)
  PROVE  HInv'
<1>1. Receive(item) /\ FeedRaises(TextOf(item)) /\ hpc' = "raised" /\ UNCHANGED delivered
  BY DEF ScanItemRaises, Raise
<1>2. /\ IInv /\ HookTypeOK /\ delivered = upstream /\ Aligned(delivered) /\ NoSecretDelivered
      /\ \A c \in Choices : Len(place[c]) = Len(upstream[c]) /\ Len(delivered[c]) <= Len(place[c])
  <2>1. hpc = "open"
    BY <1>1 DEF Receive
  <2> QED BY <2>1, WhileOpen
<1>3. /\ item \in [Choices -> Seq(Chars)] /\ TextOf(item) \in Seq(Chars)
      /\ upstream' \in [Choices -> Seq(Chars)] /\ place' \in [Choices -> Seq(Nat \ {0})]
      /\ UNCHANGED <<onDetection, failClosed>>
  <2>1. /\ item \in [Choices -> Seq(Chars)]
        /\ upstream' \in [Choices -> Seq(Chars)] /\ place' \in [Choices -> Seq(Nat \ {0})]
    BY <1>1, <1>2, ReceiveFacts
  <2>2. TextOf(item) \in Seq(Chars)
    BY <2>1, TextOfFacts
  <2> QED BY <1>1, <2>1, <2>2 DEF Receive, Policy
<1>4. IInv'
  BY <1>1, <1>2, <1>3, FeedRaisesInv
<1>5. stream' = stream /\ defect' = defect
  BY <1>1 DEF FeedRaises
<1>6. HookTypeOK'
  BY <1>1, <1>2, <1>3, <1>4 DEF HookTypeOK, IInv
<1>7. Aligned(delivered)'
  BY <1>1, <1>2, <1>5, AlignedKept
<1>8. NoSecretDelivered'
  BY <1>1, <1>2, <1>5, NothingAdded
<1>9. BlockedForASecret'
  BY <1>1 DEF BlockedForASecret
<1>10. \A c \in Choices : Len(place'[c]) = Len(upstream'[c]) /\ Len(delivered'[c]) <= Len(upstream'[c])
  BY <1>1, <1>2, Lengths
<1>11. Scanned' = delivered'
  BY <1>1 DEF Scanned
<1> QED BY <1>1, <1>4, <1>6, <1>7, <1>8, <1>9, <1>10, <1>11 DEF HInv, Aligned

\* An item without text: no history grows.
LEMMA SilentKeeps ==
  ASSUME HInv, NEW item, PassSilentItem(item)
  PROVE  HInv'
<1>1. /\ Receive(item) /\ TextOf(item) = <<>> /\ hpc' = "open" /\ hpc = "open"
      /\ UNCHANGED <<tail, seen, charsSeen, report, times, stream, defect>>
      /\ delivered' = Extended(delivered, item) /\ UNCHANGED <<onDetection, failClosed>>
  BY DEF PassSilentItem, Yield, Receive, scannerVars, Policy
<1>2. /\ IInv /\ HookTypeOK /\ delivered = upstream /\ Aligned(delivered)
      /\ onDetection # "log" => seen = {}
      /\ \A c \in Choices : Len(place[c]) = Len(upstream[c]) /\ Len(delivered[c]) <= Len(place[c])
  BY <1>1, WhileOpen
<1>3. /\ item \in [Choices -> Seq(Chars)]
      /\ upstream' \in [Choices -> Seq(Chars)] /\ place' \in [Choices -> Seq(Nat \ {0})]
      /\ delivered' = upstream'
  BY <1>1, <1>2, ReceiveFacts
<1>4. IInv'
  BY <1>1, <1>2 DEF IInv, ScannerTypeOK, TailInv, SeenInv, EveryCredentialReported
<1>5. HookTypeOK'
  BY <1>1, <1>2, <1>3, <1>4 DEF HookTypeOK, IInv
<1>6. Aligned(upstream)'
  <2>1. stream' = stream \o TextOf(item)
    <3>1. stream \in Seq(Chars)
      BY <1>2 DEF HookTypeOK, ScannerTypeOK
    <3> QED BY <1>1, <3>1
  <2> QED BY <1>1, <1>2, <2>1, AlignedGrows
<1>7. BlockedForASecret'
  BY <1>1 DEF BlockedForASecret
<1>8. \A c \in Choices : Len(place'[c]) = Len(upstream'[c]) /\ Len(delivered'[c]) <= Len(upstream'[c])
  BY <1>1, <1>2, <1>3, Lengths
<1>9. Scanned' = upstream'
  BY <1>1 DEF Scanned
<1> QED BY <1>1, <1>2, <1>3, <1>4, <1>5, <1>6, <1>7, <1>8, <1>9 DEF HInv, Aligned

\* A step that changes nothing but, perhaps, ends the stream.
LEMMA EndKeeps ==
  ASSUME HInv, UNCHANGED <<scannerVars, onDetection, failClosed, upstream, delivered, place>>,
         hpc' = hpc \/ (hpc = "open" /\ hpc' = "ended")
  PROVE  HInv'
<1>1. UNCHANGED <<tail, seen, charsSeen, report, times, stream, defect>>
  BY DEF scannerVars
<1>2. IInv'
  BY <1>1 DEF HInv, IInv, ScannerTypeOK, TailInv, SeenInv, EveryCredentialReported
<1>3. HookTypeOK'
  BY <1>2 DEF HInv, HookTypeOK, IInv
<1>4. Scanned' = Scanned
  BY DEF Scanned
<1>5. Aligned(Scanned)'
  <2>1. Aligned(Scanned)
    BY DEF HInv
  <2> QED BY <1>1, <1>4, <2>1 DEF Aligned
<1>6. hpc' \in {"blocked", "raised"} => NoSecretDelivered'
  BY <1>1 DEF HInv, NoSecretDelivered, Uncut
<1>7. BlockedForASecret'
  BY <1>1 DEF HInv, BlockedForASecret, Places
<1>8. hpc' \in {"open", "ended"} => delivered' = upstream' /\ (onDetection' # "log" => seen' = {})
  BY <1>1 DEF HInv
<1>9. \A c \in Choices : Len(place'[c]) = Len(upstream'[c]) /\ Len(delivered'[c]) <= Len(upstream'[c])
  BY DEF HInv
<1> QED BY <1>2, <1>3, <1>5, <1>6, <1>7, <1>8, <1>9 DEF HInv

\* Every step keeps the invariant.
LEMMA HookStepInv == HInv /\ [HookNext]_hookVars => HInv'
<1> SUFFICES ASSUME HInv, [HookNext]_hookVars PROVE HInv'
  OBVIOUS
<1>1. ASSUME NEW item \in Items, PassSilentItem(item)
      PROVE  HInv'
  BY <1>1, SilentKeeps
<1>2. ASSUME NEW item \in Items, ScanItem(item)
      PROVE  HInv'
  BY <1>2, ScanKeeps DEF ScanItem, Feed
<1>3. ASSUME NEW item \in Items, ScanItemDegraded(item)
      PROVE  HInv'
  BY <1>3, ScanKeeps DEF ScanItemDegraded, FeedDegraded
<1>4. ASSUME NEW item \in Items, ScanItemRaises(item)
      PROVE  HInv'
  BY <1>4, RaiseKeeps
<1>5. CASE EndStream
  <2>1. /\ UNCHANGED <<scannerVars, onDetection, failClosed, upstream, delivered, place>>
        /\ hpc = "open" /\ hpc' = "ended"
    BY <1>5 DEF EndStream, Policy
  <2> QED BY <2>1, EndKeeps
<1>6. CASE UNCHANGED hookVars
  <2>1. UNCHANGED <<scannerVars, onDetection, failClosed, upstream, delivered, place, hpc>>
    BY <1>6 DEF hookVars
  <2> QED BY <2>1, EndKeeps
<1> QED BY <1>1, <1>2, <1>3, <1>4, <1>5, <1>6 DEF HookNext

\* The invariant holds in every reachable state.
LEMMA HookInductive == HookSpec => []HInv
BY HookInitInv, HookStepInv, PTL DEF HookSpec

-----------------------------------------------------------------------------
(* The results.                                                            *)

\* The hook and the scanner it owns are well typed.
THEOREM HookTypeCorrect == HookSpec => []HookTypeOK
<1>1. HInv => HookTypeOK
  BY DEF HInv
<1> QED BY <1>1, HookInductive, PTL

\* The hook drives its scanner so that what is proved of StreamScanner holds: no
\* cut into items hides a credential from it, and none is reported twice.
THEOREM HookKeepsTheScanner == HookSpec => [](EveryCredentialReported /\ ReportedOnce)
<1>1. HInv => EveryCredentialReported /\ ReportedOnce
  BY DEF HInv, IInv, SeenInv, ReportedOnce
<1> QED BY <1>1, HookInductive, PTL

\* Under "block" and "redact" no whole credential of at most Overlap + 1
\* characters reaches the consumer, however the response was cut into items, while
\* every scan was whole and healthy.
THEOREM SecretsAreWithheld == HookSpec => []NoSecretDelivered
<1>1. HInv => NoSecretDelivered
  <2> SUFFICES ASSUME HInv PROVE NoSecretDelivered
    OBVIOUS
  <2>1. CASE hpc \in {"blocked", "raised"}
    BY <2>1 DEF HInv
  <2>2. CASE hpc \in {"open", "ended"}
    <3>1. /\ IInv /\ HookTypeOK /\ Aligned(delivered) /\ (onDetection # "log" => seen = {})
      BY <2>2 DEF HInv, Scanned
    <3> QED BY <3>1, NothingFound
  <2> QED BY <2>1, <2>2 DEF HInv, HookTypeOK
<1> QED BY <1>1, HookInductive, PTL

\* A stream that is cut off has a credential in the scanned text, and its end was
\* not delivered.
THEOREM BlocksOnlyForASecret == HookSpec => []BlockedForASecret
<1>1. HInv => BlockedForASecret
  BY DEF HInv
<1> QED BY <1>1, HookInductive, PTL

\* What the consumer has is what was scanned, in its order.
THEOREM OnlyScannedIsDelivered == HookSpec => []DeliveredIsScanned
<1>1. HInv => DeliveredIsScanned
  <2> SUFFICES ASSUME HInv PROVE DeliveredIsScanned
    OBVIOUS
  <2>1. hpc \in {"open", "ended"} => delivered = upstream
    BY DEF HInv
  <2>2. Aligned(Scanned)
    BY DEF HInv
  <2>3. ASSUME NEW c \in Choices
        PROVE  DOMAIN Scanned[c] = 1 .. Len(Scanned[c]) /\ Len(Scanned[c]) \in Nat
    <3>1. Scanned[c] \in Seq(Chars)
      BY DEF HInv, HookTypeOK, Scanned
    <3> QED BY <3>1
  <2>4. DOMAIN stream = 1 .. Len(stream)
    <3>1. stream \in Seq(Chars)
      BY DEF HInv, HookTypeOK, ScannerTypeOK
    <3> QED BY <3>1
  <2>5. Places(Scanned) = DOMAIN stream
    <3>1. \A p \in Places(Scanned) : p \in 1 .. Len(stream)
      BY <2>2, <2>3 DEF Aligned, Places
    <3>2. \A p \in 1 .. Len(stream) : p \in Places(Scanned)
      BY <2>2, <2>3 DEF Aligned, Places
    <3> QED BY <2>4, <3>1, <3>2
  <2>6. ASSUME NEW c \in Choices, NEW i \in DOMAIN Scanned[c]
        PROVE  /\ stream[place[c][i]] = Scanned[c][i]
               /\ i > 1 => place[c][i - 1] < place[c][i]
    <3> DEFINE P == place[c]
    <3>1. i \in 1 .. Len(Scanned[c]) /\ Len(Scanned[c]) \in Nat
      BY <2>3
    <3>2. /\ \A j \in 1 .. Len(Scanned[c]) : P[j] \in 1 .. Len(stream) /\ stream[P[j]] = Scanned[c][j]
          /\ \A a, b \in 1 .. Len(Scanned[c]) : a < b => P[b] - P[a] >= b - a
      BY <2>2 DEF Aligned
    <3> HIDE DEF P
    <3>3. ASSUME i > 1 PROVE P[i - 1] < P[i]
      <4> DEFINE m == i - 1
      <4>1. m \in 1 .. Len(Scanned[c]) /\ m < i /\ i - m = 1
        BY <3>1, <3>3
      <4> HIDE DEF m
      <4>2. P[i] - P[m] >= i - m
        BY <3>1, <3>2, <4>1
      <4>3. P[i] \in Int /\ P[m] \in Int
        BY <3>1, <3>2, <4>1
      <4>4. P[m] < P[i]
        BY <4>1, <4>2, <4>3
      <4> QED BY <4>4 DEF m
    <3> QED BY <3>1, <3>2, <3>3 DEF P
  <2> QED BY <2>1, <2>5, <2>6 DEF DeliveredIsScanned, Scanned
<1> QED BY <1>1, HookInductive, PTL
=============================================================================

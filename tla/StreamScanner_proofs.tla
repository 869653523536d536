------------------------ MODULE StreamScanner_proofs ------------------------
(***************************************************************************)
(* Proofs about StreamScanner and its callers, for every overlap, every    *)
(* set of credentials and every way to cut a stream: no cut hides a        *)
(* credential of at most Overlap + 1 characters, none is reported twice,   *)
(* and a scan_all whose report is healthy leaves the caller with every     *)
(* credential in its chunks.                                               *)
(***************************************************************************)
EXTENDS StreamScanAll, TLAPS

\* The retained tail is the end of the scanned text, as long as it can be.
TailInv ==
    /\ Len(tail) = IF Overlap <= Len(stream) THEN Overlap ELSE Len(stream)
    /\ \A k \in 1 .. Len(tail) : tail[k] = stream[Len(stream) - Len(tail) + k]

\* Exactly the credentials in _seen have been returned, once each.
SeenInv == \A c \in Credentials : times[c] = IF c \in seen THEN 1 ELSE 0

IInv == ScannerTypeOK /\ TailInv /\ SeenInv /\ EveryCredentialReported

-----------------------------------------------------------------------------
(* Facts about windows.                                                    *)

\* What LastChars keeps of a sequence.
LEMMA LastCharsFacts ==
  ASSUME NEW w \in Seq(Chars), NEW n \in Nat
  PROVE  /\ LastChars(w, n) \in Seq(Chars)
         /\ Len(LastChars(w, n)) = IF n <= Len(w) THEN n ELSE Len(w)
         /\ \A k \in 1 .. Len(LastChars(w, n)) :
               LastChars(w, n)[k] = w[Len(w) - Len(LastChars(w, n)) + k]
<1>1. CASE n >= Len(w)
  BY <1>1 DEF LastChars
<1>2. CASE n < Len(w)
  <2>1. LastChars(w, n) = SubSeq(w, Len(w) - n + 1, Len(w))
    BY <1>2 DEF LastChars
  <2>2. Len(w) - n + 1 \in 1 .. Len(w) + 1 /\ Len(w) \in Nat
    BY <1>2
  <2>3. LastChars(w, n) \in Seq(Chars) /\ Len(LastChars(w, n)) = n
    BY <2>1, <2>2
  <2>4. \A k \in 1 .. n : LastChars(w, n)[k] = w[Len(w) - n + k]
    BY <2>1, <2>2, <2>3
  <2> QED BY <1>2, <2>3, <2>4
<1> QED BY <1>1, <1>2

\* A window is the end of the text it completes, and a credential of at most
\* Overlap + 1 characters that ends in the new fragment lies inside it.
LEMMA WindowFacts ==
  ASSUME ScannerTypeOK, TailInv, NEW chunk \in Seq(Chars)
  PROVE  LET w == Window(chunk)
             s == stream \o chunk
         IN  /\ w \in Seq(Chars) /\ s \in Seq(Chars)
             /\ Len(w) = Len(tail) + Len(chunk) /\ Len(s) = Len(stream) + Len(chunk)
             /\ Len(w) <= Len(s)
             /\ \A k \in 1 .. Len(w) : w[k] = s[Len(s) - Len(w) + k]
<1> DEFINE w == Window(chunk)
           s == stream \o chunk
<1>1. tail \in Seq(Chars) /\ stream \in Seq(Chars)
  BY DEF ScannerTypeOK
<1>2. w = tail \o chunk /\ s = stream \o chunk /\ w \in Seq(Chars) /\ s \in Seq(Chars)
  BY <1>1 DEF Window
<1> HIDE DEF w, s
<1>3. Len(w) = Len(tail) + Len(chunk) /\ Len(s) = Len(stream) + Len(chunk)
  BY <1>1, <1>2
<1>4. Len(tail) <= Len(stream) /\ Len(tail) \in Nat /\ Len(stream) \in Nat /\ Len(chunk) \in Nat
  BY <1>1, WindowAssumption DEF TailInv
<1>5. ASSUME NEW k \in 1 .. Len(w)
      PROVE  w[k] = s[Len(s) - Len(w) + k]
  <2>1. CASE k <= Len(tail)
    <3>1. w[k] = tail[k]
      BY <1>1, <1>2, <1>3, <2>1
    <3>2. tail[k] = stream[Len(stream) - Len(tail) + k]
      BY <2>1 DEF TailInv
    <3>3. Len(s) - Len(w) + k = Len(stream) - Len(tail) + k
          /\ Len(stream) - Len(tail) + k \in 1 .. Len(stream)
      BY <1>3, <1>4, <2>1
    <3>4. s[Len(stream) - Len(tail) + k] = stream[Len(stream) - Len(tail) + k]
      BY <1>1, <1>2, <3>3
    <3> QED BY <3>1, <3>2, <3>3, <3>4
  <2>2. CASE k > Len(tail)
    <3>1. k - Len(tail) \in 1 .. Len(chunk)
      BY <1>3, <1>4, <2>2
    <3>2. w[k] = chunk[k - Len(tail)]
      BY <1>1, <1>2, <1>3, <2>2, <3>1
    <3>3. Len(s) - Len(w) + k = Len(stream) + (k - Len(tail))
      BY <1>3, <1>4
    <3>4. s[Len(stream) + (k - Len(tail))] = chunk[k - Len(tail)]
      <4> DEFINE j == k - Len(tail)
      <4>1. j \in 1 .. Len(chunk)
        BY <3>1
      <4> HIDE DEF j
      <4>2. s[Len(stream) + j] = chunk[j]
        BY <1>1, <1>2, <1>4, <4>1
      <4> QED BY <4>2 DEF j
    <3> QED BY <3>2, <3>3, <3>4
  <2> QED BY <1>4, <2>1, <2>2
<1> QED BY <1>2, <1>3, <1>4, <1>5 DEF w, s

\* A credential of at most Overlap + 1 characters that ends in the new fragment
\* lies inside the window.
LEMMA EndsInWindow ==
  ASSUME ScannerTypeOK, TailInv, NEW chunk \in Seq(Chars),
         NEW c \in Credentials, Len(c) <= Overlap + 1,
         NEW i, OccursAt(c, stream \o chunk, i), i + Len(c) > Len(stream) + 1
  PROVE  OccursIn(c, Window(chunk))
<1> DEFINE w == Window(chunk)
           s == stream \o chunk
           d == Len(s) - Len(w)
<1>1. /\ stream \in Seq(Chars) /\ tail \in Seq(Chars) /\ c \in Seq(Chars)
      /\ Len(c) \in Nat \ {0} /\ Len(chunk) \in Nat /\ Len(stream) \in Nat /\ Len(tail) \in Nat
  BY TextAssumption DEF ScannerTypeOK
<1>2. /\ w \in Seq(Chars) /\ s \in Seq(Chars)
      /\ Len(w) = Len(tail) + Len(chunk) /\ Len(s) = Len(stream) + Len(chunk)
      /\ Len(w) <= Len(s)
      /\ \A k \in 1 .. Len(w) : w[k] = s[d + k]
  BY WindowFacts
<1>3. d = Len(stream) - Len(tail) /\ d \in Nat /\ Len(s) = Len(w) + d /\ Len(w) \in Nat
  BY <1>1, <1>2
<1> HIDE DEF w, d
<1>4. i \in Nat \ {0} /\ i + Len(c) <= Len(s) + 1 /\ \A k \in 1 .. Len(c) : s[i + k - 1] = c[k]
  BY DEF OccursAt
<1> HIDE DEF s
<1>5. i - d \in Nat \ {0}
  <2>1. CASE Overlap <= Len(stream)
    <3>1. Len(tail) = Overlap
      BY <2>1 DEF TailInv
    <3> QED BY <1>1, <1>3, <1>4, <3>1, WindowAssumption
  <2>2. CASE Overlap > Len(stream)
    <3>1. Len(tail) = Len(stream)
      BY <1>1, <2>2, WindowAssumption DEF TailInv
    <3> QED BY <1>1, <1>3, <1>4, <3>1
  <2> QED BY <1>1, <2>1, <2>2, WindowAssumption
<1>6. (i - d) + Len(c) <= Len(w) + 1
  BY <1>1, <1>2, <1>3, <1>4
<1>7. ASSUME NEW k \in 1 .. Len(c)
      PROVE  w[(i - d) + k - 1] = c[k]
  <2>1. (i - d) + k - 1 \in 1 .. Len(w)
    <3> DEFINE e == i - d
    <3>1. e \in Nat \ {0} /\ e + Len(c) <= Len(w) + 1
      BY <1>5, <1>6
    <3> HIDE DEF e
    <3>2. e + k - 1 \in 1 .. Len(w)
      BY <1>1, <1>3, <3>1
    <3> QED BY <3>2 DEF e
  <2>2. w[(i - d) + k - 1] = s[d + ((i - d) + k - 1)]
    BY <1>2, <2>1
  <2>3. d + ((i - d) + k - 1) = i + k - 1
    BY <1>3, <1>4
  <2> QED BY <1>4, <2>2, <2>3
<1>8. OccursAt(c, w, i - d)
  BY <1>5, <1>6, <1>7 DEF OccursAt
<1>9. i - d \in 1 .. Len(w)
  BY <1>1, <1>2, <1>3, <1>4, <1>5, <1>6
<1> QED BY <1>8, <1>9 DEF OccursIn, w

\* A credential that ends in the first part of a text occurs in that part.
LEMMA EndsBefore ==
  ASSUME NEW t \in Seq(Chars), NEW chunk \in Seq(Chars), NEW c \in Credentials,
         NEW i, OccursAt(c, t \o chunk, i), i + Len(c) <= Len(t) + 1
  PROVE  OccursIn(c, t)
<1>1. Len(c) \in Nat \ {0} /\ Len(t) \in Nat
  BY TextAssumption
<1>2. i \in Nat \ {0} /\ \A k \in 1 .. Len(c) : (t \o chunk)[i + k - 1] = c[k]
  BY DEF OccursAt
<1>3. \A j \in 1 .. Len(t) : (t \o chunk)[j] = t[j]
  OBVIOUS
<1>4. \A k \in 1 .. Len(c) : i + k - 1 \in 1 .. Len(t)
  BY <1>1, <1>2
<1>5. \A k \in 1 .. Len(c) : t[i + k - 1] = c[k]
  BY <1>2, <1>3, <1>4
<1>6. OccursAt(c, t, i) /\ i \in 1 .. Len(t)
  BY <1>1, <1>2, <1>5 DEF OccursAt
<1> QED BY <1>6 DEF OccursIn

\* A credential of at most Overlap + 1 characters in the text with the new
\* fragment lies in the text before it, or in the window.
LEMMA SeenWhole ==
  ASSUME ScannerTypeOK, TailInv, NEW chunk \in Seq(Chars),
         NEW c \in Credentials, Len(c) <= Overlap + 1,
         OccursIn(c, stream \o chunk)
  PROVE  OccursIn(c, stream) \/ OccursIn(c, Window(chunk))
<1>1. stream \in Seq(Chars) /\ Len(stream) \in Nat /\ Len(c) \in Nat
  BY TextAssumption DEF ScannerTypeOK
<1>2. PICK i \in 1 .. Len(stream \o chunk) : OccursAt(c, stream \o chunk, i)
  BY DEF OccursIn
<1>3. i \in Nat
  BY <1>2 DEF OccursAt
<1>4. CASE i + Len(c) <= Len(stream) + 1
  BY <1>1, <1>2, <1>4, EndsBefore
<1>5. CASE i + Len(c) > Len(stream) + 1
  BY <1>2, <1>5, EndsInWindow
<1> QED BY <1>1, <1>3, <1>4, <1>5

-----------------------------------------------------------------------------
(* The inductive invariant.                                                *)

\* A new object has seen nothing.
LEMMA InitInv == ScannerInit => IInv
<1> SUFFICES ASSUME ScannerInit PROVE IInv
  OBVIOUS
<1>4. /\ tail = <<>> /\ stream = <<>> /\ seen = {} /\ report = {} /\ charsSeen = 0
      /\ defect = FALSE /\ times = [c \in Credentials |-> 0]
  BY DEF ScannerInit
<1>5. times \in [Credentials -> Nat] /\ \A c \in Credentials : times[c] = 0
  BY <1>4
<1>6. tail \in Seq(Chars) /\ stream \in Seq(Chars)
  BY <1>4
<1>7. defect \in BOOLEAN
  BY <1>4
<1>10. Len(tail) <= Overlap
  BY <1>4, WindowAssumption
<1>8. ScannerTypeOK
  BY <1>4, <1>5, <1>6, <1>7, <1>10 DEF ScannerTypeOK
<1>9. SeenInv
  BY <1>4, <1>5 DEF SeenInv
<1>1. ScannerTypeOK /\ SeenInv
  BY <1>8, <1>9
<1>3. TailInv
  <2>1. tail = <<>> /\ stream = <<>> /\ Len(tail) = 0 /\ Len(stream) = 0
    BY DEF ScannerInit
  <2> QED BY <2>1, WindowAssumption DEF TailInv
<1>2. EveryCredentialReported
  BY DEF ScannerInit, EveryCredentialReported, OccursIn
<1> QED BY <1>1, <1>2, <1>3 DEF IInv

\* Feeding a fragment whose scan returned, healthy or degraded.
LEMMA FeedReportedInv ==
  ASSUME IInv, NEW chunk \in Seq(Chars), NEW degraded \in BOOLEAN,
         NEW found \in SUBSET Detected(Window(chunk)),
         degraded \/ found = Detected(Window(chunk)),
         FeedReported(chunk, found, degraded)
  PROVE  IInv'
<1> DEFINE w == Window(chunk)
           s == stream \o chunk
<1>1. chunk \in Seq(Chars) /\ Len(chunk) \in Nat
  OBVIOUS
<1>2. found \subseteq Credentials
  BY DEF Detected
<1>3. /\ w \in Seq(Chars) /\ s \in Seq(Chars)
      /\ Len(w) = Len(tail) + Len(chunk) /\ Len(s) = Len(stream) + Len(chunk)
      /\ Len(w) <= Len(s)
      /\ \A k \in 1 .. Len(w) : w[k] = s[Len(s) - Len(w) + k]
  BY <1>1, WindowFacts DEF IInv
<1>4. /\ tail' = LastChars(w, Overlap) /\ stream' = s
      /\ charsSeen' = charsSeen + Len(chunk)
      /\ report' = found \ seen /\ seen' = seen \cup found
      /\ times' = [c \in Credentials |-> times[c] + IF c \in report' THEN 1 ELSE 0]
      /\ defect' = (defect \/ degraded \/ Len(w) > MaxBytes)
  BY DEF FeedReported, NewTail, Remember
<1>5. /\ tail' \in Seq(Chars)
      /\ Len(tail') = IF Overlap <= Len(w) THEN Overlap ELSE Len(w)
      /\ \A k \in 1 .. Len(tail') : tail'[k] = w[Len(w) - Len(tail') + k]
  BY <1>3, <1>4, LastCharsFacts, WindowAssumption
<1>10. chunk \in Seq(Chars) /\ stream \in Seq(Chars) /\ tail \in Seq(Chars)
  BY <1>1 DEF IInv, ScannerTypeOK
<1>11. Len(tail') <= Overlap
  <2> HIDE DEF w, s
  <2> QED BY <1>3, <1>5, WindowAssumption
<1>12. stream' \in Seq(Chars) /\ charsSeen' \in Nat /\ defect' \in BOOLEAN
  <2> HIDE DEF w, s
  <2>1. stream' \in Seq(Chars)
    BY <1>3, <1>4
  <2>2. charsSeen' \in Nat
    BY <1>1, <1>4 DEF IInv, ScannerTypeOK
  <2>3. defect' \in BOOLEAN
    BY <1>4 DEF IInv, ScannerTypeOK
  <2> QED BY <2>1, <2>2, <2>3
<1>13. times' \in [Credentials -> Nat]
  BY <1>4 DEF IInv, ScannerTypeOK
<1>14. seen' \subseteq Credentials /\ report' \subseteq Credentials
  BY <1>2, <1>4 DEF IInv, ScannerTypeOK
<1>6. ScannerTypeOK'
  <2> HIDE DEF w, s
  <2> QED BY <1>5, <1>11, <1>12, <1>13, <1>14 DEF ScannerTypeOK
<1>7. TailInv'
  <2> HIDE DEF w, s
  <2>1. Len(tail) = IF Overlap <= Len(stream) THEN Overlap ELSE Len(stream)
    BY DEF IInv, TailInv
  <2>2. Len(tail') = IF Overlap <= Len(s) THEN Overlap ELSE Len(s)
    BY <1>1, <1>3, <1>5, <1>10, <2>1, WindowAssumption
  <2>3. Len(tail') <= Len(w) /\ Len(tail') \in Nat /\ Len(w) \in Nat /\ Len(s) \in Nat
    BY <1>3, <1>5, WindowAssumption
  <2>4. ASSUME NEW k \in 1 .. Len(tail')
        PROVE  tail'[k] = s[Len(s) - Len(tail') + k]
    <3> DEFINE j == Len(w) - Len(tail') + k
    <3>1. tail'[k] = w[j]
      BY <1>5
    <3>2. j \in 1 .. Len(w)
      BY <2>3
    <3>3. Len(s) - Len(w) + j = Len(s) - Len(tail') + k
      BY <2>3
    <3> HIDE DEF j
    <3>4. w[j] = s[Len(s) - Len(w) + j]
      BY <1>3, <3>2
    <3> QED BY <3>1, <3>3, <3>4
  <2> QED BY <1>4, <2>2, <2>4 DEF TailInv
<1>8. SeenInv'
  BY <1>2, <1>4 DEF IInv, SeenInv
<1>9. EveryCredentialReported'
  <2> SUFFICES ASSUME NEW c \in Credentials, Len(c) <= Overlap + 1,
                      OccursIn(c, s), ~defect'
               PROVE  times'[c] > 0
    BY <1>4 DEF EveryCredentialReported
  <2>1. ~defect /\ found = Detected(w) /\ Len(w) <= MaxBytes
    <3>1. defect' = (defect \/ degraded \/ Len(w) > MaxBytes)
      BY <1>4
    <3>2. ~defect /\ ~degraded /\ ~(Len(w) > MaxBytes)
      BY <3>1
    <3>3. Len(w) \in Nat
      BY <1>3
    <3> QED BY <3>2, <3>3, WindowAssumption
  <2>2. CASE OccursIn(c, stream)
    <3>1. times[c] > 0
      BY <2>1, <2>2 DEF IInv, EveryCredentialReported
    <3>2. times[c] \in Nat
      BY DEF IInv, ScannerTypeOK
    <3> QED BY <1>4, <3>1, <3>2
  <2>3. CASE OccursIn(c, w)
    <3>1. FirstChars(w, MaxBytes) = w
      BY <2>1 DEF FirstChars
    <3>2. c \in found
      BY <2>1, <2>3, <3>1 DEF Detected
    <3>3. c \in seen'
      BY <1>4, <3>2
    <3> QED BY <1>8, <3>3 DEF SeenInv
  <2> QED BY <1>1, <2>2, <2>3, SeenWhole DEF IInv
<1> QED BY <1>6, <1>7, <1>8, <1>9 DEF IInv

\* A scan that raised: only the characters are counted.
LEMMA FeedRaisesInv ==
  ASSUME IInv, NEW chunk \in Seq(Chars), FeedRaises(chunk)
  PROVE  IInv'
<1>1. Len(chunk) \in Nat
  OBVIOUS
<1>2. /\ charsSeen' = charsSeen + Len(chunk)
      /\ UNCHANGED <<tail, seen, report, times, stream, defect>>
  BY DEF FeedRaises
<1>3. ScannerTypeOK'
  BY <1>1, <1>2 DEF IInv, ScannerTypeOK
<1>4. TailInv' /\ SeenInv'
  BY <1>2 DEF IInv, TailInv, SeenInv
<1>5. EveryCredentialReported'
  BY <1>2 DEF IInv, EveryCredentialReported
<1> QED BY <1>3, <1>4, <1>5 DEF IInv

\* Every step keeps the inductive invariant.
LEMMA StepInv == IInv /\ [ScannerNext]_scannerVars => IInv'
<1> SUFFICES ASSUME IInv, [ScannerNext]_scannerVars PROVE IInv'
  OBVIOUS
<1>0. Chunks \subseteq Seq(Chars)
  BY TextAssumption
<1>1. ASSUME NEW chunk \in Chunks, Feed(chunk)
      PROVE  IInv'
  BY <1>1, <1>0, FeedReportedInv DEF Feed
<1>2. ASSUME NEW chunk \in Chunks, FeedDegraded(chunk)
      PROVE  IInv'
  BY <1>2, <1>0, FeedReportedInv DEF FeedDegraded
<1>3. ASSUME NEW chunk \in Chunks, FeedRaises(chunk)
      PROVE  IInv'
  BY <1>3, <1>0, FeedRaisesInv
<1>4. CASE Flush
  <2>4. /\ tail' = <<>> /\ stream' = <<>> /\ report' = {} /\ defect' = FALSE
        /\ UNCHANGED <<seen, charsSeen, times>>
    BY <1>4 DEF Flush
  <2>5. tail' \in Seq(Chars) /\ stream' \in Seq(Chars)
    BY <2>4
  <2>6. defect' \in BOOLEAN
    BY <2>4
  <2>8. Len(tail') <= Overlap
    BY <2>4, WindowAssumption
  <2>7. ScannerTypeOK'
    BY <2>4, <2>5, <2>6, <2>8 DEF IInv, ScannerTypeOK
  <2>1. ScannerTypeOK' /\ SeenInv'
    BY <2>4, <2>7 DEF IInv, SeenInv
  <2>3. TailInv'
    <3>1. tail' = <<>> /\ stream' = <<>> /\ Len(tail') = 0 /\ Len(stream') = 0
      BY <1>4 DEF Flush
    <3> QED BY <3>1, WindowAssumption DEF TailInv
  <2>2. EveryCredentialReported'
    BY <1>4 DEF Flush, EveryCredentialReported, OccursIn
  <2> QED BY <2>1, <2>2, <2>3 DEF IInv
<1>5. CASE UNCHANGED scannerVars
  BY <1>5 DEF scannerVars, IInv, ScannerTypeOK, TailInv, SeenInv, EveryCredentialReported
<1> QED BY <1>1, <1>2, <1>3, <1>4, <1>5 DEF ScannerNext

\* The inductive invariant holds in every reachable state.
LEMMA Inductive == ScannerSpec => []IInv
BY InitInv, StepInv, PTL DEF ScannerSpec

-----------------------------------------------------------------------------
(* The results.                                                            *)

\* Every reachable state of the object is well typed.
THEOREM TypeCorrect == ScannerSpec => []ScannerTypeOK
<1>1. IInv => ScannerTypeOK
  BY DEF IInv
<1> QED BY <1>1, Inductive, PTL

\* No cut of the stream hides a credential of at most Overlap + 1 characters.
THEOREM NoCutHidesACredential == ScannerSpec => []EveryCredentialReported
<1>1. IInv => EveryCredentialReported
  BY DEF IInv
<1> QED BY <1>1, Inductive, PTL

\* No credential is reported twice by one object.
THEOREM ReportsOnce == ScannerSpec => []ReportedOnce
<1>1. IInv => ReportedOnce
  BY DEF IInv, SeenInv, ReportedOnce
<1> QED BY <1>1, Inductive, PTL

-----------------------------------------------------------------------------
(* The callers: feeds and flushes outside scan_all, and the loop in it.    *)

\* The shape of what scan_all keeps, and that it keeps nothing after it ends.
CallInv ==
    /\ running \in BOOLEAN /\ flagged \in BOOLEAN /\ fed \in Seq(Chars)
    /\ ~running => union = {}

\* What the object remembers as reported was handed on, is about to be, or was
\* lost with a scan_all that raised.
NothingLost == seen \subseteq handed \cup union \cup dropped

\* While scan_all runs, its chunks are the end of the text scanned.
FedIsSuffix ==
    running =>
        /\ Len(fed) <= Len(stream)
        /\ \A k \in 1 .. Len(fed) : fed[k] = stream[Len(stream) - Len(fed) + k]

\* The credentials in the chunks of a healthy scan_all are remembered.
FedIsSeen ==
    ~flagged =>
        \A c \in Credentials : Len(c) <= Overlap + 1 /\ OccursIn(c, fed) => c \in seen

AInv == IInv /\ CallInv /\ NothingLost /\ FedIsSuffix /\ FedIsSeen

-----------------------------------------------------------------------------
(* Facts about the chunks of a scan_all.                                   *)

\* The chunks and the new one are the end of the text with the new one.
LEMMA SuffixGrows ==
  ASSUME NEW s \in Seq(Chars), NEW f \in Seq(Chars), NEW chunk \in Seq(Chars),
         Len(f) <= Len(s), \A k \in 1 .. Len(f) : f[k] = s[Len(s) - Len(f) + k]
  PROVE  LET g == f \o chunk
             t == s \o chunk
         IN  /\ g \in Seq(Chars) /\ t \in Seq(Chars)
             /\ Len(g) = Len(f) + Len(chunk) /\ Len(t) = Len(s) + Len(chunk)
             /\ Len(g) <= Len(t)
             /\ \A k \in 1 .. Len(g) : g[k] = t[Len(t) - Len(g) + k]
<1> DEFINE g == f \o chunk
           t == s \o chunk
<1>1. /\ g \in Seq(Chars) /\ t \in Seq(Chars)
      /\ Len(g) = Len(f) + Len(chunk) /\ Len(t) = Len(s) + Len(chunk)
      /\ Len(f) \in Nat /\ Len(s) \in Nat /\ Len(chunk) \in Nat
  OBVIOUS
<1>2. /\ \A j \in 1 .. Len(f) : g[j] = f[j]
      /\ \A j \in 1 .. Len(chunk) : g[Len(f) + j] = chunk[j]
  OBVIOUS
<1>3. /\ \A j \in 1 .. Len(s) : t[j] = s[j]
      /\ \A j \in 1 .. Len(chunk) : t[Len(s) + j] = chunk[j]
  OBVIOUS
<1> HIDE DEF g, t
<1>4. ASSUME NEW k \in 1 .. Len(g)
      PROVE  g[k] = t[Len(t) - Len(g) + k]
  <2>1. CASE k <= Len(f)
    <3>1. Len(t) - Len(g) + k = Len(s) - Len(f) + k /\ Len(s) - Len(f) + k \in 1 .. Len(s)
          /\ k \in 1 .. Len(f)
      BY <1>1, <2>1
    <3> QED BY <1>2, <1>3, <3>1
  <2>2. CASE k > Len(f)
    <3> DEFINE j == k - Len(f)
    <3>1. j \in 1 .. Len(chunk) /\ k = Len(f) + j /\ Len(t) - Len(g) + k = Len(s) + j
      BY <1>1, <2>2
    <3> HIDE DEF j
    <3> QED BY <1>2, <1>3, <3>1
  <2> QED BY <1>1, <2>1, <2>2
<1> QED BY <1>1, <1>4 DEF g, t

\* A credential at a place of the end of a text is at a place of the text.
LEMMA OccursInWhole ==
  ASSUME NEW g \in Seq(Chars), NEW t \in Seq(Chars), NEW c \in Credentials,
         Len(g) <= Len(t), \A k \in 1 .. Len(g) : g[k] = t[Len(t) - Len(g) + k],
         NEW i, OccursAt(c, g, i)
  PROVE  OccursAt(c, t, Len(t) - Len(g) + i)
<1> DEFINE d == Len(t) - Len(g)
<1>1. Len(c) \in Nat /\ Len(g) \in Nat /\ Len(t) \in Nat
  BY TextAssumption
<1>2. d \in Nat /\ Len(t) = d + Len(g)
  BY <1>1
<1>3. i \in Nat \ {0} /\ i + Len(c) <= Len(g) + 1 /\ \A k \in 1 .. Len(c) : g[i + k - 1] = c[k]
  BY DEF OccursAt
<1>4. \A k \in 1 .. Len(g) : g[k] = t[d + k]
  OBVIOUS
<1> HIDE DEF d
<1>5. ASSUME NEW k \in 1 .. Len(c)
      PROVE  t[(d + i) + k - 1] = c[k]
  <2>1. i + k - 1 \in 1 .. Len(g) /\ d + (i + k - 1) = (d + i) + k - 1
    BY <1>1, <1>2, <1>3
  <2> QED BY <1>3, <1>4, <2>1
<1>6. d + i \in Nat \ {0} /\ (d + i) + Len(c) <= Len(t) + 1
  BY <1>1, <1>2, <1>3
<1> QED BY <1>5, <1>6 DEF OccursAt, d

\* A credential of at most Overlap + 1 characters in the chunks with the new one
\* lies in the chunks before it, or in the window.
LEMMA FedSeenWhole ==
  ASSUME AInv, running, NEW chunk \in Seq(Chars),
         NEW c \in Credentials, Len(c) <= Overlap + 1, OccursIn(c, fed \o chunk)
  PROVE  OccursIn(c, fed) \/ OccursIn(c, Window(chunk))
<1> DEFINE g == fed \o chunk
           t == stream \o chunk
<1>1. /\ fed \in Seq(Chars) /\ stream \in Seq(Chars) /\ Len(fed) \in Nat /\ Len(stream) \in Nat
      /\ Len(c) \in Nat /\ Len(chunk) \in Nat
  BY TextAssumption DEF AInv, CallInv, IInv, ScannerTypeOK
<1>2. /\ Len(fed) <= Len(stream)
      /\ \A k \in 1 .. Len(fed) : fed[k] = stream[Len(stream) - Len(fed) + k]
  BY DEF AInv, FedIsSuffix
<1>3. /\ g \in Seq(Chars) /\ t \in Seq(Chars)
      /\ Len(g) = Len(fed) + Len(chunk) /\ Len(t) = Len(stream) + Len(chunk)
      /\ Len(g) <= Len(t)
      /\ \A k \in 1 .. Len(g) : g[k] = t[Len(t) - Len(g) + k]
  BY <1>1, <1>2, SuffixGrows
<1>4. PICK i \in 1 .. Len(g) : OccursAt(c, g, i)
  BY DEF OccursIn
<1>5. i \in Nat
  BY <1>4 DEF OccursAt
<1>6. CASE i + Len(c) <= Len(fed) + 1
  BY <1>1, <1>4, <1>6, EndsBefore
<1>7. CASE i + Len(c) > Len(fed) + 1
  <2> DEFINE j == Len(t) - Len(g) + i
  <2>1. OccursAt(c, t, j)
    <3> HIDE DEF g, t
    <3> QED BY <1>3, <1>4, OccursInWhole
  <2>2. j + Len(c) > Len(stream) + 1
    <3> HIDE DEF g, t
    <3> QED BY <1>1, <1>3, <1>5, <1>7
  <2> HIDE DEF j, g
  <2> QED BY <2>1, <2>2, EndsInWindow DEF AInv, IInv
<1> QED BY <1>1, <1>5, <1>6, <1>7

-----------------------------------------------------------------------------
(* The inductive invariant.                                                *)

\* Nothing was scanned before the first call.
LEMMA AllInitInv == AllInit => AInv
<1> SUFFICES ASSUME AllInit PROVE AInv
  OBVIOUS
<1>1. IInv
  BY InitInv DEF AllInit
<1>2. /\ running = FALSE /\ union = {} /\ flagged = FALSE /\ fed = <<>> /\ seen = {}
  BY DEF AllInit, ScannerInit
<1>3. CallInv /\ NothingLost /\ FedIsSuffix
  <2>1. fed \in Seq(Chars)
    BY <1>2
  <2>2. running \in BOOLEAN /\ flagged \in BOOLEAN /\ ~running
    BY <1>2
  <2>3. CallInv
    BY <1>2, <2>1, <2>2 DEF CallInv
  <2> QED BY <1>2, <2>2, <2>3 DEF NothingLost, FedIsSuffix
<1>4. FedIsSeen
  BY <1>2 DEF FedIsSeen, OccursIn
<1> QED BY <1>1, <1>3, <1>4 DEF AInv

\* A feed returns what its scan found and the object did not remember.
LEMMA ReturnedIsNew ==
  ASSUME IInv, NEW chunk \in Chunks, NEW degraded, NEW found \in SUBSET Credentials,
         FeedReported(chunk, found, degraded)
  PROVE  Returned = found \ seen /\ seen' = seen \cup found
<1>1. times' = [c \in Credentials |-> times[c] + IF c \in found \ seen THEN 1 ELSE 0]
  BY DEF FeedReported
<1>2. \A c \in Credentials : times[c] \in Nat
  BY DEF IInv, ScannerTypeOK
<1>3. \A c \in Credentials : times'[c] > times[c] <=> c \in found \ seen
  BY <1>1, <1>2
<1>4. Returned = found \ seen
  BY <1>3 DEF Returned
<1> QED BY <1>4 DEF FeedReported, Remember

\* What any step of the object adds to its memory, it returns.
LEMMA MemoryIsReturned ==
  ASSUME IInv, ScannerNext
  PROVE  seen \subseteq seen' /\ seen' \subseteq seen \cup Returned
<1>1. ASSUME NEW chunk \in Chunks, Feed(chunk) \/ FeedDegraded(chunk)
      PROVE  seen \subseteq seen' /\ seen' \subseteq seen \cup Returned
  <2>1. PICK found \in SUBSET Credentials, degraded \in BOOLEAN :
            FeedReported(chunk, found, degraded)
    BY <1>1 DEF Feed, FeedDegraded, Detected
  <2>2. Returned = found \ seen /\ seen' = seen \cup found
    BY <2>1, ReturnedIsNew
  <2> QED BY <2>2
<1>2. ASSUME NEW chunk \in Chunks, FeedRaises(chunk)
      PROVE  seen' = seen
  BY <1>2 DEF FeedRaises
<1>3. CASE Flush
  BY <1>3 DEF Flush
<1> QED BY <1>1, <1>2, <1>3 DEF ScannerNext

\* A call of feed or flush outside scan_all.
LEMMA DirectCallInv ==
  ASSUME AInv, DirectCall
  PROVE  AInv'
<1>1. /\ ~running /\ ScannerNext /\ handed' = handed \cup Returned
      /\ running' = running /\ union' = union /\ flagged' = flagged
      /\ fed' = fed /\ dropped' = dropped
  BY DEF DirectCall
<1>2. IInv'
  BY <1>1, StepInv DEF AInv
<1>3. seen \subseteq seen' /\ seen' \subseteq seen \cup Returned
  BY <1>1, MemoryIsReturned DEF AInv
<1>4. CallInv' /\ FedIsSuffix'
  BY <1>1 DEF AInv, CallInv, FedIsSuffix
<1>5. NothingLost'
  BY <1>1, <1>3 DEF AInv, NothingLost
<1>6. FedIsSeen'
  BY <1>1, <1>3 DEF AInv, FedIsSeen
<1> QED BY <1>2, <1>4, <1>5, <1>6 DEF AInv

\* A turn of the loop of scan_all; the scan of a healthy report was complete.
LEMMA CollectInv ==
  ASSUME AInv, running, NEW chunk \in Chunks, NEW degraded \in BOOLEAN, NEW flag \in BOOLEAN,
         NEW found \in SUBSET Detected(Window(chunk)),
         degraded \/ found = Detected(Window(chunk)),
         flag \/ (~degraded /\ Len(Window(chunk)) <= MaxBytes),
         FeedReported(chunk, found, degraded), Collect(chunk, flag)
  PROVE  AInv'
<1>1. /\ union' = union \cup Returned /\ flagged' = (flagged \/ flag) /\ fed' = fed \o chunk
      /\ running' = running /\ handed' = handed /\ dropped' = dropped
  BY DEF Collect, OfAnyFeed
<1>2. chunk \in Seq(Chars) /\ fed \in Seq(Chars) /\ stream \in Seq(Chars) /\ found \subseteq Credentials
  BY TextAssumption DEF AInv, IInv, ScannerTypeOK, CallInv, Detected
<1>3. IInv'
  <2>1. chunk \in Seq(Chars)
    BY TextAssumption
  <2> QED BY <2>1, FeedReportedInv DEF AInv
<1>4. Returned = found \ seen /\ seen' = seen \cup found
  BY <1>2, ReturnedIsNew DEF AInv
<1>5. CallInv'
  <2>1. fed' \in Seq(Chars)
    BY <1>1, <1>2
  <2>2. flagged' \in BOOLEAN
    BY <1>1 DEF AInv, CallInv
  <2> QED BY <1>1, <2>1, <2>2 DEF AInv, CallInv
<1>6. NothingLost'
  BY <1>1, <1>4 DEF AInv, NothingLost
<1>7. FedIsSuffix'
  <2>1. /\ Len(fed) <= Len(stream)
        /\ \A k \in 1 .. Len(fed) : fed[k] = stream[Len(stream) - Len(fed) + k]
    BY DEF AInv, FedIsSuffix
  <2>2. stream' = stream \o chunk
    BY DEF FeedReported
  <2> DEFINE g == fed \o chunk
             t == stream \o chunk
  <2>3. Len(g) <= Len(t) /\ \A k \in 1 .. Len(g) : g[k] = t[Len(t) - Len(g) + k]
    BY <1>2, <2>1, SuffixGrows
  <2>4. fed' = g /\ stream' = t
    BY <1>1, <2>2
  <2> HIDE DEF g, t
  <2> QED BY <2>3, <2>4 DEF FedIsSuffix
<1>8. FedIsSeen'
  <2> SUFFICES ASSUME ~flagged', NEW c \in Credentials, Len(c) <= Overlap + 1,
                      OccursIn(c, fed \o chunk)
               PROVE  c \in seen'
    BY <1>1 DEF FedIsSeen
  <2>1. ~flagged /\ ~flag
    BY <1>1
  <2>2. CASE OccursIn(c, fed)
    BY <1>4, <2>1, <2>2 DEF AInv, FedIsSeen
  <2>3. CASE OccursIn(c, Window(chunk))
    <3>1. found = Detected(Window(chunk)) /\ Len(Window(chunk)) <= MaxBytes
      BY <2>1
    <3>2. FirstChars(Window(chunk), MaxBytes) = Window(chunk)
      BY <3>1 DEF FirstChars
    <3>3. c \in found
      BY <2>3, <3>1, <3>2 DEF Detected
    <3> QED BY <1>4, <3>3
  <2> QED BY <1>2, <2>2, <2>3, FedSeenWhole
<1> QED BY <1>3, <1>5, <1>6, <1>7, <1>8 DEF AInv

\* scan_all is left by an exception, of a scan or of the iterable.
LEMMA AbandonInv ==
  ASSUME AInv, IInv', seen' = seen, Abandon
  PROVE  AInv'
<1>1. /\ running' = FALSE /\ dropped' = dropped \cup union /\ union' = {} /\ fed' = <<>>
      /\ flagged' = flagged /\ handed' = handed
  BY DEF Abandon
<1>2. CallInv' /\ FedIsSuffix'
  <2>1. fed' \in Seq(Chars)
    BY <1>1
  <2>2. running' \in BOOLEAN /\ flagged' \in BOOLEAN /\ ~running'
    BY <1>1 DEF AInv, CallInv
  <2> QED BY <1>1, <2>1, <2>2 DEF CallInv, FedIsSuffix
<1>3. NothingLost'
  BY <1>1 DEF AInv, NothingLost
<1>4. FedIsSeen'
  BY <1>1 DEF FedIsSeen, OccursIn
<1> QED BY <1>2, <1>3, <1>4 DEF AInv

\* Every step keeps the invariant.
LEMMA AllStepInv == AInv /\ [AllNext]_allVars => AInv'
<1> SUFFICES ASSUME AInv, [AllNext]_allVars PROVE AInv'
  OBVIOUS
<1>1. CASE DirectCall
  BY <1>1, DirectCallInv
<1>2. ASSUME UNCHANGED scannerVars
      PROVE  IInv' /\ seen' = seen
  BY <1>2, StepInv DEF AInv, scannerVars
<1>3. CASE BeginScanAll
  <2>1. /\ ~running /\ running' = TRUE /\ union' = {} /\ flagged' = FALSE /\ fed' = <<>>
        /\ handed' = handed /\ dropped' = dropped /\ UNCHANGED scannerVars
    BY <1>3 DEF BeginScanAll
  <2>2. CallInv'
    <3>1. fed' \in Seq(Chars)
      BY <2>1
    <3>2. running' \in BOOLEAN /\ flagged' \in BOOLEAN
      BY <2>1
    <3> QED BY <2>1, <3>1, <3>2 DEF CallInv
  <2>3. NothingLost'
    BY <1>2, <2>1 DEF AInv, CallInv, NothingLost
  <2>4. FedIsSuffix'
    <3>1. stream' \in Seq(Chars)
      BY <1>2, <2>1 DEF IInv, ScannerTypeOK
    <3> QED BY <2>1, <3>1 DEF FedIsSuffix
  <2>5. FedIsSeen'
    BY <2>1 DEF FedIsSeen, OccursIn
  <2> QED BY <1>2, <2>1, <2>2, <2>3, <2>4, <2>5 DEF AInv
<1>4. CASE IterableRaises
  BY <1>2, <1>4, AbandonInv DEF IterableRaises
<1>5. CASE ScanAllReturns
  <2>1. /\ running' = FALSE /\ handed' = handed \cup union /\ union' = {}
        /\ flagged' = flagged /\ fed' = fed /\ dropped' = dropped /\ UNCHANGED scannerVars
    BY <1>5 DEF ScanAllReturns
  <2>2. CallInv' /\ FedIsSuffix'
    BY <2>1 DEF AInv, CallInv, FedIsSuffix
  <2>3. NothingLost' /\ FedIsSeen'
    BY <1>2, <2>1 DEF AInv, NothingLost, FedIsSeen
  <2> QED BY <1>2, <2>1, <2>2, <2>3 DEF AInv
<1>6. ASSUME NEW chunk \in Chunks, CollectChunk(chunk)
      PROVE  AInv'
  <2>1. /\ running /\ Collect(chunk, Len(Window(chunk)) > MaxBytes)
        /\ FeedReported(chunk, Detected(Window(chunk)), FALSE)
    BY <1>6 DEF CollectChunk, Feed, WindowCut
  <2>2. Len(Window(chunk)) \in Nat
    BY TextAssumption, WindowFacts DEF AInv, IInv
  <2> DEFINE flag == Len(Window(chunk)) > MaxBytes
  <2>3. flag \in BOOLEAN /\ (flag \/ Len(Window(chunk)) <= MaxBytes)
    BY <2>2, WindowAssumption
  <2>4. Collect(chunk, flag)
    BY <2>1
  <2> HIDE DEF flag
  <2> QED BY <2>1, <2>3, <2>4, CollectInv
<1>7. ASSUME NEW chunk \in Chunks, CollectDegraded(chunk)
      PROVE  AInv'
  BY <1>7, CollectInv DEF CollectDegraded, FeedDegraded
<1>8. ASSUME NEW chunk \in Chunks, ScanRaises(chunk)
      PROVE  AInv'
  <2>1. FeedRaises(chunk) /\ Abandon /\ seen' = seen
    BY <1>8 DEF ScanRaises, FeedRaises
  <2>2. IInv'
    BY <2>1, StepInv DEF AInv, ScannerNext
  <2> QED BY <2>1, <2>2, AbandonInv
<1>9. CASE UNCHANGED allVars
  <2>1. UNCHANGED scannerVars /\ UNCHANGED callVars /\ stream' = stream
    BY <1>9 DEF allVars, scannerVars
  <2> QED BY <1>2, <2>1 DEF callVars, AInv, CallInv, NothingLost, FedIsSuffix, FedIsSeen
<1> QED BY <1>1, <1>3, <1>4, <1>5, <1>6, <1>7, <1>8, <1>9 DEF AllNext

-----------------------------------------------------------------------------
(* The results.                                                            *)

\* Whatever its callers do, the object takes only the steps of its own
\* specification: what is proved of StreamScanner holds under scan_all too.
THEOREM CallersKeepTheScanner == AllSpec => ScannerSpec
<1>1. AllInit => ScannerInit
  BY DEF AllInit
<1>2. [AllNext]_allVars => [ScannerNext]_scannerVars
  <2> SUFFICES ASSUME [AllNext]_allVars PROVE [ScannerNext]_scannerVars
    OBVIOUS
  <2>1. CASE DirectCall
    BY <2>1 DEF DirectCall
  <2>2. CASE BeginScanAll \/ IterableRaises \/ ScanAllReturns
    BY <2>2 DEF BeginScanAll, IterableRaises, ScanAllReturns
  <2>3. ASSUME NEW chunk \in Chunks,
               CollectChunk(chunk) \/ CollectDegraded(chunk) \/ ScanRaises(chunk)
        PROVE  ScannerNext
    BY <2>3 DEF CollectChunk, CollectDegraded, ScanRaises, ScannerNext
  <2>4. CASE UNCHANGED allVars
    BY <2>4 DEF allVars
  <2> QED BY <2>1, <2>2, <2>3, <2>4 DEF AllNext
<1> QED BY <1>1, <1>2, PTL DEF AllSpec, ScannerSpec

\* The union that scan_all returns is complete, unless its report says otherwise.
THEOREM UnionsAreComplete == AllSpec => []UnionIsComplete
<1>1. AInv => UnionIsComplete
  BY DEF AInv, NothingLost, FedIsSeen, UnionIsComplete
<1> QED BY <1>1, AllInitInv, AllStepInv, PTL DEF AllSpec
=============================================================================

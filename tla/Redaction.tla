----------------------------- MODULE Redaction -----------------------------
(***************************************************************************)
(* From detector results to a masked text: buildFinding and the offset     *)
(* tracker (go/scanner/scanner.go, findings.go) locate each result's       *)
(* credential in the input, one candidate fragment at a time, and          *)
(* Scanner._apply_redaction (src/litellm_trufflehog/scanner.py) splices a  *)
(* mask over every located span, or refuses.  Scan sees MaxBytes bytes at  *)
(* most; the splice is made in the whole text.                             *)
(*                                                                         *)
(* Offsets count bytes from zero and a span is half open, as in the code.  *)
(* The false-positive check is in ScanTasks; here every result passes it.  *)
(***************************************************************************)
EXTENDS Integers, Sequences, FiniteSets, SequencesExt

CONSTANTS Bytes,           \* bytes a text is made of
          Colon,           \* ":", which joins the parts of RawV2
          Lead, Cont,      \* the two bytes of a two-byte code point
          Detectors,       \* detector keys
          LabelOf,         \* what a finding of each detector is called
          Texts,           \* bound: the inputs
          ResultLists,     \* bound: what the detectors return, in task order
          MaxBytes,        \* Config.MaxBytes
          MinCandidateLen, \* minCandidateLen
          MinRepeatMaskLen \* minRepeatMaskLen

ASSUME LengthsAssumption ==
    MinCandidateLen \in Nat \ {0} /\ MinRepeatMaskLen \in Nat /\ MaxBytes \in Nat \ {0}

\* A result: primary secret value and Raw (empty if absent), and the parts of
\* RawV2 (none if absent).
Result == [det : Detectors, primary : Seq(Bytes), raw : Seq(Bytes), parts : Seq(Seq(Bytes))]

\* A text is valid UTF-8: str.encode made it.
ValidUTF8(s) ==
    \A k \in 1 .. Len(s) :
        /\ s[k] = Lead => k < Len(s) /\ s[k + 1] = Cont
        /\ s[k] = Cont => k > 1 /\ s[k - 1] = Lead

ASSUME InputsAssumption ==
    /\ {Colon, Lead, Cont} \subseteq Bytes /\ Detectors \subseteq DOMAIN LabelOf
    /\ Texts \subseteq {s \in Seq(Bytes) : ValidUTF8(s)}
    /\ ResultLists \subseteq Seq(Result)

VARIABLES text,     \* the str to redact, as the bytes it encodes to
          results,  \* the results that reach buildFinding
          i, j,     \* the result and the candidate being looked at
          spans,    \* spans of result i so far
          nextAt,   \* offsetTracker.next
          seen,     \* dedupe keys of the findings
          findings, \* Report.Findings: detector, identity, merged spans, result
          pc,       \* "result", "locate", "report", "returned" or "refused"
          out,      \* the masked text: pieces, each kept bytes or a mask
          why,      \* what the RedactionError complains of
          claims    \* history: occurrences located one at a time

vars == <<text, results, i, j, spans, nextAt, seen, findings, pc, out, why, claims>>
located == <<i, j, spans, nextAt, seen, claims>>

Init ==
    /\ text \in Texts /\ results \in ResultLists
    /\ i = 1 /\ j = 1 /\ spans = {} /\ nextAt = [k \in {} |-> 0]
    /\ seen = {} /\ findings = <<>> /\ pc = "result"
    /\ out = <<>> /\ why = "none" /\ claims = <<>>

-----------------------------------------------------------------------------
(* Where a fragment occurs.                                                *)

\* What Scan looks at: the tail of an input beyond MaxBytes is cut off, and the
\* report says so.
Data == IF Len(text) > MaxBytes THEN SubSeq(text, 1, MaxBytes) ELSE text
ScannedBytes == Len(Data)
Size == Len(text)

OccursAt(v, start, s) == start + Len(v) <= Len(s) /\ SubSeq(s, start + 1, start + Len(v)) = v
Starts(v, from) == {s \in from .. ScannedBytes : OccursAt(v, s, Data)}
First(S) == CHOOSE s \in S : \A u \in S : s <= u

SpanAt(s, v) == [from |-> s, to |-> s + Len(v)]

\* One turn of the loop of locateAll: the search begins where the last match ended.
SearchFrom(matches) == IF matches = <<>> THEN 0 ELSE matches[Len(matches)].to
Search(v, matches) ==
    LET S == Starts(v, SearchFrom(matches)) IN
    IF S = {} THEN matches ELSE Append(matches, SpanAt(First(S), v))

\* A match has at least a byte, so that many turns find them all.
LocateFirst(v) == Search(v, <<>>)
LocateAll(v) ==
    LET after[n \in 0 .. ScannedBytes] == IF n = 0 THEN <<>> ELSE Search(v, after[n - 1])
    IN  after[ScannedBytes]

\* S in order: n - 1 elements come before the n-th.
SortedBy(S, _ \prec _) ==
    [n \in 1 .. Cardinality(S) |->
        CHOOSE s \in S : Cardinality({t \in S : t \prec s}) = n - 1]

Earlier(a, b) == a.from < b.from \/ (a.from = b.from /\ a.to > b.to)

\* One turn of the loop of mergeSpans.
CoalesceNothing(merged, s) == Append(merged, s)
Coalesce(merged, s) ==
    LET last == merged[Len(merged)] IN
    IF s.from <= last.to
    THEN IF s.to > last.to
         THEN [merged EXCEPT ![Len(merged)] = [from |-> last.from, to |-> s.to]]
         ELSE merged
    ELSE Append(merged, s)

MergeSpans(S) ==
    LET sorted == SortedBy(S, Earlier)
        merged[n \in 1 .. Cardinality(S)] ==
            IF n = 1 THEN <<sorted[1]>> ELSE Coalesce(merged[n - 1], sorted[n])
    IN  IF S = {} THEN <<>> ELSE merged[Cardinality(S)]

-----------------------------------------------------------------------------
(* buildFinding, one candidate fragment per step.                          *)

Joined(parts) ==
    LET upTo[n \in 1 .. Len(parts)] ==
            IF n = 1 THEN parts[1] ELSE upTo[n - 1] \o <<Colon>> \o parts[n]
    IN  IF parts = <<>> THEN <<>> ELSE upTo[Len(parts)]
RawV2(res) == Joined(res.parts)
Identity(res) == IF RawV2(res) # <<>> THEN RawV2(res) ELSE res.raw

\* candidateSecrets, with what its inner function add turns away.
Candidates(res) ==
    LET v2 == IF RawV2(res) # <<>> /\ RawV2(res) # res.raw
              THEN <<[value |-> RawV2(res), whole |-> TRUE]>>
                   \o [k \in DOMAIN res.parts |-> [value |-> res.parts[k], whole |-> FALSE]]
              ELSE <<>>
    IN  <<[value |-> res.primary, whole |-> TRUE], [value |-> res.raw, whole |-> TRUE]>> \o v2
TurnedAway(list, k) ==
    \/ Len(list[k].value) < MinCandidateLen
    \/ \E m \in 1 .. k - 1 : list[m].value = list[k].value

ResultAt == results[i]
CandidateAt == Candidates(ResultAt)[j].value

SkipResult ==
    /\ pc = "result" /\ i <= Len(results) /\ Identity(ResultAt) = <<>>
    /\ i' = i + 1
    /\ UNCHANGED <<text, results, j, spans, nextAt, seen, findings, pc, out, why, claims>>

BeginResult ==
    /\ pc = "result" /\ i <= Len(results) /\ Identity(ResultAt) # <<>>
    /\ j' = 1 /\ spans' = {} /\ pc' = "locate"
    /\ UNCHANGED <<text, results, i, nextAt, seen, findings, out, why, claims>>

AtCandidate == pc = "locate" /\ j <= Len(Candidates(ResultAt))

SkipCandidate ==
    /\ AtCandidate /\ TurnedAway(Candidates(ResultAt), j)
    /\ j' = j + 1
    /\ UNCHANGED <<text, results, i, spans, nextAt, seen, findings, pc, out, why, claims>>

Repeated == Candidates(ResultAt)[j].whole \/ Len(CandidateAt) >= MinRepeatMaskLen

LocateEverywhere ==
    /\ AtCandidate /\ ~TurnedAway(Candidates(ResultAt), j) /\ Repeated
    /\ spans' = spans \cup ToSet(LocateAll(CandidateAt))
    /\ j' = j + 1
    /\ UNCHANGED <<text, results, i, nextAt, seen, findings, pc, out, why, claims>>

FragmentKey(det, v) == v
TrackerKey(det, v) == <<det, v>>

\* locate: the next occurrence this detector has not claimed yet.
LocateOnce ==
    LET key == TrackerKey(ResultAt.det, CandidateAt)
        S == Starts(CandidateAt, IF key \in DOMAIN nextAt THEN nextAt[key] ELSE 0)
        span == SpanAt(First(S), CandidateAt)
    IN  /\ AtCandidate /\ ~TurnedAway(Candidates(ResultAt), j) /\ ~Repeated
        /\ IF S = {} THEN UNCHANGED <<spans, nextAt, claims>>
           ELSE /\ spans' = spans \cup {span}
                /\ nextAt' = [k \in DOMAIN nextAt \cup {key} |->
                                IF k = key THEN span.to ELSE nextAt[k]]
                /\ claims' = Append(claims,
                       [det |-> ResultAt.det, value |-> CandidateAt, span |-> span, by |-> i])
        /\ j' = j + 1
        /\ UNCHANGED <<text, results, i, seen, findings, pc, out, why>>

\* Findings are told apart by detector, credential and first span.
Located == MergeSpans(spans)
DedupeKey ==
    <<ResultAt.det, Identity(ResultAt), IF Located = <<>> THEN -1 ELSE Located[1].from>>

FinishResult ==
    /\ pc = "locate" /\ j > Len(Candidates(ResultAt))
    /\ seen' = seen \cup {DedupeKey}
    /\ findings' = IF DedupeKey \in seen THEN findings
                   ELSE Append(findings, [det |-> ResultAt.det, spans |-> Located, from |-> i])
    /\ i' = i + 1 /\ pc' = "result"
    /\ UNCHANGED <<text, results, j, spans, nextAt, out, why, claims>>

EndOfResults ==
    /\ pc = "result" /\ i > Len(results) /\ pc' = "report"
    /\ UNCHANGED <<text, results, located, findings, out, why>>

-----------------------------------------------------------------------------
(* redact and _apply_redaction on the report, truncated or not.            *)

Redactable(f) == f.spans # <<>>
SomeRedactable == \E k \in DOMAIN findings : Redactable(findings[k])
FullyRedactable == \A k \in DOMAIN findings : Redactable(findings[k])

\* A digest with the key of the process; two values that collide are left out.
Fingerprint(v) == [digest |-> v]

\* _merge_labelled_spans: the spans of all findings, in a stable order.
Label(f) == LabelOf[f.det]
SpansOf(k) == {[from |-> s.from, to |-> s.to, finding |-> k] : s \in ToSet(findings[k].spans)}
AllSpans == UNION {SpansOf(k) : k \in DOMAIN findings}
SpliceOrder(a, b) ==
    \/ a.from < b.from
    \/ a.from = b.from /\ a.to > b.to
    \/ a.from = b.from /\ a.to = b.to /\ a.finding < b.finding
Labelled(s) == [from |-> s.from, to |-> s.to, labels |-> <<Label(findings[s.finding])>>]

AnyLabel(labels, label) == Append(labels, label)
WithLabel(labels, label) ==
    IF label \in ToSet(labels) THEN labels ELSE Append(labels, label)

\* One turn of its loop; the labels of a mask are a sequence, joined by "+".
ExtendToLast(last, s) == s.to
ExtendToFarther(last, s) == IF s.to > last.to THEN s.to ELSE last.to
MergeLabel(merged, s) ==
    LET last == merged[Len(merged)] IN
    IF s.from <= last.to
    THEN [merged EXCEPT ![Len(merged)] =
            [from |-> last.from, to |-> ExtendToFarther(last, s),
             labels |-> WithLabel(last.labels, s.labels[1])]]
    ELSE Append(merged, s)
MergeLabelled ==
    LET sorted == SortedBy(AllSpans, SpliceOrder)
        merged[n \in 1 .. Cardinality(AllSpans)] ==
            IF n = 1 THEN <<Labelled(sorted[1])>>
            ELSE MergeLabel(merged[n - 1], Labelled(sorted[n]))
    IN  IF AllSpans = {} THEN <<>> ELSE merged[Cardinality(AllSpans)]

\* A piece of the output: bytes kept, or a mask in their place.
Kept(from, to) == [from |-> from, to |-> to, labels |-> <<>>, tag |-> Fingerprint(<<>>)]
LeadByte(m) == SubSeq(text, m.from + 1, m.from + 1)
CoveredBytes(m) == SubSeq(text, m.from + 1, m.to)
Masked(m) == [from |-> m.from, to |-> m.to, labels |-> m.labels,
              tag |-> Fingerprint(CoveredBytes(m))]
IsMask(p) == p.labels # <<>>
BytesOf(p) == SubSeq(text, p.from + 1, p.to)

\* The splice: what precedes each span, its mask, and what follows the last.
\* The cursor stands where the last mask ended.
CursorAt(merged, k) == IF k = 1 THEN 0 ELSE merged[k - 1].to
KeptBefore(merged, k) ==
    Kept(CursorAt(merged, k), IF k > Len(merged) THEN Size ELSE merged[k].from)
Splice(merged) ==
    [pieces |-> [n \in 1 .. 2 * Len(merged) + 1 |->
                   IF n % 2 = 1 THEN KeptBefore(merged, (n + 1) \div 2)
                   ELSE Masked(merged[n \div 2])],
     ok |-> \A k \in DOMAIN merged : merged[k].from >= CursorAt(merged, k) /\ merged[k].to <= Size]

\* The masks are ASCII, so the result decodes if every kept piece does.
DecodesAnyhow(pieces) == TRUE
Decodes(pieces) == \A k \in DOMAIN pieces : IsMask(pieces[k]) \/ ValidUTF8(BytesOf(pieces[k]))

Refuse(reason) ==
    /\ pc' = "refused" /\ why' = reason
    /\ UNCHANGED <<text, results, located, findings, out>>

Return(pieces) ==
    /\ pc' = "returned" /\ out' = pieces
    /\ UNCHANGED <<text, results, located, findings, why>>

Spliced == Splice(MergeLabelled)

ReturnUnchanged ==
    /\ pc = "report" /\ findings = <<>> /\ Return(<<Kept(0, Size)>>)
RefuseUnlocated ==
    /\ pc = "report" /\ findings # <<>> /\ ~FullyRedactable /\ Refuse("unlocated")
Spliceable == pc = "report" /\ findings # <<>> /\ FullyRedactable
RefuseSplit ==
    /\ Spliceable /\ Spliced.ok /\ ~Decodes(Spliced.pieces) /\ Refuse("split code point")
ReturnMasked ==
    /\ Spliceable /\ Spliced.ok /\ Decodes(Spliced.pieces) /\ Return(Spliced.pieces)

\* A span out of range or out of order would be refused too; the last conjunct of
\* RefusedIfUnmaskable says that no report has one.
Next ==
    \/ SkipResult \/ BeginResult \/ SkipCandidate \/ LocateEverywhere \/ LocateOnce
    \/ FinishResult \/ EndOfResults
    \/ ReturnUnchanged \/ RefuseUnlocated \/ RefuseSplit \/ ReturnMasked

Spec == Init /\ [][Next]_vars

-----------------------------------------------------------------------------
SpanSet == {s \in [from : 0 .. ScannedBytes, to : 0 .. ScannedBytes] : s.from < s.to}
Finding == [det : Detectors, spans : Seq(SpanSet), from : DOMAIN results]
Claim == [det : Detectors, value : Seq(Bytes), span : SpanSet, by : DOMAIN results]

\* Type invariant of one scan and its redaction; the spans of a finding lie in
\* what was scanned, are sorted and neither overlap nor touch.
TypeOK ==
    /\ text \in Texts /\ results \in ResultLists
    /\ i \in 1 .. Len(results) + 1 /\ j \in Nat \ {0}
    /\ spans \subseteq SpanSet
    /\ nextAt \in [DOMAIN nextAt -> 0 .. ScannedBytes]
    /\ findings \in Seq(Finding) /\ claims \in Seq(Claim)
    /\ \A k \in DOMAIN findings :
          LET s == findings[k].spans IN \A m \in 2 .. Len(s) : s[m - 1].to < s[m].from
    /\ pc \in {"result", "locate", "report", "returned", "refused"}
    /\ why \in {"none", "unlocated", "split code point"}

\* What the reader of the output sees: kept bytes, and a mark for each mask.
Mark == <<"mark">>
ASSUME MarkAssumption == Mark \notin Bytes
Shown(p) == IF IsMask(p) THEN <<Mark>> ELSE BytesOf(p)
Visible ==
    LET upTo[n \in 0 .. Len(out)] == IF n = 0 THEN <<>> ELSE upTo[n - 1] \o Shown(out[n])
    IN  upTo[Len(out)]
WholeValues(res) ==
    {Candidates(res)[k].value : k \in {m \in DOMAIN Candidates(res) :
        /\ Len(Candidates(res)[m].value) >= MinCandidateLen
        /\ Candidates(res)[m].whole \/ Len(Candidates(res)[m].value) >= MinRepeatMaskLen}}

\* No copy of a reported credential survives a redaction in what was scanned: no
\* whole value and no long part of any finding occurs in what is returned, short
\* of the unscanned tail it ends in, however often the text holds it, also where
\* copies overlap each other or other findings.
Unscanned == Size - ScannedBytes
NoCopySurvives ==
    pc = "returned" =>
        \A k \in DOMAIN findings : \A v \in WholeValues(results[findings[k].from]) :
            \A s \in 0 .. Len(Visible) :
                s + Len(v) <= Len(Visible) - Unscanned => ~OccursAt(v, s, Visible)

Covered(S) == UNION {s.from .. s.to - 1 : s \in S}

\* Redaction masks exactly the bytes some finding's span covers and keeps every
\* other byte in its place: overlapping, nested, touching and repeated spans of
\* several findings neither lose text nor uncover any.
MasksExactlyTheSpans ==
    pc = "returned" =>
        /\ out[1].from = 0 /\ out[Len(out)].to = Size
        /\ \A n \in DOMAIN out :
              /\ out[n].from <= out[n].to
              /\ n > 1 => out[n].from = out[n - 1].to
              /\ \A b \in out[n].from .. out[n].to - 1 : IsMask(out[n]) <=> b \in Covered(AllSpans)

\* A mask names the detectors whose findings it hides, each label once, however
\* spans of several findings nest, touch and repeat; so no finding is masked
\* under another's name only, and no mask names a detector that found nothing in it.
MasksNameTheirFindings ==
    pc = "returned" =>
        \A n \in DOMAIN out : IsMask(out[n]) =>
            /\ IsInjective(out[n].labels)
            /\ ToSet(out[n].labels) =
                  {Label(findings[s.finding]) : s \in
                      {u \in AllSpans : out[n].from <= u.from /\ u.to <= out[n].to}}

\* "Equal tags mean the same credential twice": every copy of a finding's value
\* in what was scanned that no other span overlaps or touches has a mask of its
\* own, under the finding's label, with the fingerprint() of the value.  Where
\* spans touch, one mask covers both and its tag is of neither.
CopiesShareATag ==
    pc = "returned" =>
        \A k \in DOMAIN findings, s \in 0 .. ScannedBytes :
            \A v \in WholeValues(results[findings[k].from]) :
                LET e == s + Len(v) IN
                /\ OccursAt(v, s, Data)
                /\ \A u \in AllSpans : (u.from = s /\ u.to = e) \/ u.to < s \/ u.from > e
                => \E n \in DOMAIN out :
                      /\ out[n].from = s /\ out[n].to = e
                      /\ out[n].tag = Fingerprint(v) /\ Label(findings[k]) \in ToSet(out[n].labels)

\* A text is refused exactly if a finding was not located at all or a mask
\* would cut a code point in two, also where MaxBytes has cut it; spans are never
\* out of range or out of order, so a text that can be masked is, and one that
\* would be garbled is not.
CutsCodePoint ==
    \E k \in 1 .. Size - 1 :
        text[k] = Lead /\ (k - 1 \in Covered(AllSpans)) # (k \in Covered(AllSpans))
RefusedIfUnmaskable ==
    /\ pc = "refused" => ~FullyRedactable \/ CutsCodePoint
    /\ pc = "returned" => FullyRedactable /\ ~CutsCodePoint
    /\ Spliceable => Spliced.ok

\* A short part is claimed one occurrence at a time: the n-th claim a detector
\* makes of it is the n-th occurrence in the text, whatever other detectors
\* claimed ("two detectors finding the same secret must both report the first
\* occurrence, while one detector reporting it twice means the input contains it
\* twice"), and a redaction masks it.  The exception is a claim of a result that
\* was then dropped as a duplicate: its whole values have their spans in the
\* finding kept, the occurrence its short part had just claimed has none.
ClaimsInOrder ==
    \A k \in DOMAIN claims :
        LET c == claims[k]
            before == {m \in 1 .. k - 1 : claims[m].det = c.det /\ claims[m].value = c.value}
        IN  /\ c.span = LocateAll(c.value)[Cardinality(before) + 1]
            /\ pc = "returned" /\ (\E f \in DOMAIN findings : findings[f].from = c.by) =>
                  \E n \in DOMAIN out : /\ IsMask(out[n])
                                        /\ out[n].from <= c.span.from /\ c.span.to <= out[n].to

\* What Finding.redactable documents: every part of the credential was located
\* in the input.
EveryPartLocated ==
    \A k \in DOMAIN findings : Redactable(findings[k]) =>
        LET res == results[findings[k].from] IN
        \A v \in {res.raw} \cup {res.parts[m] : m \in DOMAIN res.parts} : v # <<>> =>
            \E s \in Starts(v, 0) :
                s .. s + Len(v) - 1 \subseteq
                    Covered(SpansOf(k))
=============================================================================

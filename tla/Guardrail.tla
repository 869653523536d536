----------------------------- MODULE Guardrail -----------------------------
(***************************************************************************)
(* TrufflehogGuardrail.apply_guardrail                                     *)
(* (src/litellm_trufflehog/guardrail.py): every text is scanned on a       *)
(* worker thread of the event loop's executor, asyncio.gather collects the *)
(* reports in whatever order they come or raises the first exception, and  *)
(* the combined report is turned into a decision by the policy.            *)
(*                                                                         *)
(* A text is the set of secrets readable in it.  A scan of it (the native  *)
(* call, ScanTasks) is a member of Scans: what the report says, next to    *)
(* what it does not say and a span does not cover.                         *)
(***************************************************************************)
EXTENDS Naturals, FiniteSets

CONSTANTS Texts,    \* texts a call may carry
          Secrets,  \* credentials the selected detectors recognise
          Scans,    \* what scanning one text can come to
          Workers   \* threads of the executor behind asyncio.to_thread

ASSUME WorkersAssumption == Workers \in Nat \ {0}

Actions == {"block", "redact", "log"}

\* raises: Scanner.scan raised.  located: the findings that have spans, which is
\* what redactable asks for; partly: those with a part that no span covers.
\* splits: a span cuts a code point, so the masked bytes are not UTF-8.
\* tail: secrets with a copy behind max_bytes, reported for another copy or not.
\* skipped: those that only a detector that failed would have reported.
ScanType == [raises : BOOLEAN, found : SUBSET Secrets, located : SUBSET Secrets,
             partly : SUBSET Secrets, splits : BOOLEAN,
             tail : SUBSET Secrets, skipped : SUBSET Secrets,
             truncated : BOOLEAN, degraded : BOOLEAN]

\* The detectors recognise every secret of Secrets in the bytes they are given:
\* a copy stays unreported only in an unscanned tail or by a detector that failed.
ASSUME ScansAssumption ==
    /\ Scans \subseteq ScanType
    /\ \A s \in Scans : s.partly \subseteq s.located /\ s.located \subseteq s.found
    /\ \A s \in Scans : s.tail # {} => s.truncated
    /\ \A s \in Scans : s.skipped # {} => s.degraded

VARIABLES policy,  \* on_detection, block_on_truncation, block_on_scan_error,
                   \* and whether stream_holdback_chars > 0
          scans,   \* the texts of the call and what scanning each comes to
          phase,   \* the scan of each text: queued, running, finished
          pc,      \* called, gather, returned, blocked, raised
          reason,  \* SecretDetected.reason when blocked
          texts,   \* inputs["texts"], which the host reads when we return
          withheld \* inputs["stream_holdback_chars"] was set

vars == <<policy, scans, phase, pc, reason, texts, withheld>>

Policies == [action : Actions, blockTruncation : BOOLEAN, blockScanError : BOOLEAN,
             holdback : BOOLEAN]
Reasons == {"none", "secret_detected", "scan_truncated", "scan_error"}
Present == DOMAIN scans
Readable(t) == scans[t].found \cup scans[t].tail \cup scans[t].skipped

Init ==
    /\ policy \in Policies
    /\ \E P \in SUBSET Texts : scans \in [P -> Scans]
    /\ phase = [t \in Present |-> "idle"]
    /\ texts = [t \in Present |-> Readable(t)]
    /\ pc = "called" /\ reason = "none" /\ withheld = FALSE

-----------------------------------------------------------------------------
(* Scanning: gather(scan_async(text) for text in texts).                   *)

Holdback == policy.holdback

\* return inputs, with the texts given and the tail LiteLLM is to withhold.
Return(handedOn) ==
    /\ pc' = "returned" /\ texts' = handedOn
    /\ withheld' = Holdback
    /\ UNCHANGED <<policy, scans, phase, reason>>

NoTexts ==
    /\ pc = "called" /\ Present = {}
    /\ Return(texts)

Gather ==
    /\ pc = "called" /\ Present # {}
    /\ phase' = [t \in Present |-> "queued"]
    /\ pc' = "gather"
    /\ UNCHANGED <<policy, scans, reason, texts, withheld>>

Running == {t \in Present : phase[t] = "running"}
Started == {t \in Present : phase[t] \in {"running", "finished"}}
ThreadNeverReturned == Cardinality(Started) < Workers
ThreadFree == Cardinality(Running) < Workers

WorkerStarts(t) ==
    /\ t \in Present /\ phase[t] = "queued" /\ ThreadFree
    /\ phase' = [phase EXCEPT ![t] = "running"]
    /\ UNCHANGED <<policy, scans, pc, reason, texts, withheld>>

\* Also after the call was decided: gather does not cancel the other scans.
WorkerFinishes(t) ==
    /\ t \in Present /\ phase[t] = "running"
    /\ phase' = [phase EXCEPT ![t] = "finished"]
    /\ UNCHANGED <<policy, scans, pc, reason, texts, withheld>>

AllFinished == \A t \in Present : phase[t] = "finished"

\* The first exception leaves apply_guardrail; other scans may still run.
GatherRaises ==
    /\ pc = "gather"
    /\ \E t \in Present : phase[t] = "finished" /\ scans[t].raises
    /\ pc' = "raised"
    /\ UNCHANGED <<policy, scans, phase, reason, texts, withheld>>

GatherReturns ==
    /\ pc = "gather" /\ AllFinished
    /\ \A t \in Present : ~scans[t].raises

-----------------------------------------------------------------------------
(* _combine and _handle, between two awaits of the event loop.             *)

Findings == UNION {scans[t].found : t \in Present}
EveryReportTruncated == \A t \in Present : scans[t].truncated
Truncated == \E t \in Present : scans[t].truncated
EveryReportDegraded == \A t \in Present : scans[t].degraded
Degraded == \E t \in Present : scans[t].degraded

ScanErrorBlocks == policy.blockScanError /\ Degraded
TruncationBlocks == policy.blockTruncation /\ Truncated
NeedsAction == Findings # {} \/ TruncationBlocks \/ ScanErrorBlocks

\* _apply_redaction refuses a report with a finding that has no span, and a
\* result that is not valid UTF-8; _handle then blocks the whole call.
LocatedSomewhere(t) == scans[t].found = {} \/ scans[t].located # {}
Maskable(t) ==
    scans[t].found = {}
        \/ (scans[t].found = scans[t].located /\ ~scans[t].splits)
\* Only spans are masked: a part without one stays, and so does the tail, which
\* is in the text that is spliced but not in the bytes that were scanned.
Masked(t) == Readable(t) \ (scans[t].located \ (scans[t].partly \cup scans[t].tail))
FlaggedTexts == [t \in {u \in Present : scans[u].found # {}} |-> Masked(t)]
MaskedTexts == [t \in Present |-> Masked(t)]

Allow ==
    /\ GatherReturns /\ ~NeedsAction
    /\ Return(texts)

Blocked(why) ==
    /\ pc' = "blocked" /\ reason' = why
    /\ UNCHANGED <<policy, scans, phase, texts, withheld>>

BlockScanError ==
    GatherReturns /\ NeedsAction /\ ScanErrorBlocks /\ Blocked("scan_error")

BlockTruncated ==
    /\ GatherReturns /\ NeedsAction /\ ~ScanErrorBlocks
    /\ TruncationBlocks /\ Blocked("scan_truncated")

\* The scans can be trusted, or the policy accepts that they cannot.
Trusted == GatherReturns /\ NeedsAction /\ ~ScanErrorBlocks /\ ~TruncationBlocks

LogOnly ==
    /\ Trusted /\ policy.action = "log"
    /\ Return(texts)

Redact ==
    /\ Trusted /\ policy.action = "redact"
    /\ \A t \in Present : Maskable(t)
    /\ Return(MaskedTexts)

RedactionFails ==
    /\ Trusted /\ policy.action = "redact"
    /\ \E t \in Present : ~Maskable(t)
    /\ Blocked("secret_detected")

Block ==
    Trusted /\ policy.action = "block" /\ Blocked("secret_detected")

Decide ==
    \/ Allow \/ BlockScanError \/ BlockTruncated
    \/ LogOnly \/ Redact \/ RedactionFails \/ Block

EventLoop == NoTexts \/ Gather \/ GatherRaises \/ Decide
Worker(t) == WorkerStarts(t) \/ WorkerFinishes(t)

Next == EventLoop \/ \E t \in Texts : Worker(t)

\* The event loop runs ready callbacks, an executor thread takes queued work
\* and a native scan returns (ScanTerminates of ScanTasks).
Fairness == WF_vars(EventLoop) /\ \A t \in Texts : WF_vars(Worker(t))

Spec == Init /\ [][Next]_vars /\ Fairness

-----------------------------------------------------------------------------
Decided == {"returned", "blocked", "raised"}

\* Type invariant of one apply_guardrail call.
TypeOK ==
    /\ policy \in Policies
    /\ Present \subseteq Texts /\ scans \in [Present -> Scans]
    /\ phase \in [Present -> {"idle", "queued", "running", "finished"}]
    /\ pc \in {"called", "gather"} \cup Decided
    /\ reason \in Reasons
    /\ texts \in [Present -> SUBSET Secrets]
    /\ withheld \in BOOLEAN

\* What may be readable in a text that is handed on: what "log" lets through
\* knowingly, and what an unscanned tail or a failed detector hid where the policy
\* tolerates either.  "redact" promises to mask each secret and does not: one of
\* whose parts only some were located passes for redactable and stays readable
\* in the others.  The gate grants that here, by name, and nothing beyond it
\* (EveryPartLocated of Redaction shows the disagreement itself).
PartlyMasked(t) == IF policy.action = "redact" THEN scans[t].partly ELSE {}
Permitted ==
    [t \in Present |->
        (IF policy.action = "log" THEN scans[t].found ELSE PartlyMasked(t))
        \cup (IF policy.blockTruncation THEN {} ELSE scans[t].tail)
        \cup (IF policy.blockScanError THEN {} ELSE scans[t].skipped)]

Gate == INSTANCE ReleaseGate WITH
    permitted <- Permitted,
    decision <- CASE pc = "returned" -> "released"
                  [] pc \in {"blocked", "raised"} -> "refused"
                  [] OTHER -> "pending",
    out <- [t \in Present |-> IF pc = "returned" THEN texts[t] ELSE {}]

\* The guardrail implements the gate: it decides once, whatever the scans that
\* are still running do afterwards, and no text it hands on holds a secret the
\* policy does not permit ("an unscanned tail or a skipped detector means an
\* empty result cannot be mistaken for a clean one").
FailsClosed == Gate!Spec

\* One bad text decides for all: a call whose scans all came back is released
\* exactly if no scan of any text raised or failed in a way the policy blocks
\* on, and there is nothing to act on, or logging is all that is asked, or
\* every single finding can be masked.
DecisionIsRight ==
    pc \in Decided =>
        (pc = "returned") =
            \A t \in Present :
                /\ ~scans[t].raises
                /\ ~(scans[t].degraded /\ policy.blockScanError)
                /\ ~(scans[t].truncated /\ policy.blockTruncation)
                /\ scans[t].found # {} =>
                     \/ policy.action = "log"
                     \/ /\ policy.action = "redact"
                        /\ scans[t].found \subseteq scans[t].located
                        /\ ~scans[t].splits

\* The reason given is the right one: a call is refused for a scan that did not
\* complete, or for a tail, only if there is one and the policy blocks on it, the
\* former first, and as "secret_detected" only on findings of scans that could
\* be trusted, so a client can tell a leak from a scan that did not complete.
ReasonIsTrue ==
    /\ pc = "blocked" /\ reason = "secret_detected" =>
          /\ \E t \in Present : scans[t].found # {}
          /\ \A t \in Present : scans[t].degraded => ~policy.blockScanError
          /\ \A t \in Present : scans[t].truncated => ~policy.blockTruncation
    /\ pc = "blocked" /\ reason = "scan_truncated" =>
          /\ policy.blockTruncation /\ \E t \in Present : scans[t].truncated
          /\ \A t \in Present : scans[t].degraded => ~policy.blockScanError
    /\ pc = "blocked" /\ reason = "scan_error" =>
          policy.blockScanError /\ \E t \in Present : scans[t].degraded
    /\ (reason # "none") = (pc = "blocked")

\* Every call is decided, with fewer threads than texts too, and the scans left
\* behind by an exception still run to their end.
EveryCallDecided == <>(pc \in Decided) /\ <>[](pc = "returned" \/ AllFinished)
=============================================================================

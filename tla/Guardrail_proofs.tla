-------------------------- MODULE Guardrail_proofs --------------------------
(***************************************************************************)
(* Proofs about Guardrail, for every set of texts, secrets and scans and   *)
(* every number of executor threads: the type invariant, the decision, and *)
(* that the guardrail implements the release gate.                         *)
(***************************************************************************)
EXTENDS Guardrail, TLAPS

\* A call is undecided before and during the gather, and inputs is untouched.
ProgressInv ==
    /\ pc \in {"called", "gather"} => reason = "none"
    /\ pc = "blocked" <=> reason # "none"
    /\ pc # "returned" => texts = [t \in Present |-> Readable(t)]
    /\ pc = "returned" => \A t \in Present : texts[t] \subseteq Permitted[t]

IInv == TypeOK /\ DecisionIsRight /\ ProgressInv

\* The members of Scans are well-typed records.
LEMMA ScanFacts ==
  ASSUME NEW s \in Scans
  PROVE  /\ s.raises \in BOOLEAN /\ s.splits \in BOOLEAN
         /\ s.truncated \in BOOLEAN /\ s.degraded \in BOOLEAN
         /\ s.found \subseteq Secrets /\ s.tail \subseteq Secrets /\ s.skipped \subseteq Secrets
         /\ s.partly \subseteq s.located /\ s.located \subseteq s.found
         /\ s.tail # {} => s.truncated
         /\ s.skipped # {} => s.degraded
BY ScansAssumption DEF ScanType

\* Initially the call is undecided and inputs is as the host passed it.
LEMMA InitInv == Init => IInv
<1> SUFFICES ASSUME Init PROVE IInv
  OBVIOUS
<1>1. PICK P \in SUBSET Texts : scans \in [P -> Scans]
  BY DEF Init
<1>2. Present = P /\ scans \in [Present -> Scans] /\ Present \subseteq Texts
  BY <1>1 DEF Present
<1>3. \A t \in Present : Readable(t) \subseteq Secrets
  BY <1>2, ScanFacts DEF Readable
<1>4. TypeOK
  BY <1>2, <1>3 DEF Init, TypeOK, Reasons
<1>5. DecisionIsRight /\ ProgressInv
  BY DEF Init, DecisionIsRight, Decided, ProgressInv
<1> QED BY <1>4, <1>5 DEF IInv

\* What the seven outcomes of the decision mean for the scans of the texts.
LEMMA DecisionFacts ==
  ASSUME TypeOK
  PROVE  /\ Truncated <=> \E t \in Present : scans[t].truncated
         /\ Degraded <=> \E t \in Present : scans[t].degraded
         /\ Findings = {} <=> \A t \in Present : scans[t].found = {}
         /\ \A t \in Present : scans[t] \in Scans
BY DEF TypeOK, Truncated, Degraded, Findings

\* What an unscanned tail or a failed detector hid is permitted whenever the
\* scans were trusted or nothing needed action.
LEMMA HiddenIsPermitted ==
  ASSUME TypeOK, ~ScanErrorBlocks, ~TruncationBlocks, NEW t \in Present
  PROVE  scans[t].tail \subseteq Permitted[t] /\ scans[t].skipped \subseteq Permitted[t]
<1>1. scans[t] \in Scans
  BY DecisionFacts
<1>2. (scans[t].tail # {} => scans[t].truncated) /\ (scans[t].skipped # {} => scans[t].degraded)
  BY <1>1, ScanFacts
<1>3. scans[t].truncated => ~policy.blockTruncation
  BY DEF TruncationBlocks, Truncated
<1>4. scans[t].degraded => ~policy.blockScanError
  BY DEF ScanErrorBlocks, Degraded
<1> QED BY <1>2, <1>3, <1>4 DEF Permitted, PartlyMasked

-----------------------------------------------------------------------------
(* The inductive invariant.                                                *)

\* Scheduling steps: the call stays undecided, or was decided and stays so.
LEMMA ScanStepInv ==
  ASSUME IInv, Gather \/ \E t \in Texts : Worker(t)
  PROVE  IInv'
<1>1. /\ UNCHANGED <<policy, scans, reason, texts, withheld>>
      /\ pc' = pc \/ (pc = "called" /\ pc' = "gather")
      /\ phase' \in [Present -> {"idle", "queued", "running", "finished"}]
  BY DEF IInv, TypeOK, Gather, Worker, WorkerStarts, WorkerFinishes, ThreadFree
<1>2. TypeOK'
  BY <1>1 DEF IInv, TypeOK, Present, Decided
<1>3. DecisionIsRight'
  BY <1>1 DEF IInv, DecisionIsRight, Decided, Present
<1>4. ProgressInv'
  BY <1>1 DEF IInv, ProgressInv, Present,
              Readable, Permitted, PartlyMasked
<1> QED BY <1>2, <1>3, <1>4 DEF IInv

\* A call without texts returns at once.
LEMMA NoTextsInv == IInv /\ NoTexts => IInv'
<1> SUFFICES ASSUME IInv, NoTexts PROVE IInv'
  OBVIOUS
<1> USE DEF NoTexts, Return, Holdback
<1>1. TypeOK'
  BY DEF IInv, TypeOK, Present, Decided, Policies
<1>2. DecisionIsRight'
  BY DEF DecisionIsRight, Decided, Present
<1>3. ProgressInv'
  BY DEF IInv, ProgressInv, Present
<1> QED BY <1>1, <1>2, <1>3 DEF IInv

\* A refusal leaves inputs alone; that it is right is shown case by case.
LEMMA RefusalInv ==
  ASSUME IInv, pc = "gather", UNCHANGED <<policy, scans, phase, texts, withheld>>,
         \/ pc' = "raised" /\ reason' = reason
         \/ pc' = "blocked" /\ reason' \in Reasons \ {"none"},
         \E t \in Present :
            \/ scans[t].raises
            \/ scans[t].degraded /\ policy.blockScanError
            \/ scans[t].truncated /\ policy.blockTruncation
            \/ /\ scans[t].found # {}
               /\ policy.action # "log"
               /\ ~ /\ policy.action = "redact"
                    /\ scans[t].found \subseteq scans[t].located
                    /\ ~scans[t].splits
  PROVE  IInv'
<1>1. TypeOK'
  BY DEF IInv, TypeOK, Present, Decided
<1>2. DecisionIsRight'
  BY DEF DecisionIsRight, Decided, Present
<1>3. ProgressInv'
  BY DEF IInv, ProgressInv, Present, Readable
<1> QED BY <1>1, <1>2, <1>3 DEF IInv

\* The first exception of a scan leaves the call.
LEMMA GatherRaisesInv == IInv /\ GatherRaises => IInv'
BY RefusalInv DEF GatherRaises

\* A release: every scan came back, nothing the policy blocks on is left, and
\* what is handed on is permitted.
LEMMA ReleaseInv ==
  ASSUME IInv, pc = "gather", GatherReturns, ~ScanErrorBlocks, ~TruncationBlocks,
         NEW handedOn \in [Present -> SUBSET Secrets], Return(handedOn),
         \A t \in Present : handedOn[t] \subseteq Permitted[t],
         \A t \in Present : scans[t].found # {} =>
             \/ policy.action = "log"
             \/ /\ policy.action = "redact"
                /\ scans[t].found \subseteq scans[t].located
                /\ ~scans[t].splits
  PROVE  IInv'
<1> USE DEF Return, Holdback
<1>1. TypeOK'
  BY DEF IInv, TypeOK, Present, Decided, Policies
<1>2. DecisionIsRight'
  <2>1. \A t \in Present : ~scans[t].raises
    BY DEF GatherReturns
  <2>2. \A t \in Present : ~(scans[t].degraded /\ policy.blockScanError)
    BY DEF ScanErrorBlocks, Degraded
  <2>3. \A t \in Present : ~(scans[t].truncated /\ policy.blockTruncation)
    BY DEF TruncationBlocks, Truncated
  <2> QED BY <2>1, <2>2, <2>3 DEF DecisionIsRight, Present
<1>3. ProgressInv'
  BY DEF IInv, ProgressInv, Present, Permitted, PartlyMasked
<1> QED BY <1>1, <1>2, <1>3 DEF IInv

\* Nothing to act on: no scan found anything.
LEMMA AllowInv == IInv /\ Allow => IInv'
<1> SUFFICES ASSUME IInv, Allow PROVE IInv'
  OBVIOUS
<1>1. pc = "gather" /\ GatherReturns /\ ~ScanErrorBlocks /\ ~TruncationBlocks /\ Return(texts)
  BY DEF Allow, NeedsAction, GatherReturns
<1>2. \A t \in Present : scans[t].found = {}
  BY DEF Allow, NeedsAction, Findings
<1>3. texts = [t \in Present |-> Readable(t)] /\ texts \in [Present -> SUBSET Secrets]
  BY <1>1 DEF IInv, ProgressInv, TypeOK
<1>4. \A t \in Present : scans[t].tail \cup scans[t].skipped \subseteq Permitted[t]
  BY <1>1, HiddenIsPermitted DEF IInv
<1>5. \A t \in Present : texts[t] \subseteq Permitted[t]
  BY <1>2, <1>3, <1>4 DEF Readable
<1> QED BY <1>1, <1>2, <1>3, <1>5, ReleaseInv

\* Logging: what was found is permitted, what was hidden as well.
LEMMA LogOnlyInv == IInv /\ LogOnly => IInv'
<1> SUFFICES ASSUME IInv, LogOnly PROVE IInv'
  OBVIOUS
<1>1. /\ pc = "gather" /\ GatherReturns /\ ~ScanErrorBlocks /\ ~TruncationBlocks
      /\ Return(texts) /\ policy.action = "log"
  BY DEF LogOnly, Trusted, GatherReturns
<1>2. texts = [t \in Present |-> Readable(t)] /\ texts \in [Present -> SUBSET Secrets]
  BY <1>1 DEF IInv, ProgressInv, TypeOK
<1>3. \A t \in Present : scans[t].tail \cup scans[t].skipped \subseteq Permitted[t]
  BY <1>1, HiddenIsPermitted DEF IInv
<1>4. \A t \in Present : scans[t].found \subseteq Permitted[t]
  BY <1>1 DEF Permitted, PartlyMasked
<1>5. \A t \in Present : texts[t] \subseteq Permitted[t]
  BY <1>2, <1>3, <1>4 DEF Readable
<1> QED BY <1>1, <1>2, <1>5, ReleaseInv

\* Redaction: every finding is located, so what stays readable was hidden, or
\* is a finding with a part that no span covers.
LEMMA RedactInv == IInv /\ Redact => IInv'
<1> SUFFICES ASSUME IInv, Redact PROVE IInv'
  OBVIOUS
<1> DEFINE handedOn == [t \in Present |-> Masked(t)]
<1>1. /\ pc = "gather" /\ GatherReturns /\ ~ScanErrorBlocks /\ ~TruncationBlocks
      /\ Return(handedOn) /\ policy.action = "redact"
      /\ \A t \in Present : Maskable(t)
  BY DEF Redact, Trusted, GatherReturns, MaskedTexts
<1>2. \A t \in Present : scans[t] \in Scans
  BY DecisionFacts DEF IInv
<1>3. handedOn \in [Present -> SUBSET Secrets]
  BY <1>2, ScanFacts DEF Masked, Readable
<1>4. \A t \in Present : scans[t].tail \cup scans[t].skipped \subseteq Permitted[t]
  BY <1>1, HiddenIsPermitted DEF IInv
<1>5. \A t \in Present : handedOn[t] \subseteq Permitted[t]
  <2> SUFFICES ASSUME NEW t \in Present, NEW x \in Masked(t) PROVE x \in Permitted[t]
    OBVIOUS
  <2>1. CASE x \in scans[t].tail \cup scans[t].skipped
    BY <1>4, <2>1
  <2>2. CASE x \in scans[t].found /\ x \notin scans[t].tail
    <3>1. x \in scans[t].located
      BY <1>1, <2>2 DEF Maskable
    <3>2. x \in scans[t].partly
      BY <2>2, <3>1 DEF Masked
    <3> QED BY <1>1, <3>2 DEF Permitted, PartlyMasked
  <2> QED BY <2>1, <2>2 DEF Masked, Readable
<1>6. \A t \in Present : scans[t].found # {} =>
          scans[t].found \subseteq scans[t].located /\ ~scans[t].splits
  BY <1>1 DEF Maskable
<1> HIDE DEF handedOn
<1> QED BY <1>1, <1>3, <1>5, <1>6, ReleaseInv

\* The four ways to block.
LEMMA BlockInv ==
  ASSUME IInv, BlockScanError \/ BlockTruncated \/ RedactionFails \/ Block
  PROVE  IInv'
<1>1. CASE BlockScanError
  BY <1>1, RefusalInv
  DEF BlockScanError, GatherReturns, ScanErrorBlocks, Degraded, Blocked, Reasons
<1>2. CASE BlockTruncated
  BY <1>2, RefusalInv
  DEF BlockTruncated, GatherReturns, TruncationBlocks, Truncated, Blocked, Reasons
<1>3. CASE RedactionFails
  <2>1. PICK t \in Present : ~Maskable(t)
    BY <1>3 DEF RedactionFails
  <2>2. scans[t] \in Scans
    BY DecisionFacts DEF IInv
  <2>3. scans[t].found # {} /\ (scans[t].found # scans[t].located \/ scans[t].splits)
    BY <2>1 DEF Maskable
  <2>4. ~(scans[t].found \subseteq scans[t].located /\ ~scans[t].splits)
    BY <2>2, <2>3, ScanFacts
  <2>5. policy.action = "redact" /\ pc = "gather" /\ Blocked("secret_detected")
    BY <1>3 DEF RedactionFails, Trusted, GatherReturns
  <2> QED BY <2>3, <2>4, <2>5, RefusalInv DEF Blocked, Reasons
<1>4. CASE Block
  <2>1. pc = "gather" /\ policy.action = "block" /\ Findings # {} /\ Blocked("secret_detected")
    BY <1>4 DEF Block, Trusted, GatherReturns, NeedsAction
  <2>2. PICK t \in Present : scans[t].found # {}
    BY <2>1 DEF Findings
  <2> QED BY <2>1, <2>2, RefusalInv DEF Blocked, Reasons
<1> QED BY <1>1, <1>2, <1>3, <1>4

\* Every step keeps the inductive invariant.
LEMMA StepInv == IInv /\ [Next]_vars => IInv'
<1> SUFFICES ASSUME IInv, [Next]_vars PROVE IInv'
  OBVIOUS
<1>1. CASE Gather \/ \E t \in Texts : Worker(t)
  BY <1>1, ScanStepInv
<1>2. CASE NoTexts \/ GatherRaises
  BY <1>2, NoTextsInv, GatherRaisesInv
<1>3. CASE Decide
  BY <1>3, AllowInv, LogOnlyInv, RedactInv, BlockInv DEF Decide
<1>4. CASE UNCHANGED vars
  <2>1. UNCHANGED <<policy, scans, phase, pc, reason, texts, withheld>>
    BY <1>4 DEF vars
  <2>2. TypeOK' /\ DecisionIsRight'
    BY <2>1 DEF IInv, TypeOK, DecisionIsRight, Present
  <2>3. ProgressInv'
    BY <2>1 DEF IInv, ProgressInv, Present, Readable, Permitted, PartlyMasked
  <2> QED BY <2>2, <2>3 DEF IInv
<1> QED BY <1>1, <1>2, <1>3, <1>4 DEF Next, EventLoop

\* The inductive invariant holds in every reachable state.
LEMMA Inductive == Spec => []IInv
BY InitInv, StepInv, PTL DEF Spec

-----------------------------------------------------------------------------
(* The results.                                                            *)

\* Every reachable state of a call is well typed.
THEOREM TypeCorrect == Spec => []TypeOK
<1>1. IInv => TypeOK
  BY DEF IInv
<1> QED BY <1>1, Inductive, PTL

\* A call is released exactly when no text of it stands against it.
THEOREM DecisionsAreRight == Spec => []DecisionIsRight
<1>1. IInv => DecisionIsRight
  BY DEF IInv
<1> QED BY <1>1, Inductive, PTL

\* The reason follows from the guards of the four blocking branches; the other
\* steps block nothing, or come after the decision.
LEMMA ReasonStep == IInv /\ ReasonIsTrue /\ [Next]_vars => ReasonIsTrue'
<1> SUFFICES ASSUME IInv, ReasonIsTrue, [Next]_vars PROVE ReasonIsTrue'
  OBVIOUS
<1>1. CASE UNCHANGED <<policy, scans, pc, reason>>
  BY <1>1 DEF ReasonIsTrue, Present
<1>2. CASE pc # "blocked" /\ pc' # "blocked" /\ reason' = reason
  BY <1>2 DEF ReasonIsTrue
<1>3. CASE BlockScanError
  BY <1>3 DEF BlockScanError, Blocked, ReasonIsTrue, ScanErrorBlocks, Degraded, Present
<1>4. CASE BlockTruncated
  BY <1>4 DEF BlockTruncated, Blocked, ReasonIsTrue, ScanErrorBlocks, Degraded,
                    TruncationBlocks, Truncated, Present
<1>5. CASE RedactionFails \/ Block
  <2>1. Trusted /\ Blocked("secret_detected")
    BY <1>5 DEF RedactionFails, Block
  <2>2. \E t \in Present : scans[t].found # {}
    BY <2>1 DEF Trusted, NeedsAction, Findings
  <2> QED BY <2>1, <2>2 DEF Trusted, Blocked, ReasonIsTrue, ScanErrorBlocks, Degraded,
                            TruncationBlocks, Truncated, Present
<1>6. CASE NoTexts \/ Gather \/ GatherRaises \/ Allow \/ LogOnly \/ Redact
  BY <1>2, <1>6 DEF NoTexts, Gather, GatherRaises, Allow, LogOnly, Redact, Trusted,
                    GatherReturns, Return
<1>7. CASE \E t \in Texts : Worker(t)
  BY <1>1, <1>7 DEF Worker, WorkerStarts, WorkerFinishes
<1> QED BY <1>1, <1>3, <1>4, <1>5, <1>6, <1>7 DEF Next, EventLoop, Decide, vars

\* Whoever is told "secret_detected" had scans that can be trusted, or accepted
\* by policy that they cannot.
THEOREM ReasonsAreTrue == Spec => []ReasonIsTrue
<1>1. Init => ReasonIsTrue
  BY DEF Init, ReasonIsTrue
<1>2. IInv /\ ReasonIsTrue /\ [Next]_vars => ReasonIsTrue'
  BY ReasonStep
<1> QED BY <1>1, <1>2, Inductive, PTL DEF Spec

\* The guardrail fails closed: it implements the release gate, so it decides
\* once and hands on no text with a secret in it that the policy does not
\* permit, whatever the order of the scans and whatever they come to.
THEOREM ImplementsGate == Spec => FailsClosed
<1>1. Init => Gate!Init
  <2> SUFFICES ASSUME Init PROVE Gate!Init
    OBVIOUS
  <2>1. \A t \in Present : scans[t] \in Scans
    BY InitInv, DecisionFacts DEF IInv
  <2>2. \A t \in Present : Permitted[t] \subseteq Secrets
    BY <2>1, ScanFacts DEF Permitted, PartlyMasked
  <2>3. DOMAIN Permitted = Present
    BY DEF Permitted, PartlyMasked
  <2>4. pc = "called"
    BY DEF Init
  <2> QED BY <2>2, <2>3, <2>4 DEF Gate!Init, Gate!Nothing
<1>2. IInv /\ IInv' /\ [Next]_vars => [Gate!Next]_(Gate!vars)
  <2> SUFFICES ASSUME IInv, IInv', [Next]_vars PROVE [Gate!Next]_(Gate!vars)
    OBVIOUS
  <2>1. UNCHANGED <<Permitted, Present>>
    <3>1. UNCHANGED <<policy, scans>>
      BY DEF Next, EventLoop, NoTexts, Return, Holdback, Gather, GatherRaises, Decide, Allow,
             BlockScanError, BlockTruncated, Blocked, LogOnly, Redact, RedactionFails,
             Block, Worker, WorkerStarts, WorkerFinishes, ThreadFree, vars
    <3> QED BY <3>1 DEF Permitted, PartlyMasked, Present
  <2>2. CASE pc' = pc /\ (pc = "returned" => texts' = texts)
    <3>1. UNCHANGED (Gate!vars)
      BY <2>1, <2>2 DEF Gate!vars
    <3> QED BY <3>1
  <2>3. CASE pc = "called" /\ pc' = "gather"
    <3>1. UNCHANGED (Gate!vars)
      BY <2>1, <2>3 DEF Gate!vars
    <3> QED BY <3>1
  <2>4. CASE pc \in {"called", "gather"} /\ pc' = "returned"
    <3>1. \A t \in Present' : texts'[t] \subseteq Permitted'[t]
      BY <2>4 DEF IInv, ProgressInv
    <3>2. DOMAIN Permitted = Present
      BY DEF Permitted, PartlyMasked
    <3>3. Gate!Release
      BY <2>1, <2>4, <3>1, <3>2 DEF Gate!Release
    <3> QED BY <3>3 DEF Gate!Next
  <2>5. CASE pc = "gather" /\ pc' \in {"blocked", "raised"}
    <3>1. Gate!Refuse
      BY <2>1, <2>5 DEF Gate!Refuse
    <3> QED BY <3>1 DEF Gate!Next
  <2> QED
    BY <2>2, <2>3, <2>4, <2>5
    DEF Next, EventLoop, NoTexts, Return, Holdback, Gather, GatherRaises, Decide, Allow,
        GatherReturns, BlockScanError, BlockTruncated, Blocked, LogOnly, Redact,
        Trusted, RedactionFails, Block, Worker, WorkerStarts, WorkerFinishes, ThreadFree, vars
<1> QED BY <1>1, <1>2, Inductive, PTL DEF Spec, FailsClosed, Gate!Spec
=============================================================================

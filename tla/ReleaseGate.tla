---------------------------- MODULE ReleaseGate ----------------------------
(***************************************************************************)
(* What the guardrail promises its host about one call: it decides once,   *)
(* either refusing the call and handing nothing on, or releasing every     *)
(* text with no secret readable in it but the ones the policy permits.     *)
(***************************************************************************)
CONSTANTS Secrets

VARIABLES permitted, \* permitted[t]: secrets that may be readable in text t
          decision,  \* "pending", "released" or "refused"
          out        \* out[t]: secrets readable in the text handed on

vars == <<permitted, decision, out>>

Nothing == [t \in DOMAIN permitted |-> {}]

Init ==
    /\ \A t \in DOMAIN permitted : permitted[t] \subseteq Secrets
    /\ decision = "pending" /\ out = Nothing

Release ==
    /\ decision = "pending" /\ decision' = "released"
    /\ DOMAIN out' = DOMAIN permitted
    /\ \A t \in DOMAIN permitted : out'[t] \subseteq permitted[t]
    /\ UNCHANGED permitted

Refuse ==
    /\ decision = "pending" /\ decision' = "refused"
    /\ UNCHANGED <<permitted, out>>

Next == Release \/ Refuse

Spec == Init /\ [][Next]_vars
=============================================================================

---------------------------- MODULE MCScanTasks ----------------------------
(* ScanTasks on two detectors with up to two chunks each, three tasks in    *)
(* all, and two slots.                                                     *)
EXTENDS ScanTasks

Keep(id, at) == [id |-> id, at |-> at, verdict |-> "keep"]

\* A hit, one without identity, the same identity found elsewhere (its primary
\* value differs), and the hit repeated; partial results next to an error, not
\* located or found before; a panic; and a hit whose false-positive check drops it or panics.
MCOutcomes ==
    { [kind |-> "ok", res |-> <<Keep("x", 3), Keep(NoId, NoSpan), Keep("x", 0), Keep("x", 3)>>],
      [kind |-> "error", res |-> <<Keep("y", NoSpan), Keep("x", 0)>>],
      [kind |-> "panic", res |-> <<Keep("x", 0)>>],
      [kind |-> "ok", res |-> <<[id |-> "y", at |-> NoSpan, verdict |-> "drop"],
                                [id |-> "x", at |-> 0, verdict |-> "panic"]>>] }
=============================================================================

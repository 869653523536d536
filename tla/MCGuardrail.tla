---------------------------- MODULE MCGuardrail ----------------------------
(* Guardrail on up to three texts, two secrets and two executor threads.    *)
EXTENDS Guardrail

CONSTANTS t1, t2, t3, a, b

MCTexts == {t1, t2, t3}
MCSecrets == {a, b}

Clean == [raises |-> FALSE, found |-> {}, located |-> {}, partly |-> {}, splits |-> FALSE,
          tail |-> {}, skipped |-> {}, truncated |-> FALSE, degraded |-> FALSE]

\* A clean text, a scan that raised, findings that can be masked whole, in part
\* or not at all, or cut a code point; truncated scans with a secret only in the
\* tail and with a found one that is there once more; and a degraded one with a
\* finding and a secret that the failed detector would have found.
MCScans ==
    { Clean,
      [Clean EXCEPT !.raises = TRUE],
      [Clean EXCEPT !.found = {a, b}, !.located = {a, b}, !.partly = {b}],
      [Clean EXCEPT !.found = {a, b}, !.located = {a}],
      [Clean EXCEPT !.found = {b}, !.located = {b}, !.splits = TRUE],
      [Clean EXCEPT !.truncated = TRUE, !.tail = {b}],
      [Clean EXCEPT !.truncated = TRUE, !.found = {a}, !.located = {a}, !.tail = {a}],
      [Clean EXCEPT !.degraded = TRUE, !.found = {b}, !.located = {b}, !.skipped = {a}] }
=============================================================================

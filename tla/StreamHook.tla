----------------------------- MODULE StreamHook -----------------------------
(***************************************************************************)
(* TrufflehogGuardrail.async_post_call_streaming_iterator_hook             *)
(* (src/litellm_trufflehog/guardrail.py): every item of a streamed         *)
(* response has its text fed to a StreamScanner before the item is         *)
(* yielded, and a finding ends the stream unless the policy only logs.     *)
(*                                                                         *)
(* An item holds a fragment for each choice of the response, empty for a   *)
(* choice that says nothing in it; the hook scans their concatenation.     *)
(***************************************************************************)
EXTENDS StreamScanner

CONSTANTS NumChoices, \* choices of the streamed response (the `n` asked for)
          Items       \* items the stream may be made of

ASSUME ItemsAssumption ==
    /\ NumChoices \in Nat \ {0}
    /\ Items \subseteq [1 .. NumChoices -> Seq(Chars)]

VARIABLES hpc,          \* "open", "ended", or how the generator raised
          onDetection,  \* on_detection
          failClosed,   \* block_on_truncation and block_on_scan_error
          upstream,     \* history: the text of each choice received
          delivered,    \* history: the text of each choice yielded
          place         \* history: where in the fed text each received character is

hookVars == <<scannerVars, hpc, onDetection, failClosed, upstream, delivered, place>>
Choices == 1 .. NumChoices
Policy == <<onDetection, failClosed>>
Silence == [c \in Choices |-> <<>>]

HookInit ==
    /\ ScannerInit
    /\ hpc = "open" /\ onDetection \in {"block", "redact", "log"}
    /\ failClosed \in BOOLEAN
    /\ upstream = Silence /\ delivered = Silence /\ place = Silence

-----------------------------------------------------------------------------
TextOfLastChoice(item) == item[NumChoices]

\* _extract_stream_text: the fragments of an item, in the order of the choices.
TextBefore(choice, item) ==
    LET joined[n \in Choices] == IF n = 1 THEN <<>> ELSE joined[n - 1] \o item[n - 1]
    IN  joined[choice]
TextOf(item) == TextBefore(NumChoices, item) \o item[NumChoices]

Extended(texts, item) == [c \in Choices |-> texts[c] \o item[c]]
PlacesOf(item) ==
    [c \in Choices |-> [k \in DOMAIN item[c] |-> Len(stream) + Len(TextBefore(c, item)) + k]]

\* yield item: only after its text was scanned.
Yield(item) ==
    /\ delivered' = Extended(delivered, item)
    /\ UNCHANGED hpc

\* The generator raises: what was yielded before stays delivered.
Raise(why) ==
    /\ hpc' = why
    /\ UNCHANGED delivered

Receive(item) ==
    /\ hpc = "open" /\ item \in Items
    /\ upstream' = Extended(upstream, item)
    /\ place' = Extended(place, PlacesOf(item))
    /\ UNCHANGED Policy

\* An item without text (a role, a tool call, a finish reason).
PassSilentItem(item) ==
    /\ Receive(item) /\ TextOf(item) = <<>>
    /\ Yield(item) /\ UNCHANGED scannerVars

StopOnError(found) == onDetection = "block" /\ found # {}
Stops(found) == onDetection # "log" /\ found # {}

YieldsBeforeActing(item) ==
    /\ delivered' = Extended(delivered, item)
    /\ hpc' = IF Stops(report') THEN "blocked" ELSE hpc
ActOnReport(item) ==
    IF Stops(report') THEN Raise("blocked") ELSE Yield(item)

ScanItem(item) == Receive(item) /\ Feed(TextOf(item)) /\ ActOnReport(item)

\* A detector failed; the hook looks at the findings alone.
ScanItemDegraded(item) ==
    Receive(item) /\ FeedDegraded(TextOf(item)) /\ ActOnReport(item)

ScanItemRaises(item) ==
    Receive(item) /\ FeedRaises(TextOf(item)) /\ Raise("raised")

\* The response is exhausted; the scanner is dropped, not flushed.
EndStream ==
    /\ hpc = "open" /\ hpc' = "ended"
    /\ UNCHANGED <<scannerVars, Policy, upstream, delivered, place>>

HookNext ==
    \/ \E item \in Items :
          \/ PassSilentItem(item) \/ ScanItem(item)
          \/ ScanItemDegraded(item) \/ ScanItemRaises(item)
    \/ EndStream

HookSpec == HookInit /\ [][HookNext]_hookVars

-----------------------------------------------------------------------------
\* Type invariant of one hook and the scanner it owns.
HookTypeOK ==
    /\ ScannerTypeOK
    /\ hpc \in {"open", "blocked", "raised", "ended"}
    /\ onDetection \in {"block", "redact", "log"} /\ failClosed \in BOOLEAN
    /\ upstream \in [Choices -> Seq(Chars)]
    /\ delivered \in [Choices -> Seq(Chars)]
    /\ place \in [Choices -> Seq(Nat \ {0})]

\* Characters i to j of a choice are next to each other in the scanned text: no
\* fragment of another choice came between them.
Uncut(c, i, j) == place[c][j] - place[c][i] = j - i

\* Under "block" and "redact" the consumer never holds a whole credential of at
\* most Overlap + 1 characters, however the provider cut the response into items
\* and whatever came before, as long as every scan was whole and healthy.  Its
\* beginning may have been yielded, never its end.  The fragments of several
\* choices are scanned as one text: a credential of one choice that another one
\* interrupts is not promised, every other is.
NoSecretDelivered ==
    \A c \in Choices, k \in Credentials :
        onDetection # "log" /\ ~defect /\ Len(k) <= Overlap + 1 =>
            \A i \in DOMAIN delivered[c] :
                OccursAt(k, delivered[c], i) => ~Uncut(c, i, i + Len(k) - 1)

Places(texts) == UNION {{place[c][i] : i \in DOMAIN texts[c]} : c \in Choices}

\* A stream is not cut off for nothing: if the hook blocked, a credential is in
\* the scanned text (it may straddle any number of items, and with several choices
\* it may be made of the end of one's fragment and the beginning of another's),
\* something was held back, and if no earlier scan was defective the last
\* character of a credential is in it.
BlockedForASecret ==
    hpc = "blocked" =>
        /\ onDetection # "log" /\ delivered # upstream
        /\ \E k \in Credentials, i \in DOMAIN stream :
              /\ OccursAt(k, stream, i)
              /\ defect \/ i + Len(k) - 1 \notin Places(delivered)

\* The consumer's text is the scanned text: while the hook is open or has ended
\* everything received was yielded, and everything yielded was fed, each character
\* of each choice once, in its place and in order, and nothing else; a raise
\* withholds exactly the item it was raised for.
DeliveredIsScanned ==
    LET scanned == IF hpc = "raised" THEN delivered ELSE upstream IN
    /\ hpc \in {"open", "ended"} => delivered = upstream
    /\ Places(scanned) = DOMAIN stream
    /\ \A c \in Choices : \A i \in DOMAIN scanned[c] :
          /\ stream[place[c][i]] = scanned[c][i]
          /\ i > 1 => place[c][i - 1] < place[c][i]

\* What the class documents of block_on_truncation and block_on_scan_error: "an
\* unscanned tail or a skipped detector means an empty result cannot be mistaken
\* for a clean one".  With both set, the hook does not go on after a scan that
\* was truncated or degraded.
HookFailsClosed == failClosed /\ defect => hpc \notin {"open", "ended"}
=============================================================================

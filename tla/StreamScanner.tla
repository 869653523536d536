--------------------------- MODULE StreamScanner ---------------------------
(***************************************************************************)
(* StreamScanner (src/litellm_trufflehog/stream.py): fragments of one      *)
(* stream are scanned in windows, each the retained tail of the text so    *)
(* far followed by the new fragment, and each credential is reported once. *)
(*                                                                         *)
(* A character is one byte of UTF-8, and a credential is the literal text  *)
(* the detectors need to see whole, keyword included.                      *)
(***************************************************************************)
EXTENDS Naturals, Sequences

CONSTANTS Chars,
          Credentials, \* the credentials the detectors recognise
          Chunks,      \* fragments the stream may be cut into
          Overlap,     \* overlap_chars
          MaxBytes,    \* Config.MaxBytes of the scanner
          MaxFed       \* bound: characters fed over the life of the object

ASSUME TextAssumption ==
    /\ Chunks \subseteq Seq(Chars)
    /\ Credentials \subseteq Seq(Chars) \ {<<>>}
\* __init__ rejects a negative overlap; withDefaults a non-positive MaxBytes.
ASSUME WindowAssumption ==
    Overlap \in Nat /\ MaxBytes \in Nat \ {0} /\ MaxFed \in Nat

VARIABLES tail,      \* _tail
          seen,      \* _seen
          charsSeen, \* _chars_seen
          report,    \* the findings feed last returned
          times,     \* history: how often feed has returned each credential
          stream,    \* history: the text scanned since the start or a flush
          defect     \* history: a report on that text was truncated or degraded

scannerVars == <<tail, seen, charsSeen, report, times, stream, defect>>

OccursAt(c, s, i) ==
    /\ i \in Nat \ {0} /\ i + Len(c) <= Len(s) + 1
    /\ \A k \in 1 .. Len(c) : s[i + k - 1] = c[k]
OccursIn(c, s) == \E i \in 1 .. Len(s) : OccursAt(c, s, i)

ScannerInit ==
    /\ tail = <<>> /\ seen = {} /\ charsSeen = 0 /\ report = {}
    /\ times = [c \in Credentials |-> 0]
    /\ stream = <<>> /\ defect = FALSE

-----------------------------------------------------------------------------
LastChars(s, n) == IF n >= Len(s) THEN s ELSE SubSeq(s, Len(s) - n + 1, Len(s))
FirstChars(s, n) == IF n >= Len(s) THEN s ELSE SubSeq(s, 1, n)

\* window[-overlap:], and "" for a zero overlap.
WholeWindow(window, chunk) == window
OverlapOffByOne(window, chunk) == LastChars(window, Overlap - 1)
NewTail(window, chunk) == LastChars(window, Overlap)

\* What the scanner reports on a window when no detector fails.
Detected(window) == {c \in Credentials : OccursIn(c, FirstChars(window, MaxBytes))}

Window(chunk) == tail \o chunk
Fed(chunk) == chunk # <<>> /\ charsSeen + Len(chunk) <= MaxFed

ForgetReported(found) == seen
Remember(found) == seen \cup found

\* feed, given what the scan of the window found and whether it was degraded.
FeedReported(chunk, found, degraded) ==
    /\ Fed(chunk)
    /\ charsSeen' = charsSeen + Len(chunk)
    /\ tail' = NewTail(Window(chunk), chunk)
    /\ report' = found \ seen
    /\ seen' = Remember(found)
    /\ times' = [c \in Credentials |-> times[c] + IF c \in report' THEN 1 ELSE 0]
    /\ stream' = stream \o chunk
    /\ defect' = (defect \/ degraded \/ Len(Window(chunk)) > MaxBytes)

Feed(chunk) == FeedReported(chunk, Detected(Window(chunk)), FALSE)

\* A detector failed: the report may lack any of the findings, and says so.
FeedDegraded(chunk) ==
    \E found \in SUBSET Detected(Window(chunk)) : FeedReported(chunk, found, TRUE)

\* scan raised: the characters are counted, the tail is not advanced.
FeedRaises(chunk) ==
    /\ Fed(chunk)
    /\ charsSeen' = charsSeen + Len(chunk)
    /\ UNCHANGED <<tail, seen, report, times, stream, defect>>

\* The end of a stream; what was reported stays remembered.
Flush ==
    /\ tail' = <<>> /\ report' = {}
    /\ stream' = <<>> /\ defect' = FALSE
    /\ UNCHANGED <<seen, charsSeen, times>>

\* The object's caller decides which fragments to feed, retries one whose scan
\* raised or goes on without it, and flushes when it likes.
ScannerNext ==
    \/ \E chunk \in Chunks : Feed(chunk) \/ FeedDegraded(chunk) \/ FeedRaises(chunk)
    \/ Flush

ScannerSpec == ScannerInit /\ [][ScannerNext]_scannerVars

-----------------------------------------------------------------------------
\* Type invariant of the object; what it retains of a stream is bounded.
ScannerTypeOK ==
    /\ tail \in Seq(Chars) /\ Len(tail) <= Overlap /\ stream \in Seq(Chars)
    /\ seen \subseteq Credentials /\ report \subseteq Credentials
    /\ times \in [Credentials -> Nat]
    /\ charsSeen \in Nat /\ defect \in BOOLEAN

\* However the stream is cut into fragments, whichever scans raise and are
\* retried, a credential of at most Overlap + 1 characters in the scanned text
\* has been reported, or some report on that text said it was truncated or
\* degraded: no cut hides a credential ("any credential shorter than this is
\* seen whole in some window").
EveryCredentialReported ==
    \A c \in Credentials :
        Len(c) <= Overlap + 1 /\ OccursIn(c, stream) => times[c] > 0 \/ defect

\* "Reporting each secret once": overlapping windows see a credential again
\* and again, but no two reports of the object name the same one, across
\* degraded scans, retries and flushes.
ReportedOnce == \A c \in Credentials : times[c] <= 1
=============================================================================

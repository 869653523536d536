--------------------------- MODULE StreamScanAll ---------------------------
(***************************************************************************)
(* The caller's side of StreamScanner (src/litellm_trufflehog/stream.py):  *)
(* besides feeding and flushing it may call scan_all, which feeds every    *)
(* chunk of an iterable and returns the union of what the feeds returned.  *)
(* One thread owns the object, so nothing else is fed while scan_all runs. *)
(***************************************************************************)
EXTENDS StreamScanner

VARIABLES running, \* inside scan_all
          union,   \* findings
          flagged, \* truncated, or errors is not empty
          fed,     \* history: the chunks of the last scan_all
          handed,  \* history: the credentials the caller was ever given
          dropped  \* history: the credentials a scan_all held when it raised

callVars == <<running, union, flagged, fed, handed, dropped>>
allVars == <<scannerVars, callVars>>

AllInit ==
    /\ ScannerInit
    /\ running = FALSE /\ union = {} /\ flagged = FALSE
    /\ fed = <<>> /\ handed = {} /\ dropped = {}

\* What the feed of this step returns, and whether its report is trustworthy.
Returned == {c \in Credentials : times'[c] > times[c]}
WindowCut(chunk) == Len(Window(chunk)) > MaxBytes

\* A call of feed or flush.
DirectCall ==
    /\ ~running /\ ScannerNext
    /\ handed' = handed \cup Returned
    /\ UNCHANGED <<running, union, flagged, fed, dropped>>

BeginScanAll ==
    /\ ~running /\ running' = TRUE
    /\ union' = {} /\ flagged' = FALSE /\ fed' = <<>>
    /\ UNCHANGED <<scannerVars, handed, dropped>>

OfThisFeed(flag) == flag
OfAnyFeed(flag) == flagged \/ flag

\* A turn of its loop.
Collect(chunk, flag) ==
    /\ union' = union \cup Returned
    /\ flagged' = OfAnyFeed(flag)
    /\ fed' = fed \o chunk
    /\ UNCHANGED <<running, handed, dropped>>
CollectChunk(chunk) == running /\ Feed(chunk) /\ Collect(chunk, WindowCut(chunk))
CollectDegraded(chunk) == running /\ FeedDegraded(chunk) /\ Collect(chunk, TRUE)

\* A scan raises, or the iterable does: the list is lost with the call, and the
\* object goes on remembering what was in it.
Abandon ==
    /\ running' = FALSE /\ dropped' = dropped \cup union
    /\ union' = {} /\ fed' = <<>>
    /\ UNCHANGED <<flagged, handed>>
ScanRaises(chunk) == running /\ FeedRaises(chunk) /\ Abandon
IterableRaises == running /\ UNCHANGED scannerVars /\ Abandon

ScanAllReturns ==
    /\ running /\ running' = FALSE
    /\ handed' = handed \cup union /\ union' = {}
    /\ UNCHANGED <<scannerVars, flagged, fed, dropped>>

AllNext ==
    \/ DirectCall \/ BeginScanAll \/ IterableRaises \/ ScanAllReturns
    \/ \E chunk \in Chunks : CollectChunk(chunk) \/ CollectDegraded(chunk) \/ ScanRaises(chunk)

AllSpec == AllInit /\ [][AllNext]_allVars

-----------------------------------------------------------------------------
\* "Feed every chunk and return the union of new findings": if the report of
\* scan_all is neither truncated nor degraded, the caller has been given every
\* credential of at most Overlap + 1 characters in its chunks, now or by an
\* earlier call, also those that straddle chunks.  The exception is a credential
\* that an earlier scan_all had found when it raised: the object remembers it as
\* reported, and no later call returns it.
UnionIsComplete ==
    ~flagged =>
        \A c \in Credentials :
            Len(c) <= Overlap + 1 /\ OccursIn(c, fed) => c \in handed \cup union \cup dropped
=============================================================================

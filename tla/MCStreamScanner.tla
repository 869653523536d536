-------------------------- MODULE MCStreamScanner --------------------------
(* StreamScanAll over two characters: fragments of up to three characters,  *)
(* seven in all, an overlap of two, and windows of up to four scanned whole. *)
EXTENDS StreamScanAll

CONSTANTS x, y

Words(m, n) == UNION {[1 .. k -> {x, y}] : k \in m .. n}

MCChars == {x, y}
MCChunks == Words(1, 3)

\* As long as the overlap, one longer, and one that repeats itself.
MCCredentials == {<<x, y>>, <<y, x, x>>, <<y, y, y>>}
=============================================================================

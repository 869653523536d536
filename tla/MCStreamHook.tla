---------------------------- MODULE MCStreamHook ----------------------------
(* StreamHook over two choices: items of up to two characters, an overlap of *)
(* two, windows of up to three characters scanned whole.                    *)
EXTENDS StreamHook

CONSTANTS x, y

Words(m, n) == UNION {[1 .. k -> {x, y}] : k \in m .. n}

MCChars == {x, y}
MCChunks == Words(1, 2)

\* Silent items, items of one choice, and items in which both speak.
MCItems == {i \in [1 .. NumChoices -> Words(0, 2)] : Len(TextOf(i)) <= 2}

\* Shorter than the overlap, as long, and one longer.
MCCredentials == {<<y, y>>, <<y, x, x>>}
=============================================================================

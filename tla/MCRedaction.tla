---------------------------- MODULE MCRedaction ----------------------------
(* Redaction of texts of up to six bytes, of which four are scanned, with   *)
(* up to two results of two detectors; the lengths are scaled to 1 and 3.   *)
EXTENDS Redaction

CONSTANTS x, y, d1, d2

MCBytes == {x, y, Colon, Lead, Cont}
MCDetectors == {d1, d2}
MCLabelOf == [d \in MCDetectors |-> d]

Words(S, m, n) == UNION {[1 .. k -> S] : k \in m .. n}

\* Every text of up to four bytes over two letters and the colon, the longer ones
\* over the letters, those of six bytes a word written twice, and a few with a
\* two-byte code point, which MaxBytes cuts in two where three letters precede it.
MCTexts ==
    Words({x, y, Colon}, 0, 4) \cup Words({x, y}, 5, 5)
    \cup {u \o u : u \in Words({x, y}, 3, 3)}
    \cup {u \o <<Lead, Cont>> \o w : u \in Words({x, y}, 0, 1), w \in Words({x, y}, 0, 1)}
    \cup {u \o <<Lead, Cont>> : u \in Words({x, y}, 3, 3)}

Hit(d, raw, parts) == [det |-> d, primary |-> <<>>, raw |-> raw, parts |-> parts]

\* One value, one that overlaps itself, two that cut a code point in two, a pair
\* with a short part, one with a long part, a composed value, and no value.
MCResults(d) ==
    { Hit(d, <<x, y>>, <<>>), Hit(d, <<x, x>>, <<>>),
      Hit(d, <<Cont, x>>, <<>>), Hit(d, <<x, Lead>>, <<>>),
      Hit(d, <<x>>, <<<<x>>, <<y>>>>), Hit(d, <<y, y>>, <<<<y, y>>, <<x, x, x>>>>),
      [Hit(d, <<>>, <<<<x, y>>, <<y>>>>) EXCEPT !.primary = <<y, x>>], Hit(d, <<>>, <<>>) }

MCResultLists ==
    LET All == MCResults(d1) \cup MCResults(d2) IN
    {<<>>} \cup {<<a>> : a \in MCResults(d1)} \cup {<<a, b>> : a \in MCResults(d1), b \in All}
=============================================================================

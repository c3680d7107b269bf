-------------------------- MODULE MCResponseCache ---------------------------
(* Small instances of ResponseCache for TLC.  A byte is a number: 10 * l   *)
(* + k is the k-th byte of line l, below 0 what the read-back adds.        *)
EXTENDS ResponseCache

Line(kind, l, size) == [kind |-> kind, bytes |-> [k \in 1 .. size |-> 10 * l + k]]

TextOf(kinds, sizes) == [l \in DOMAIN kinds |-> Line(kinds[l], l, sizes[l])]

(* Below the limit; keys, blank lines and a small section last; a line     *)
(* above every cap; JSON with an opening brace.                            *)
Short == TextOf(<<"key">>, <<4>>)
Blocks == TextOf(<<"key", "blank", "top", "deep", "key", "deep", "top">>,
                 <<2, 1, 2, 1, 1, 7, 1>>)
LongLine == TextOf(<<"top", "deep", "deep">>, <<2, 19, 3>>)
Members == TextOf(<<"brace", "member", "member", "member">>, <<1, 1, 7, 5>>)

SomePayloads == {Short, Blocks, LongLine, Members}

Ours(kind, size) == [kind |-> kind, bytes |-> [k \in 1 .. size |-> -k]]
OneLine == <<Ours("top", 1)>>
Blank == <<Ours("blank", 1)>>
FourOrFive(last) == <<Ours("top", IF last < 2 THEN 4 ELSE 5)>>

(* 0.50 s is written 0.5, 1.00 s is written without a fraction.            *)
Times == {49, 50, 51, 100}

Alike == Permutations(Servers)
=============================================================================

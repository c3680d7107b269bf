------------------------------- MODULE Chunks -------------------------------
(* How a rendered response is split into sections (chunk/chunk.go).        *)
(*                                                                         *)
(* A text is a sequence of lines.  A line has a kind, which is all the     *)
(* splitter looks at, and its bytes.  In a JSON object a "line" is a run   *)
(* of the payload: "member" runs open with a top-level key.                *)
EXTENDS Integers, Sequences, FiniteSets, SequencesExt

CONSTANTS
    Limit,        \* CODEMAP_RESPONSE_LIMIT, in bytes
    HeaderRoom,   \* readBackHeaderRoom
    MinChunk      \* the least desirable section

ASSUME LimitsAssumption ==
    /\ Limit \in Nat \ {0}
    /\ HeaderRoom \in Nat
    /\ MinChunk \in Nat \ {0}

(* "key": a TOON key in column 0; "top": any other unindented line;        *)
(* "deep": an indented one; "blank"; "member" and "brace": runs of JSON.   *)
Kinds == {"key", "top", "deep", "blank", "member", "brace"}

(* Every line holds a byte at least: the newline it ends with, or what is  *)
(* left of the text after the last one.                                    *)
Lines == {line \in [kind : Kinds, bytes : Seq(Int)] : line.bytes # << >>}
Texts == Seq(Lines)

Bytes(text) == FlattenSeq([i \in DOMAIN text |-> text[i].bytes])
Size(text) == Len(Bytes(text))

IsJSON(text) == \E i \in DOMAIN text : text[i].kind = "member"

(* A structural section begins at every JSON member but the first, which  *)
(* takes the opening brace along; otherwise at every key and every         *)
(* unindented line after a blank one.                                      *)
Begins(text, i) ==
    IF IsJSON(text)
    THEN /\ text[i].kind = "member"
         /\ \E first \in 1 .. i - 1 : text[first].kind = "member"
    ELSE \/ text[i].kind = "key"
         \/ i > 1 /\ text[i].kind = "top" /\ text[i - 1].kind = "blank"

(* The sections so far and the one being built, which closes if not empty. *)
Nothing == [out |-> << >>, cur |-> << >>]
Flushed(acc) == IF acc.cur = << >> THEN acc.out ELSE Append(acc.out, acc.cur)

Place(acc, text, i) ==
    IF Begins(text, i)
    THEN [out |-> Flushed(acc), cur |-> <<text[i]>>]
    ELSE [acc EXCEPT !.cur = Append(@, text[i])]

SplitStructural(text) ==
    Flushed(FoldLeft(LAMBDA acc, i : Place(acc, text, i), Nothing,
                     [i \in DOMAIN text |-> i]))

(* What is left of a line after its whole pieces is dropped.               *)
DropRest(line, cap) ==
    [k \in 1 .. (IF Len(line.bytes) < cap THEN 1 ELSE Len(line.bytes) \div cap) |->
        [kind  |-> "top",
         bytes |-> SubSeq(line.bytes, (k - 1) * cap + 1,
                          IF k * cap < Len(line.bytes) THEN k * cap
                                                       ELSE Len(line.bytes))]]

(* A line longer than the cap is cut; what follows a cut is not indented.  *)
CutLine(line, cap) ==
    [k \in 1 .. (Len(line.bytes) + cap - 1) \div cap |->
        [kind  |-> IF k = 1 THEN line.kind ELSE "top",
         bytes |-> SubSeq(line.bytes, (k - 1) * cap + 1,
                          IF k * cap < Len(line.bytes) THEN k * cap
                                                       ELSE Len(line.bytes))]]

(* Whole pieces of a long line are sections of their own; its last piece   *)
(* is packed with the lines around it.                                     *)
Pack(acc, line, cap) ==
    LET pieces == CutLine(line, cap)
        last == pieces[Len(pieces)]
        whole == [k \in 1 .. Len(pieces) - 1 |-> <<pieces[k]>>]
        open == IF whole = << >> THEN acc
                ELSE [out |-> Flushed(acc) \o whole, cur |-> << >>]
    IN  IF Size(open.cur) + Len(last.bytes) > cap
        THEN [out |-> Flushed(open), cur |-> <<last>>]
        ELSE [open EXCEPT !.cur = Append(@, last)]

SplitFixed(text, cap) ==
    Flushed(FoldLeft(LAMBDA acc, line : Pack(acc, line, cap), Nothing, text))

(* One pass folds a section below MinChunk into the one that follows it    *)
(* while both fit the cap; passes repeat until none folds anything.        *)
Merge(acc, section, cap) ==
    IF Size(acc.cur) < MinChunk /\ Size(acc.cur) + Size(section) <= cap
    THEN [acc EXCEPT !.cur = @ \o section]
    ELSE [out |-> Append(acc.out, acc.cur), cur |-> section]

MergePass(sections, cap) ==
    LET end == FoldLeft(LAMBDA acc, section : Merge(acc, section, cap),
                        [out |-> << >>, cur |-> Head(sections)], Tail(sections))
    IN  Append(end.out, end.cur)

MergeSmall(sections, cap) ==
    FoldLeft(LAMBDA merged, section : MergePass(merged, cap), sections, sections)

(* No room is left for the header of a section read back.                  *)
NoHeaderRoom == IF Limit < MinChunk THEN MinChunk ELSE Limit

SectionCap == IF Limit - HeaderRoom < MinChunk THEN MinChunk
                                               ELSE Limit - HeaderRoom

ExceedsMax(sections) == \E k \in DOMAIN sections : Size(sections[k]) > SectionCap

RenderedSections(text) ==
    LET structural == SplitStructural(text) IN
    MergeSmall(IF ExceedsMax(structural) THEN SplitFixed(text, SectionCap)
                                         ELSE structural,
               SectionCap)
=============================================================================

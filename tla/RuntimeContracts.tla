-------------------------- MODULE RuntimeContracts --------------------------
(* The runtime contracts of a repository: the keys, subjects and message   *)
(* types its source names where it produces or consumes them               *)
(* (contract/runtime.go).                                                  *)
(*                                                                         *)
(* A file is a sequence of lines and a line a sequence of tokens.  A token *)
(* has a kind t, which is the bracket or the mark itself, "lit" for a      *)
(* string literal or "id" for a word, and a value v.  The mark "//" begins *)
(* a comment, which ends with its line; a dot that ends its line is the    *)
(* mark "._".  A literal is not empty and holds no quote and no bracket.   *)
EXTENDS Integers, Sequences, FiniteSets, SequencesExt

CONSTANTS
    Builtin,          \* DefaultRuntimeExtractors
    Custom,           \* the extractors of the configuration
    Normalize(_, _),  \* what a literal becomes under an extractor's rules
    HasShape(_, _),   \* a regex for literals matches a literal
    HasPrefix(_, _),  \* a word begins with another
    Mentions(_, _)    \* an import path contains another string

-----------------------------------------------------------------------------
(* The registry of extractors.  A regex of config is one of the built-in's *)
(* form, [word, fields]: the word of a composite literal, and fields whose *)
(* literal is its group.  A regex of shapes is for whole literals.         *)

(* unionStrings: what is added stands behind what was there.               *)
Joined(base, added) ==
    base \o SelectSeq(added, LAMBDA x : x \notin ToSet(base))

Merged(base, c) ==
    [base EXCEPT
        !.imports   = @ \cup c.imports,
        !.producers = @ \cup c.producers,
        !.consumers = @ \cup c.consumers,
        !.config    = Joined(@, c.config),
        !.shapes    = Joined(@, c.shapes),
        !.prefix    = IF c.prefix = "" THEN @ ELSE c.prefix,
        !.decode    = @ \/ c.decode,
        !.argIndex  = IF c.argIndex = 0 THEN @ ELSE c.argIndex]

(* A configured extractor is merged into the one of its kind, or added.    *)
Extractors ==
    LET Add(all, c) ==
            IF \E i \in DOMAIN all : all[i].kind = c.kind
            THEN [i \in DOMAIN all |-> IF all[i].kind = c.kind THEN Merged(all[i], c)
                                                               ELSE all[i]]
            ELSE Append(all, c)
    IN  FoldLeft(Add, Builtin, Custom)

(* A method listed on both sides is a producer's.                          *)
RoleOf(e, method) == IF method \in e.producers THEN "producer" ELSE "consumer"

AllowedByImports(e, imports) ==
    e.imports = {} \/ \E i \in imports, s \in e.imports : Mentions(i, s)

-----------------------------------------------------------------------------
(* Reading tokens.                                                         *)

IsWord(token, word) == token.t = "id" /\ token.v = word

(* A line as the scanners read it: of a comment they see only that it is   *)
(* there.                                                                  *)
Code(line) ==
    LET marks == {j \in DOMAIN line : line[j].t = "//"} IN
    IF marks = {} THEN line
    ELSE SubSeq(line, 1, CHOOSE j \in marks : \A k \in marks : j <= k)

CodeLines(file) == [n \in DOMAIN file.lines |-> Code(file.lines[n])]

Opening == {"(", "[", "{"}
Closing == {")", "]", "}"}

Tokens(lines) == FlattenSeq(lines)

LineOf(lines, i) ==
    CHOOSE n \in DOMAIN lines :
        /\ Len(FlattenSeq(SubSeq(lines, 1, n - 1))) < i
        /\ i <= Len(FlattenSeq(SubSeq(lines, 1, n)))

(* How deep in brackets token j is, counted from token i on.               *)
Depth(toks, i, j) ==
    Cardinality({k \in i .. j - 1 : toks[k].t \in Opening})
        - Cardinality({k \in i .. j - 1 : toks[k].t \in Closing})

(* The bracket that closes the one at i, or the end of the text.           *)
Close(toks, i) ==
    LET ends == {j \in i + 1 .. Len(toks) :
                    toks[j].t \in Closing /\ Depth(toks, i, j) = 1}
    IN  IF ends = {} THEN Len(toks) ELSE CHOOSE j \in ends : \A k \in ends : j <= k

(* Where the arguments open of the call whose dot is token i, past the     *)
(* brackets of its type arguments; 0 if no known method is called there.   *)
ArgsOpen(e, toks, i) ==
    LET after == IF i + 2 <= Len(toks) /\ toks[i + 2].t = "["
                 THEN Close(toks, i + 2) + 1 ELSE i + 2
    IN  IF /\ toks[i].t = "."
           /\ after < Len(toks)
           /\ toks[i + 1].t = "id"
           /\ toks[i + 1].v \in e.producers \cup e.consumers
           /\ toks[after].t = "("
        THEN after ELSE 0

(* The literals among the arguments from position argIndex on; those       *)
(* inside another bracket belong to something else.                        *)
ArgLiterals(toks, open, from) ==
    {j \in open + 1 .. Close(toks, open) - 1 :
        /\ toks[j].t = "lit"
        /\ Depth(toks, open, j) = 1
        /\ Cardinality({k \in open + 1 .. j - 1 :
                           toks[k].t = "," /\ Depth(toks, open, k) = 1}) >= from}

(* The scan goes on behind the arguments of a call it has read.            *)
CallSites(e, toks) ==
    LET Step(acc, i) ==
            LET open == ArgsOpen(e, toks, i) IN
            IF i < acc.next \/ open = 0 THEN acc
            ELSE [next |-> Close(toks, open) + 1, sites |-> acc.sites \cup {i}]
    IN  FoldLeft(Step, [next |-> 1, sites |-> {}], [i \in 1 .. Len(toks) |-> i]).sites

-----------------------------------------------------------------------------
(* What a file yields.  A file has lines, imports, the package it is in    *)
(* and the declarations of its symbols, each at a line.                    *)

(* The nearest declaration at or above a line, or none.                    *)
EnclosingSymbol(file, line) ==
    LET above == {d \in file.decls : d.line <= line} IN
    IF above = {} THEN file.path
    ELSE (CHOOSE d \in above : \A x \in above : x.line <= d.line).ref

Contract(e, role, literal, file, line) ==
    [kind |-> e.kind, pattern |-> Normalize(e, literal), role |-> role,
     from |-> EnclosingSymbol(file, line), path |-> file.path, line |-> line]

CallContracts(e, file) ==
    LET lines == CodeLines(file)
        toks == Tokens(lines)
    IN
    UNION {{Contract(e, RoleOf(e, toks[i + 1].v), toks[j].v, file, LineOf(lines, i)) :
                j \in ArgLiterals(toks, ArgsOpen(e, toks, i), e.argIndex)} :
           i \in CallSites(e, toks)}

(* Where the regex p matches on a line, <<start, literal>>: the first      *)
(* literal behind a field of the composite literal, wherever it stands.    *)
Matches(p, line) ==
    {m \in (DOMAIN line) \X (DOMAIN line) :
        /\ line[m[2]].t = "lit"
        /\ IsWord(line[m[1]], p.word)
        /\ \E k \in m[1] + 2 .. m[2] - 1 :
              /\ line[m[1] + 1].t = "{"
              /\ line[k].t = "id" /\ line[k].v \in p.fields
              /\ line[k + 1].t = ":"
              /\ \A x \in m[1] .. k : line[x].t # "}"
              /\ \A x \in k .. m[2] - 1 : line[x].t # "lit"}

(* The literal of the leftmost match of the first regex.                   *)
FirstMatch(p, line) ==
    LET all == Matches(p, line) IN
    CHOOSE m \in all : \A x \in all : m[1] < x[1] \/ (m[1] = x[1] /\ m[2] <= x[2])

(* The regexes are joined with | and only group 1, the first one's, is     *)
(* read: where the leftmost match is another's, the literal is "".  The    *)
(* lines are read with their comments.                                     *)
ConfigLiteral(e, line) ==
    LET others == UNION {Matches(e.config[n], line) : n \in 2 .. Len(e.config)}
        first == Matches(e.config[1], line)
    IN  IF first = {} \/ \E x \in others : x[1] < FirstMatch(e.config[1], line)[1]
        THEN "" ELSE line[FirstMatch(e.config[1], line)[2]].v

ConfigContracts(e, file) ==
    {Contract(e, "producer", ConfigLiteral(e, file.lines[n]), file, n) :
        n \in {m \in DOMAIN file.lines :
                 \E p \in ToSet(e.config) : Matches(p, file.lines[m]) # {}}}

(* What an earlier pass took is told by symbol, pattern and line.          *)
Recorded(found, c) ==
    \E x \in found : x.from = c.from /\ x.pattern = c.pattern /\ x.line = c.line

(* Nothing is compared with what an earlier pass took.                     *)
NothingRecorded(found, c) == FALSE

(* Literals of a telling shape, each pattern once, at its first line, in   *)
(* comments too.  These regexes are joined like those of config, so only   *)
(* the first one's literals are read.                                      *)
PatternContracts(e, file, found) ==
    LET Shaped(n) == {file.lines[n][j].v : j \in
                        {i \in DOMAIN file.lines[n] :
                            /\ file.lines[n][i].t = "lit"
                            /\ e.shapes # << >>
                            /\ HasShape(Head(e.shapes), file.lines[n][i].v)}}
        Seen(n) == {Normalize(e, l) : l \in UNION {Shaped(m) : m \in 1 .. n - 1}}
        New(n) == {l \in Shaped(n) : Normalize(e, l) \notin Seen(n)}
        all == UNION {{Contract(e, "shared", l, file, n) : l \in New(n)} :
                      n \in DOMAIN file.lines}
    IN  {c \in all : ~Recorded(found, c)}

-----------------------------------------------------------------------------
(* Switches over a message type.                                           *)

(* The operands of the clause whose case is token i, up to its colon.      *)
CaseOperands(toks, i) ==
    LET ends == {j \in i + 1 .. Len(toks) :
                    Depth(toks, i, j) = 0 /\ toks[j].t \in Closing \cup {":"}}
        colon == CHOOSE j \in ends : \A k \in ends : j <= k
        cuts == {i, colon} \cup {j \in i + 1 .. colon - 1 :
                                    toks[j].t = "," /\ Depth(toks, i, j) = 0}
        NextCut(c) == CHOOSE d \in cuts : d > c /\ \A x \in cuts : x > c => d <= x
    IN  IF ends = {} THEN {}
        ELSE {SubSeq(toks, c + 1, NextCut(c) - 1) : c \in cuts \ {colon}}

(* The values an operand stands for: its own, or those of the constants of *)
(* that name, in the file's package or in any package the qualifier could  *)
(* be; an expression stands for none, nor does an operand that stands      *)
(* behind a comment, which is read as a part of it.                        *)
OperandValues(consts, file, operand) ==
    LET kinds == [i \in DOMAIN operand |-> operand[i].t] IN
    CASE kinds = <<"lit">> -> {operand[1].v}
      [] kinds = <<"id">> ->
            {c.value : c \in {x \in consts : x.pkg = file.pkg /\ x.name = operand[1].v}}
      [] kinds = <<"id", ".", "id">> ->
            {c.value : c \in {x \in consts : x.base = operand[1].v /\ x.name = operand[3].v}}
      [] OTHER -> {}

(* What a line's switch switches on, << >> if it is no such line.          *)
SwitchSubject(line) ==
    LET opens == {j \in DOMAIN line : line[j].t = "{"}
        open == CHOOSE j \in opens : \A k \in opens : j <= k
    IN  IF line # << >> /\ IsWord(line[1], "switch") /\ opens # {}
        THEN SubSeq(line, 2, open - 1) ELSE << >>

BraceDelta(line) ==
    Cardinality({j \in DOMAIN line : line[j].t = "{"})
        - Cardinality({j \in DOMAIN line : line[j].t = "}"})

(* The nearest switch above a line, wherever it ends.                      *)
NearestSwitch(lines, n) ==
    LET above == {m \in 1 .. n - 1 : SwitchSubject(lines[m]) # << >>} IN
    IF above = {} THEN << >>
    ELSE SwitchSubject(lines[CHOOSE m \in above : \A k \in above : k <= m])

(* Going up from line n, the first line that opens more than was closed    *)
(* since and is a switch; a line that opens another block only resets the  *)
(* count.                                                                  *)
OwningSwitchSubject(lines, n) ==
    LET Up(acc, line) ==
            LET depth == acc.depth - BraceDelta(line) IN
            IF acc.subject # << >> THEN acc
            ELSE IF depth >= 0 THEN [acc EXCEPT !.depth = depth]
            ELSE [depth |-> 0, subject |-> SwitchSubject(line)]
    IN  FoldLeft(Up, [depth |-> 0, subject |-> << >>],
                 Reverse(SubSeq(lines, 1, n - 1))).subject

msgTypeSubjects == {"For", "MsgType", "Msgtype"}

IsMsgTypeSubject(subject) ==
    LET dots == {j \in DOMAIN subject : subject[j].t = "."}
        last == CHOOSE j \in dots : \A k \in dots : k <= j
    IN  IF dots = {} THEN \E j \in DOMAIN subject : Mentions(subject[j].v, "msgtype")
        ELSE last = Len(subject) - 1 /\ subject[Len(subject)].v \in msgTypeSubjects

ConstPrefixPresent(e, consts, file) ==
    \/ e.prefix = ""
    \/ \E c \in consts : c.path = file.path /\ HasPrefix(c.name, e.prefix)
    \/ \E token \in ToSet(Tokens(CodeLines(file))) :
          token.t = "id" /\ HasPrefix(token.v, e.prefix)

DecodeContracts(e, consts, file) ==
    LET lines == CodeLines(file)
        toks == Tokens(lines)
        cases == {i \in DOMAIN toks :
                    /\ IsWord(toks[i], "case")
                    /\ IsMsgTypeSubject(OwningSwitchSubject(lines, LineOf(lines, i)))}
    IN  {Contract(e, "consumer", x[2], file, LineOf(lines, x[1])) :
            x \in UNION {{<<i, v>> : v \in UNION {OperandValues(consts, file, operand) :
                                                operand \in CaseOperands(toks, i)}} :
                         i \in cases}}

-----------------------------------------------------------------------------
(* Constants whose name has the extractor's prefix.                        *)
ConstContracts(e, consts) ==
    {[kind |-> e.kind, pattern |-> Normalize(e, c.value), role |-> "shared",
      from |-> c.ref, path |-> c.path, line |-> c.line] :
        c \in {x \in consts : e.prefix # "" /\ HasPrefix(x.name, e.prefix)}}

(* The passes over a file, in their order.                                 *)
FileContracts(e, consts, file) ==
    LET found == CallContracts(e, file) \cup ConfigContracts(e, file)
        decoded == IF e.decode /\ ConstPrefixPresent(e, consts, file)
                   THEN DecodeContracts(e, consts, file) ELSE {}
    IN  IF AllowedByImports(e, file.imports)
        THEN found \cup PatternContracts(e, file, found) \cup decoded
        ELSE {}

ExtractRuntimeContracts(source) ==
    UNION {ConstContracts(Extractors[i], source.consts)
              \cup UNION {FileContracts(Extractors[i], source.consts, file) :
                              file \in source.files} :
           i \in DOMAIN Extractors}
=============================================================================

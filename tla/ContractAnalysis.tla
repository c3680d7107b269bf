-------------------------- MODULE ContractAnalysis --------------------------
(* One run of the contract analysis over an index: the links and the drift *)
(* of ContractRules and the runtime contracts of RuntimeContracts, written *)
(* together (contract/runner.go RunAnalysis, store.go WriteContractsAll).  *)
EXTENDS ContractRules, SequencesExt

CONSTANTS
    Sources,          \* what the indexed files of a repository may be
    Builtin, Custom, Normalize(_, _), HasShape(_, _), HasPrefix(_, _), Mentions(_, _)

VARIABLES
    source,     \* the indexed files and the string constants of a repository
    runtime     \* table runtime_contracts

Scan == INSTANCE RuntimeContracts

RunAnalysis ==
    /\ Analyze
    /\ runtime' = Scan!ExtractRuntimeContracts(source)
    /\ UNCHANGED source

Dismiss ==
    /\ \E row \in contracts \cup drifts :
          Suppress(row.from, row.to) \/ Suppress(row.to, row.from)
    /\ UNCHANGED <<source, runtime>>

AnalysisInit ==
    /\ RulesInit
    /\ source \in Sources
    /\ runtime = {}

AnalysisNext == RunAnalysis \/ Dismiss

AnalysisSpec == AnalysisInit /\ [][AnalysisNext]_<<ruleVars, source, runtime>>

QueryRuntimeContracts(kind) == {c \in runtime : kind = "" \/ c.kind = kind}

-----------------------------------------------------------------------------
(* Token i stands directly in the bracket opened at b.                     *)
DirectlyIn(toks, b, i) ==
    /\ toks[b].t \in Scan!Opening /\ Scan!Close(toks, b) >= i
    /\ \A d \in b + 1 .. i - 1 :
          toks[d].t \in Scan!Opening => Scan!Close(toks, d) < i

FileOf(c) == CHOOSE file \in source.files : file.path = c.path

ExtractorOf(c) ==
    Scan!Extractors[CHOOSE i \in DOMAIN Scan!Extractors :
                        Scan!Extractors[i].kind = c.kind]

(* A key said to be written or read at a line is a literal that is itself  *)
(* an argument of a call on that line; nothing in a comment, inside        *)
(* another call or inside a composite value is taken for it                *)
(* (scanCallArgs).                                                         *)
IsArgument(c) ==
    LET lines == Scan!CodeLines(FileOf(c))
        toks == Scan!Tokens(lines)
        e == ExtractorOf(c)
    IN  \E i, j \in DOMAIN toks :
          LET b == Scan!ArgsOpen(e, toks, i) IN
          /\ b # 0 /\ b < j /\ DirectlyIn(toks, b, j)
          /\ Scan!LineOf(lines, i) = c.line
          /\ Scan!RoleOf(e, toks[i + 1].v) = c.role
          /\ toks[j].t = "lit" /\ Normalize(e, toks[j].v) = c.pattern

(* A message type said to be decoded is named by a clause on its line, and *)
(* where the brace around that clause is opened by a line that begins with *)
(* a switch and its subject, the subject is a message type                 *)
(* (owningSwitchSubject).  Of a select, of a switch without a subject and  *)
(* of one whose head is wrapped nothing is claimed.                        *)
IsCaseOfSwitch(c) ==
    LET lines == Scan!CodeLines(FileOf(c))
        toks == Scan!Tokens(lines)
        Subject(b) == Scan!SwitchSubject(lines[Scan!LineOf(lines, b)])
    IN  \E i \in DOMAIN toks :
          /\ Scan!IsWord(toks[i], "case") /\ Scan!LineOf(lines, i) = c.line
          /\ \E operand \in Scan!CaseOperands(toks, i) :
                \E value \in Scan!OperandValues(source.consts, FileOf(c), operand) :
                    Normalize(ExtractorOf(c), value) = c.pattern
          /\ \A b \in 1 .. i - 1 :
                /\ toks[b].t = "{" /\ DirectlyIn(toks, b, i) /\ Subject(b) # << >>
                => Scan!IsMsgTypeSubject(Subject(b))

(* What is told as written, read or decoded is one of the call or the      *)
(* switch it was looked for in: for the extractors that read calls or      *)
(* switches only.  A regex of config reads the first literal behind its    *)
(* field, be it nested, outside the value or in a comment.                 *)
LiteralsOfTheirOwn ==
    \A c \in runtime :
        c.role # "shared" /\ ExtractorOf(c).config = << >> =>
            IF ExtractorOf(c).decode THEN IsCaseOfSwitch(c) ELSE IsArgument(c)

(* Against runtime.go:46 ("capture group 1 is the literal"): where one     *)
(* regex of config matches a line and no other does, its literal is told.  *)
PatternsRead ==
    runtime # {} =>
    \A file \in source.files, n \in DOMAIN Scan!Extractors :
        LET e == Scan!Extractors[n] IN
        Scan!AllowedByImports(e, file.imports) =>
        \A m \in DOMAIN file.lines, p \in ToSet(e.config) :
            LET line == file.lines[m] IN
            /\ Scan!Matches(p, line) # {}
            /\ \A q \in ToSet(e.config) \ {p} : Scan!Matches(q, line) = {}
            => \E c \in runtime :
                  /\ c.kind = e.kind /\ c.line = m /\ c.role = "producer"
                  /\ c.pattern = Normalize(e, line[Scan!FirstMatch(p, line)[2]].v)

(* Against runtime.go:576 ("reads the operand list of the `case` clause"): *)
(* a literal that stands in the operand list of a clause of a switch over  *)
(* a message type is told.                                                 *)
OperandsRead ==
    runtime # {} =>
    \A file \in source.files, n \in DOMAIN Scan!Extractors :
        LET e == Scan!Extractors[n]
            lines == Scan!CodeLines(file)
            toks == Scan!Tokens(lines)
        IN  e.decode =>
            \A i, j \in DOMAIN toks :
                /\ Scan!IsWord(toks[i], "case") /\ i < j /\ toks[j].t = "lit"
                /\ \A k \in i + 1 .. j - 1 : toks[k].t \in {"lit", "id", ",", ".", "//"}
                /\ Scan!IsMsgTypeSubject(
                        Scan!OwningSwitchSubject(lines, Scan!LineOf(lines, i)))
                => \E c \in runtime : /\ c.kind = e.kind /\ c.role = "consumer"
                                      /\ c.pattern = Normalize(e, toks[j].v)

(* Against the comment of findCallSites ("every .<method>( call"): a call  *)
(* among the arguments of another one is found.                            *)
NestedCallsFound ==
    runtime # {} =>
    \A file \in source.files, n \in DOMAIN Scan!Extractors :
        LET toks == Scan!Tokens(Scan!CodeLines(file))
            e == Scan!Extractors[n]
        IN  Scan!AllowedByImports(e, file.imports) =>
            \A i \in DOMAIN toks :
              LET open == Scan!ArgsOpen(e, toks, i) IN
              open # 0 => \A j \in Scan!ArgLiterals(toks, open, e.argIndex) :
                \E c \in runtime : /\ c.pattern = Normalize(e, toks[j].v)
                                   /\ c.role = Scan!RoleOf(e, toks[i + 1].v)

(* Against the comment in extractCallSiteContracts ("must not be reported  *)
(* again as shared"): a literal taken from a call is not told once more.   *)
ToldOnce ==
    \A file \in source.files, n \in DOMAIN Scan!Extractors :
        LET lines == Scan!CodeLines(file)
            toks == Scan!Tokens(lines)
            e == Scan!Extractors[n]
        IN  \A i \in Scan!CallSites(e, toks) :
            \A j \in Scan!ArgLiterals(toks, Scan!ArgsOpen(e, toks, i), e.argIndex) :
                ~\E c \in runtime :
                    /\ c.kind = e.kind /\ c.role = "shared"
                    /\ c.pattern = Normalize(e, toks[j].v)
                    /\ c.line = Scan!LineOf(lines, j)
=============================================================================

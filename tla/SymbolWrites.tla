---------------------------- MODULE SymbolWrites ----------------------------
(* The tools that change source files (query/write.go, query/rename.go,    *)
(* mcp/write_handlers.go): a call reads the index and the files, decides,  *)
(* builds the new text in memory, renames it over the file and reindexes.  *)
(* An editor works on the same files meanwhile.                            *)
(*                                                                         *)
(* A file is a sequence of top-level declarations; its place in it stands  *)
(* for the line the index records, a place in uses for the column.         *)
EXTENDS Integers, Sequences, FiniteSets, SequencesExt

CONSTANTS
    Files, Package(_), TestFiles,
    Names,        \* identifiers
    Exported,     \* those that start with a capital
    Source,       \* the tree at first
    MaxEdits,     \* bound: edits
    MaxCalls      \* bound: calls of a write tool

VARIABLES
    tree,     \* the files on disk
    index,    \* the files as they were last indexed
    call,     \* what the server is doing
    edits,    \* history: how many edits there have been
    calls,    \* history: how many calls there have been
    unseen,   \* history: an edit fell between the index a call read and its end
    torn,     \* history: a rename stopped between two of its files
    excused,  \* history: edits that came after the running call's last look
              \* at their file, or were made in what a call has replaced
    dropped,  \* history: symbols removed with a declaration they shared
    hidden    \* history: names a rename has hidden from where they are used

history == <<edits, calls, unseen, torn, excused, dropped, hidden>>
vars == <<tree, index, call, history>>

(* A symbol is a package and a name.  A declaration declares one symbol or *)
(* several, in parentheses or as the names of one line, and uses others;   *)
(* an edit leaves its number in it.                                        *)
Symbol == {Package(f) : f \in Files} \X Names
Declaration(s, edit) ==
    [symbols |-> {s}, paren |-> FALSE, uses |-> << >>, edit |-> edit]

Declarations == [symbols : SUBSET Symbol, paren : BOOLEAN, uses : Seq(Symbol),
                 edit : SUBSET Nat]

(* A place is a file and a line.                                           *)
Places(files) == UNION {{<<f, k>> : k \in DOMAIN files[f]} : f \in Files}
Declares(files, place, s) == s \in files[place[1]][place[2]].symbols
Declared(files) == UNION {files[place[1]][place[2]].symbols : place \in Places(files)}
Uses(files, place) == files[place[1]][place[2]].uses

(* One edge position per line.                                             *)
FirstOfLine(files, s) ==
    UNION {{<<place[1], place[2], c>> :
               c \in {c \in DOMAIN Uses(files, place) :
                         /\ Uses(files, place)[c] = s
                         /\ \A d \in 1 .. c - 1 : Uses(files, place)[d] # s}} :
           place \in Places(files)}

(* Edges to a symbol, one per place that uses it: file, line and column.   *)
Sites(files, s) ==
    UNION {{<<place[1], place[2], c>> :
               c \in {c \in DOMAIN Uses(files, place) : Uses(files, place)[c] = s}} :
           place \in Places(files)}

DeclarationSite(files, s) ==
    LET place == CHOOSE place \in Places(files) : Declares(files, place, s)
    IN  <<place[1], place[2], 0>>

DeclaredOnce(files) ==
    \A f, g \in Files : \A k \in DOMAIN files[f], j \in DOMAIN files[g] :
        files[f][k].symbols \cap files[g][j].symbols # {} => f = g /\ k = j

UsesDeclared(files, gone) ==
    \A f \in Files \ TestFiles : \A k \in DOMAIN files[f] :
        Range(files[f][k].uses) \subseteq Declared(files) \cup gone

(* Another package sees what starts with a capital.                        *)
Visible(f, s) == s[1] = Package(f) \/ s[2] \in Exported

Usable(files, f) == {s \in Declared(files) : Visible(f, s)}

VisibleIn(f, text, shown) ==
    \A k \in DOMAIN text : \A s \in Range(text[k].uses) : Visible(f, s) \/ s \in shown

UsesVisible(files, shown) == \A f \in Files \ TestFiles : VisibleIn(f, files[f], shown)

(* What is indexed at first has been parsed and type checked.              *)
ASSUME SourceAssumption ==
    /\ Source \in [Files -> Seq(Declarations)]
    /\ DeclaredOnce(Source)
    /\ UsesDeclared(Source, {})
    /\ UsesVisible(Source, {})

Idle == [at |-> "idle"]

Init ==
    /\ tree = Source
    /\ index = Source
    /\ call = Idle
    /\ edits = 0
    /\ calls = 0
    /\ unseen = FALSE
    /\ torn = FALSE
    /\ excused = {}
    /\ dropped = {}
    /\ hidden = {}

-----------------------------------------------------------------------------
(* The editor leaves code that compiles: it uses a symbol that is declared *)
(* and visible, or declares one nobody declares, in a place of its own.    *)
MayLose(f) == \/ call.at \in {"write", "checked"} /\ f \in DOMAIN call.data

UseAdded(text, k, s, edit) ==
    [text EXCEPT ![k].uses = Append(@, s), ![k].edit = @ \cup {edit}]

DeclarationAdded(text, s, edit) == <<Declaration(s, {edit})>> \o text

Edit ==
    /\ edits < MaxEdits
    /\ edits' = edits + 1
    /\ \E f \in Files :
          /\ \/ \E k \in DOMAIN tree[f], s \in Usable(tree, f) :
                   tree' = [tree EXCEPT ![f] = UseAdded(@, k, s, edits')]
             \/ \E name \in Names :
                   /\ <<Package(f), name>> \notin Declared(tree)
                   /\ tree' = [tree EXCEPT ![f] =
                                  DeclarationAdded(@, <<Package(f), name>>, edits')]
          /\ excused' = IF MayLose(f) THEN excused \cup {edits'} ELSE excused
    /\ unseen' = (unseen \/ call # Idle)
    /\ UNCHANGED <<index, call, calls, torn, dropped, hidden>>

-----------------------------------------------------------------------------
(* symbolSpan: the declaration at the recorded line, or else the one of    *)
(* that name wherever it is now; 0 when there is none.                     *)
Span(data, f, k, s) ==
    IF k \in DOMAIN data /\ s \in data[k].symbols THEN k
    ELSE IF \E j \in DOMAIN data : s \in data[j].symbols
         THEN CHOOSE j \in DOMAIN data : s \in data[j].symbols
         ELSE 0

Grouped(data, k) == data[k].paren

(* Self-references count: an edge is an edge.                              *)
TestOnly(s) == \A site \in Sites(index, s) : site[1] \in TestFiles

(* A symbol is deleted whatever refers to it.                              *)
ReferencesIgnored(s, data, k, allowExported, allowTestOnly) ==
    Grouped(data, k) \/ (s[2] \in Exported /\ ~ allowExported)

DeleteRefused(s, data, k, allowExported, allowTestOnly) ==
    \/ Grouped(data, k)
    \/ s[2] \in Exported /\ ~ allowExported
    \/ Sites(index, s) # {} /\ ~ (TestOnly(s) /\ allowTestOnly)

(* The names go and an empty declaration stays.                            *)
NamesDeleted(data, k) == [data EXCEPT ![k].symbols = {}]

(* The file the call has read, with the change made in it.                 *)
Deleted(data, k) == RemoveAt(data, k)
Replaced(data, k, uses) == [data EXCEPT ![k].uses = uses, ![k].edit = {}]
Inserted(data, k, after, s) ==
    InsertAt(data, IF after THEN k + 1 ELSE k, Declaration(s, {}))

(* A call that will write new over the files it has read as data; part of  *)
(* them are written.                                                       *)
Writing(at, data, new, tool, part) ==
    [at |-> at, data |-> data, new |-> new, tool |-> tool, part |-> part]

Writes(f, data, changed, tool) ==
    call' = Writing("write", [g \in {f} |-> data], [g \in {f} |-> changed], tool, FALSE)

(* What a replacement uses, or an insertion declares, compiles today.      *)
Change(s) ==
    LET site == DeclarationSite(index, s)
        f == site[1]
        data == tree[f]
        k == Span(data, f, site[2], s)
    IN  /\ k # 0
        /\ \/ \E allowExported, allowTestOnly \in BOOLEAN :
                 /\ ~ DeleteRefused(s, data, k, allowExported, allowTestOnly)
                 /\ Writes(f, data, Deleted(data, k), <<"delete", s>>)
           \/ \E used \in Usable(tree, f) :
                 /\ ~ Grouped(data, k)
                 /\ Writes(f, data, Replaced(data, k, <<used>>), <<"replace", s>>)
           \/ \E after \in BOOLEAN, name \in Names :
                 /\ <<s[1], name>> \notin Declared(tree)
                 /\ Writes(f, data, Inserted(data, k, after, <<s[1], name>>),
                           <<"insert", s>>)

-----------------------------------------------------------------------------
(* RenameSymbol.                                                           *)
Collides(s, name) == <<s[1], name>> \in Declared(index)

RenameSites(s) == Sites(index, s) \cup {DeclarationSite(index, s)}

(* References to an unexported symbol from another package; whether the    *)
(* new name is exported is not asked.                                      *)
UsedElsewhere(s) == \E site \in Sites(index, s) : Package(site[1]) # s[1]

Invisible(s) == s[2] \notin Exported /\ UsedElsewhere(s)

(* The name is still where the index has it.                               *)
AtSite(data, site, s) ==
    /\ site[2] \in DOMAIN data
    /\ IF site[3] = 0 THEN s \in data[site[2]].symbols
       ELSE /\ site[3] \in DOMAIN data[site[2]].uses
            /\ data[site[2]].uses[site[3]][2] = s[2]

Renamed(data, f, sites, s, name) ==
    [k \in DOMAIN data |->
        [data[k] EXCEPT
            !.symbols = IF <<f, k, 0>> \in sites
                        THEN (@ \ {s}) \cup {<<s[1], name>>} ELSE @,
            !.uses = [c \in DOMAIN @ |-> IF <<f, k, c>> \in sites
                                         THEN <<@[c][1], name>> ELSE @[c]]]]

Plan(s, name) ==
    LET sites == RenameSites(s)
        files == {site[1] : site \in sites}
    IN  /\ name # s[2]
        /\ ~ Collides(s, name)
        /\ ~ Invisible(s)
        /\ \A site \in sites : AtSite(tree[site[1]], site, s)
        /\ call' = Writing("planned", [f \in files |-> tree[f]],
                           [f \in files |-> Renamed(tree[f], f, sites, s, name)],
                           <<"rename", s, name>>, FALSE)

(* A call of a write tool has a fresh index; it is refused, or it has read *)
(* what it changes.                                                        *)
Begin ==
    /\ call = Idle
    /\ calls < MaxCalls
    /\ calls' = calls + 1
    /\ index' = tree
    /\ call' = [at |-> "begun"]
    /\ UNCHANGED <<tree, edits, unseen, torn, excused, dropped, hidden>>

Refuse ==
    /\ call.at \in {"begun", "planned"}
    /\ call' = Idle
    /\ UNCHANGED <<tree, index, history>>

Decide ==
    /\ call.at = "begun"
    /\ \E s \in Declared(index) : Change(s) \/ \E name \in Names : Plan(s, name)
    /\ UNCHANGED <<tree, index, history>>

(* The plan is applied to what it was made for.                            *)
NotCompared == TRUE

(* ApplyRename reads every file again: what has changed since the plan     *)
(* refuses the rename.                                                     *)
SameAsPlanned == \A f \in DOMAIN call.data : tree[f] = call.data[f]

Recheck ==
    /\ call.at = "planned"
    /\ call' = IF SameAsPlanned
               THEN Writing("checked", call.data, call.new, call.tool, call.part)
               ELSE Idle
    /\ UNCHANGED <<tree, index, history>>

(* What a text no longer holds of another.                                 *)
Edits(text) == UNION {text[k].edit : k \in DOMAIN text}
Symbols(text) == UNION {text[k].symbols : k \in DOMAIN text}

Siblings(data, new, tool) ==
    IF tool[1] = "delete"
    THEN {[symbol |-> o, paren |-> \E k \in DOMAIN data :
                                      data[k].paren /\ o \in data[k].symbols] :
             o \in (Symbols(data) \ Symbols(new)) \ {tool[2]}}
    ELSE {}

Hidden(tool) ==
    IF tool[1] = "rename" /\ tool[2][2] \in Exported /\ tool[3] \notin Exported
                          /\ UsedElsewhere(tool[2])
    THEN {<<tool[2][1], tool[3]>>} ELSE {}

(* writeFileAtomic: the new text is renamed over the file.                 *)
WriteFile ==
    /\ call.at \in {"write", "checked"}
    /\ \E f \in DOMAIN call.new :
          LET rest == DOMAIN call.new \ {f} IN
          /\ tree' = [tree EXCEPT ![f] = call.new[f]]
          /\ excused' = excused \cup (Edits(call.data[f]) \ Edits(call.new[f]))
          /\ dropped' = dropped \cup Siblings(call.data[f], call.new[f], call.tool)
          /\ hidden' = hidden \cup Hidden(call.tool)
          /\ call' = IF rest = {} THEN [at |-> "reindex"]
                     ELSE Writing(call.at, [g \in rest |-> call.data[g]],
                                  [g \in rest |-> call.new[g]], call.tool, TRUE)
    /\ UNCHANGED <<index, edits, calls, unseen, torn>>

(* A write fails: the file keeps its old text, earlier files the new one,  *)
(* and the call reports an error without reindexing.                       *)
WriteFails ==
    /\ call.at \in {"write", "checked"}
    /\ torn' = (torn \/ call.part)
    /\ call' = Idle
    /\ UNCHANGED <<tree, index, edits, calls, unseen, excused, dropped, hidden>>

(* The written repository is reindexed; failing to is only reported.       *)
Reindex ==
    /\ call.at = "reindex"
    /\ \/ index' = tree
       \/ UNCHANGED index
    /\ call' = Idle
    /\ UNCHANGED <<tree, history>>

Next == Edit \/ Begin \/ Refuse \/ Decide \/ Recheck \/ WriteFile \/ WriteFails \/ Reindex

Spec == Init /\ [][Next]_vars

-----------------------------------------------------------------------------
(* Properties.                                                             *)

(* Types; a call holds no file it has not read, and a plan is a rename's.  *)
Holding(files, at, tools) ==
    [at : at, data : [files -> Seq(Declarations)], new : [files -> Seq(Declarations)],
     tool : tools, part : BOOLEAN]

TypeOK ==
    /\ tree \in [Files -> Seq(Declarations)]
    /\ index \in [Files -> Seq(Declarations)]
    /\ edits \in Nat /\ unseen \in BOOLEAN /\ torn \in BOOLEAN
    /\ \/ call \in [at : {"idle", "begun", "reindex"}]
       \/ \E files \in SUBSET Files :
             \/ call \in Holding(files, {"planned", "checked"},
                                {"rename"} \X Symbol \X Names)
             \/ call \in Holding(files, {"write"}, {"delete", "replace", "insert"} \X Symbol)

(* The code outside tests goes on compiling: every symbol it uses is       *)
(* declared and visible, and nothing is declared twice - whatever is       *)
(* deleted, replaced, inserted and renamed, as long as no edit falls into  *)
(* a call and no rename stops between two files; but for uses of a symbol  *)
(* that went with another's declaration, and of a name that a rename has   *)
(* taken from the packages that use it.                                    *)
CodeCompiles ==
    (call = Idle /\ ~ unseen /\ ~ torn) =>
        /\ DeclaredOnce(tree)
        /\ UsesDeclared(tree, {d.symbol : d \in dropped})
        /\ UsesVisible(tree, hidden)

(* rename.go:78: a rename is refused "whenever the index cannot support a  *)
(* correct rename", so no call leaves a use of what its package cannot see. *)
ReferencesResolve ==
    (call = Idle /\ ~ unseen /\ ~ torn) => UsesVisible(tree, {})

(* rename.go:141: a file that "changed after the rename was planned"       *)
(* refuses it; and a change is read from the file, not from the index.  So *)
(* an edit is only ever lost when it came after the last look a call takes *)
(* at the file.  Nor does a delete drop (write.go:231) "the sibling        *)
(* members the caller never named" of a group in parentheses.              *)
NothingLost ==
    /\ \A e \in 1 .. edits :
          e \in excused \/ \E f \in Files : e \in Edits(tree[f])
    /\ \A d \in dropped : ~ d.paren

(* A rename that has run through, with no edit meanwhile, has rewritten    *)
(* the symbol everywhere in the tree and nothing else.                     *)
Substituted(files, s, name) ==
    LET New(o) == IF o = s THEN <<s[1], name>> ELSE o IN
    [f \in Files |-> [k \in DOMAIN files[f] |->
        [files[f][k] EXCEPT !.symbols = {New(o) : o \in @},
                            !.uses = [c \in DOMAIN @ |-> New(@[c])]]]]

RenameExact ==
    [][ (call.at = "checked" /\ call'.at = "reindex" /\ ~ unseen) =>
            tree' = Substituted(index, call.tool[2], call.tool[3]) ]_vars

(* mcp/write_handlers.go: a delete removes "a symbol's declaration": no    *)
(* symbol goes that was not named.                                         *)
DeletesOnlyTarget == dropped = {}
=============================================================================

------------------------------- MODULE Schema -------------------------------
(* How the database file comes to have the current schema (store.go Create, *)
(* Open, ensureSchema): stages that look whether something is missing and   *)
(* then run their statements, each committed by itself, in every process    *)
(* that opens the file.                                                     *)
(*                                                                          *)
(* The table symbols is the order of its columns, of which the later ones   *)
(* are told here, and one row that stands for all.  A cell holds the name   *)
(* of the column its value was made for, "null" or "default".               *)
EXTENDS Integers, Sequences, FiniteSets, SequencesExt

CONSTANTS
    Servers,       \* open the database, and index it when they cannot
    Indexers,      \* index commands
    Databases,     \* what the file may be at first
    MaxCrashes     \* bound: processes killed

VARIABLES
    db,        \* the file
    opening,   \* where each process is
    crashes,   \* history: how many processes have been killed
    torn       \* history: one stopped between two statements of a stage

schemaVars == <<db, opening, crashes, torn>>
Openers == Servers \cup Indexers

schemaVersion == 5
Columns == <<"is_generated", "complexity", "importance", "repo_id", "fields_json">>
NotNull == {"is_generated", "complexity", "importance"}

(* by is the write its rows are of.                                         *)
NoTable == [cols |-> << >>, row |-> << >>, unique |-> FALSE, by |-> "none"]
EmptyTable == [NoTable EXCEPT !.cols = Columns]

(* The columns added to tables other than symbols, and the tables added.    *)
Added == {<<"packages", "repo_id">>, <<"edges", "repo_id">>, <<"files", "repo_id">>,
          <<"packages", "is_generated">>, <<"packages", "doc">>, <<"edges", "sites">>}
AddedTables == {"repos", "response_chunks", "contracts"}
Tables == AddedTables \cup {"meta"}

(* fts is the text index: "none", "porter", or trigrams, "empty" or "full"; *)
(* by the write the staleness checks know of (analyzer_version and all).    *)
NoFile == [version |-> 0, tables |-> {}, columns |-> {}, symbols |-> NoTable,
           declkey |-> NoTable, indexes |-> {}, duplicates |-> FALSE,
           fts |-> "none", by |-> "none"]

Indexes == {"idx_symbols_decl", "idx_symbols_repo", "edges_pair"}
SymbolIndexes == {"idx_symbols_decl", "idx_symbols_repo"}
Cells == Range(Columns) \cup {"null", "default"}
Table == [cols : Seq(Range(Columns)), row : Seq(Cells), unique : BOOLEAN,
          by : {"none", "old", "new"}]
File == [version : 0 .. schemaVersion, tables : SUBSET Tables, columns : SUBSET Added,
         symbols : Table, declkey : Table, indexes : SUBSET Indexes,
         duplicates : BOOLEAN, fts : {"none", "porter", "empty", "full"},
         by : {"none", "old", "new"}]

(* What is found was left by a write that ended, or is the beginning of     *)
(* one; the old key is that of a written table, and no copy is under way.   *)
ASSUME DatabasesAssumption ==
  \A d \in Databases :
    /\ d \in File
    /\ d.declkey = NoTable
    /\ d.symbols # NoTable => {"complexity", "importance"} \subseteq Range(d.symbols.cols)
    /\ d.symbols.unique => d.by # "none"
    /\ d.by # "none" => /\ d.symbols.row # << >>
                        /\ d.fts \in {"porter", "full"}
                        /\ ~d.symbols.unique => SymbolIndexes \subseteq d.indexes
    /\ d.fts = "porter" => d.version \in 1 .. schemaVersion - 1

-----------------------------------------------------------------------------
(* Statements.  One with "ensure" is a CREATE ... IF NOT EXISTS.            *)
Statement(op, on) == [op |-> op, on |-> on]

Indexable(i) ==
  CASE i = "idx_symbols_decl" -> db.symbols # NoTable
    [] i = "idx_symbols_repo" -> "repo_id" \in Range(db.symbols.cols)
    [] i = "edges_pair" -> <<"edges", "repo_id">> \in db.columns /\ ~db.duplicates

(* Whether the rows fit the columns of symbols_declkey, one by one.         *)
Copyable(t) == /\ Len(t.cols) = Len(Columns)
               /\ \A i \in DOMAIN t.row : Columns[i] \in NotNull => t.row[i] # "null"

HasColumn(c) == IF c[1] = "symbols" THEN c[2] \in Range(db.symbols.cols) ELSE c \in db.columns

(* A statement that cannot be executed is an error.                         *)
Executes(s) ==
  CASE s.op = "create_table" -> s.on \notin db.tables
    [] s.op = "add_column"   -> ~HasColumn(s.on) /\ (s.on[1] = "symbols" => db.symbols # NoTable)
    [] s.op = "create_index" -> s.on \notin db.indexes /\ Indexable(s.on)
    [] s.op = "ensure_index" -> s.on \in db.indexes \/ Indexable(s.on)
    [] s.op = "create_fts"   -> db.fts = "none"
    [] s.op = "fill_fts"     -> db.fts # "none"
    [] s.op = "read_version" -> "meta" \in db.tables
    [] s.op = "create_copy"  -> db.declkey = NoTable
    [] s.op = "copy_rows"    -> db.declkey # NoTable /\ Copyable(db.symbols)
    [] s.op = "drop_table"   -> db.symbols # NoTable
    [] s.op = "rename_copy"  -> db.declkey # NoTable /\ db.symbols = NoTable
    [] OTHER -> TRUE

(* ADD COLUMN puts the column last; INSERT ... SELECT * goes by position.   *)
WithColumn(c) ==
  LET t == db.symbols
      cell == IF c[2] \in NotNull THEN "default" ELSE "null"
  IN  IF c[1] # "symbols" THEN [db EXCEPT !.columns = @ \cup {c}]
      ELSE [db EXCEPT !.symbols =
              [cols |-> Append(t.cols, c[2]),
               row |-> IF t.row = << >> THEN t.row ELSE Append(t.row, cell),
               unique |-> t.unique, by |-> t.by]]

Executed(s) ==
  CASE s.op \in {"create_table", "ensure_table"} -> [db EXCEPT !.tables = @ \cup {s.on}]
    [] s.op = "ensure_symbols" ->
         IF db.symbols # NoTable THEN db
         ELSE [db EXCEPT !.symbols = EmptyTable,
                         !.columns = IF db.by = "none" THEN Added ELSE @]
    [] s.op = "add_column" -> WithColumn(s.on)
    [] s.op \in {"create_index", "ensure_index"} -> [db EXCEPT !.indexes = @ \cup {s.on}]
    [] s.op = "delete_duplicates" -> [db EXCEPT !.duplicates = FALSE]
    [] s.op = "read_version" -> db
    [] s.op = "drop_fts"    -> [db EXCEPT !.fts = "none"]
    [] s.op = "create_fts"  -> [db EXCEPT !.fts = "empty"]
    [] s.op = "ensure_fts"  -> [db EXCEPT !.fts = IF @ = "none" THEN "empty" ELSE @]
    [] s.op = "fill_fts"    -> [db EXCEPT !.fts = IF @ = "empty" THEN "full" ELSE @]
    [] s.op = "create_copy" -> [db EXCEPT !.declkey = EmptyTable]
    [] s.op = "copy_rows"   -> [db EXCEPT !.declkey = [@ EXCEPT !.row = db.symbols.row,
                                                                !.by = db.symbols.by]]
    [] s.op = "drop_table"  -> [db EXCEPT !.symbols = NoTable,
                                          !.indexes = @ \ {"idx_symbols_decl", "idx_symbols_repo"}]
    [] s.op = "rename_copy" -> [db EXCEPT !.symbols = db.declkey, !.declkey = NoTable]
    [] s.op = "set_version" -> [db EXCEPT !.version = schemaVersion]

-----------------------------------------------------------------------------
(* Stages: what is looked for, and what is done about it.                   *)
Stage(if, on, does) == [if |-> if, on |-> on, does |-> does]

Needed(g) ==
  CASE g.if = "always"     -> TRUE
    [] g.if = "old_text"   -> db.version \in 1 .. schemaVersion - 1 /\ db.fts # "none"
    [] g.if = "no_table"   -> g.on \notin db.tables
    [] g.if = "no_column"  -> ~HasColumn(g.on)
    [] g.if = "no_index"   -> g.on \notin db.indexes
    [] g.if = "unique_key" -> db.symbols.unique

Always(op, on) == Stage("always", on, <<Statement(op, on)>>)
EnsureTable(t) == Stage("no_table", t, <<Statement("create_table", t)>>)
EnsureColumn(t, c) == Stage("no_column", <<t, c>>, <<Statement("add_column", <<t, c>>)>>)

migrateFileContentFTS == Stage("old_text", "",
  <<Statement("drop_fts", ""), Statement("create_fts", ""), Statement("fill_fts", "")>>)

(* Mutant: the index is built over the duplicates.                          *)
KeepDuplicates == Stage("no_index", "edges_pair", <<Statement("create_index", "edges_pair")>>)

migrateEdgesDedup == Stage("no_index", "edges_pair",
  <<Statement("delete_duplicates", ""), Statement("create_index", "edges_pair")>>)

(* Mutant of migrateSymbolDeclarationKey: the table goes before its rows    *)
(* are copied.                                                              *)
DropFirst == Stage("unique_key", "",
  <<Statement("create_copy", ""), Statement("drop_table", ""), Statement("copy_rows", ""),
    Statement("rename_copy", ""), Statement("create_index", "idx_symbols_repo"),
    Statement("create_index", "idx_symbols_decl")>>)

(* The plain indexes are told by that on repo_id.                           *)
migrateSymbolDeclarationKey == Stage("unique_key", "",
  <<Statement("create_copy", ""), Statement("copy_rows", ""), Statement("drop_table", ""),
    Statement("rename_copy", ""), Statement("create_index", "idx_symbols_repo"),
    Statement("create_index", "idx_symbols_decl")>>)

schemaSQL ==
  <<Always("ensure_table", "repos"), Always("ensure_symbols", ""),
    Always("ensure_index", "idx_symbols_decl"), Always("ensure_index", "idx_symbols_repo"),
    Always("ensure_index", "edges_pair"), Always("ensure_table", "contracts"),
    Always("ensure_table", "meta"), Always("ensure_fts", ""), Always("ensure_table", "response_chunks")>>

(* Mutant of ensureSchema: the version is recorded before the work is done. *)
VersionFirst ==
  <<Always("read_version", ""), Always("set_version", ""), migrateFileContentFTS,
    EnsureTable("repos"),
    EnsureColumn("packages", "repo_id"), EnsureColumn("symbols", "repo_id"),
    EnsureColumn("edges", "repo_id"), EnsureColumn("files", "repo_id"),
    EnsureColumn("packages", "is_generated"), EnsureColumn("symbols", "is_generated"),
    EnsureColumn("packages", "doc"), EnsureColumn("symbols", "fields_json"),
    EnsureColumn("edges", "sites"), migrateEdgesDedup, EnsureTable("response_chunks"),
    migrateSymbolDeclarationKey, EnsureTable("contracts")>>

ensureSchema ==
  <<Always("read_version", ""), migrateFileContentFTS, EnsureTable("repos"),
    EnsureColumn("packages", "repo_id"), EnsureColumn("symbols", "repo_id"),
    EnsureColumn("edges", "repo_id"), EnsureColumn("files", "repo_id"),
    EnsureColumn("packages", "is_generated"), EnsureColumn("symbols", "is_generated"),
    EnsureColumn("packages", "doc"), EnsureColumn("symbols", "fields_json"),
    EnsureColumn("edges", "sites"), migrateEdgesDedup, EnsureTable("response_chunks"),
    migrateSymbolDeclarationKey, Always("set_version", ""), EnsureTable("contracts")>>

Stages(how) == IF how = "create" THEN schemaSQL \o ensureSchema ELSE ensureSchema

-----------------------------------------------------------------------------
(* Opening.  stage counts those behind a process, stmt the statements of    *)
(* the stage it has found needed, 0 before it has looked.                   *)
Idle == [at |-> "idle", how |-> "open", stage |-> 0, stmt |-> 0]

SchemaInit ==
  /\ db \in Databases
  /\ opening = [p \in Openers |-> Idle]
  /\ crashes = 0
  /\ torn = FALSE

Become(p, state) == opening' = [opening EXCEPT ![p] = state]
Ensuring(p) == opening[p].at = "ensure"
Start(how) == [at |-> "ensure", how |-> how, stage |-> 1, stmt |-> 0]
Here(p) == Stages(opening[p].how)[opening[p].stage]
Through(p) == Ensuring(p) /\ opening[p].stage > Len(Stages(opening[p].how))

(* Open looks for the file and counts its symbols; a server indexes what it *)
(* cannot open.                                                             *)
Open(p) ==
  /\ p \in Servers /\ opening[p].at = "idle"
  /\ Become(p, Start(IF db.symbols # NoTable THEN "open" ELSE "create"))
  /\ UNCHANGED <<db, crashes, torn>>

Create(p) ==
  /\ p \in Indexers /\ opening[p].at = "idle"
  /\ Become(p, Start("create"))
  /\ UNCHANGED <<db, crashes, torn>>

Look(p) ==
  /\ Ensuring(p) /\ ~Through(p) /\ opening[p].stmt = 0
  /\ Become(p, IF Needed(Here(p)) THEN [opening[p] EXCEPT !.stmt = 1]
                ELSE [opening[p] EXCEPT !.stage = @ + 1])
  /\ UNCHANGED <<db, crashes, torn>>

Execute(p) ==
  /\ Ensuring(p) /\ ~Through(p) /\ opening[p].stmt > 0
  /\ LET does == Here(p).does
         k    == opening[p].stmt IN
     /\ Executes(does[k])
     /\ db' = Executed(does[k])
     /\ Become(p, IF k < Len(does) THEN [opening[p] EXCEPT !.stmt = @ + 1]
                   ELSE [opening[p] EXCEPT !.stage = @ + 1, !.stmt = 0])
  /\ UNCHANGED <<crashes, torn>>

(* A stage cut short leaves something that it does not find needed again,   *)
(* or cannot do again - but for the deletion of duplicate edges.            *)
CutShort(p) == opening[p].stmt > 1 /\ Here(p) # migrateEdgesDedup

(* An error ends Open and Create; after Open a server calls Create.         *)
GiveUp(p) == Become(p, IF p \in Servers /\ opening[p].how = "open" THEN Start("create") ELSE Idle)

Fails(p) ==
  /\ Ensuring(p) /\ ~Through(p) /\ opening[p].stmt > 0
  /\ ~Executes(Here(p).does[opening[p].stmt])
  /\ torn' = (torn \/ CutShort(p))
  /\ GiveUp(p)
  /\ UNCHANGED <<db, crashes>>

Opened(p) ==
  /\ Through(p) /\ opening[p].how = "open"
  /\ Become(p, [Idle EXCEPT !.at = "opened"])
  /\ UNCHANGED <<db, crashes, torn>>

(* After Create the index is written, in one transaction.  The text index   *)
(* is filled when the files have changed, as those of an empty index have.  *)
Writes(dirty) ==
  /\ db.symbols # NoTable /\ Range(Columns) \subseteq Range(db.symbols.cols)
  /\ Added \subseteq db.columns /\ "edges_pair" \in db.indexes
  /\ dirty => db.fts # "none"

WriteIndex(p, dirty) ==
  /\ Through(p) /\ opening[p].how = "create"
  /\ dirty \/ db.by # "none"
  /\ IF Writes(dirty)
     THEN /\ db' = [db EXCEPT !.by = "new", !.fts = IF dirty /\ @ = "empty" THEN "full" ELSE @,
                     !.symbols = [@ EXCEPT !.row = db.symbols.cols, !.by = "new"]]
          /\ Become(p, IF p \in Servers THEN [Idle EXCEPT !.at = "opened"] ELSE Idle)
     ELSE Become(p, Idle) /\ UNCHANGED db
  /\ UNCHANGED <<crashes, torn>>

Close(p) ==
  /\ opening[p].at = "opened"
  /\ Become(p, Idle)
  /\ UNCHANGED <<db, crashes, torn>>

Kill(p) ==
  /\ crashes < MaxCrashes /\ crashes' = crashes + 1
  /\ Ensuring(p)
  /\ torn' = (torn \/ (~Through(p) /\ CutShort(p)))
  /\ Become(p, Idle)
  /\ UNCHANGED db

Progress(p) == Look(p) \/ Execute(p) \/ Fails(p) \/ Opened(p) \/ \E dirty \in BOOLEAN : WriteIndex(p, dirty)

SchemaNext == \E p \in Openers : Open(p) \/ Create(p) \/ Progress(p) \/ Close(p) \/ Kill(p)

SchemaFairness == /\ \A p \in Openers : WF_schemaVars(Progress(p))
                  /\ \A p \in Servers : WF_schemaVars(Open(p))

SchemaSpec == SchemaInit /\ [][SchemaNext]_schemaVars /\ SchemaFairness

-----------------------------------------------------------------------------
(* What must hold.                                                          *)
AtRest == \A p \in Openers : ~Ensuring(p)

(* ensureSchema "migrates an existing database to the current schema        *)
(* version": once a process has an index open and none is at work, nothing  *)
(* is missing, whoever else opened the file at the same time, failed or was *)
(* killed - unless between two statements of one stage.                     *)
OpenedIsCurrent ==
  AtRest /\ ~torn /\ db.by # "none" /\ (\E p \in Openers : opening[p].at = "opened") =>
    /\ db.version = schemaVersion /\ db.tables = Tables /\ db.columns = Added
    /\ Range(db.symbols.cols) = Range(Columns) /\ ~db.symbols.unique
    /\ db.indexes = Indexes
    /\ db.fts = "full"

(* The rows of symbols outlive the copying of their table, whoever copies   *)
(* it too and wherever one is killed.                                       *)
RowsSurvive ==
  db.by # "none" => db.symbols.row # << >> \/ db.declkey.row # << >>

(* Every database comes to be open in each server that asks for it, again   *)
(* and again - unless a stage was cut short.                                *)
Opens == \A p \in Servers : []<>(opening[p].at = "opened" \/ torn)

(* Against the comment of ensureSchema ("All changes are additive"): the    *)
(* copy goes by position, and a column added before stands at the end.      *)
CellsKept ==
  \A i \in DOMAIN db.symbols.row :
    db.symbols.row[i] \in {db.symbols.cols[i], "null", "default"}

(* Against write's "committed": the rows of an index written while another  *)
(* process copies the table are replaced by the older ones.                 *)
IndexIsWritten == AtRest /\ ~torn => db.symbols.by = db.by

(* Against the comment of Open ("continue to open unchanged"): a file whose *)
(* copy was begun, or whose rows do not fit it, is never opened again.      *)
NeverStuck == \A p \in Servers : []<>(opening[p].at = "opened")
=============================================================================

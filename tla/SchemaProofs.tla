---------------------------- MODULE SchemaProofs -----------------------------
(* Proofs about Schema: for any number of servers and index commands, and  *)
(* any files they may find.                                                *)
EXTENDS Schema, SequenceTheorems, TLAPS

-----------------------------------------------------------------------------
(* The stages, and the statements they are of.                             *)

LookedFor == Added \cup {<<"symbols", c>> : c \in Range(Columns)}
AlwaysOps == {"read_version", "set_version", "ensure_table", "ensure_symbols",
              "ensure_index", "ensure_fts"}

PlainOps == AlwaysOps \cup {"create_table", "add_column", "create_index",
                           "delete_duplicates", "drop_fts", "create_fts", "fill_fts"}

(* A statement that copies no table, and what it is about.                 *)
Plain(s) ==
  /\ s.op \in PlainOps
  /\ s.op \in {"create_table", "ensure_table"} => s.on \in Tables
  /\ s.op = "add_column" => s.on \in LookedFor
  /\ s.op \in {"create_index", "ensure_index"} => s.on \in Indexes

(* The stages there are.                                                   *)
Kind(g) ==
  \/ \E s : s.op \in AlwaysOps /\ Plain(s) /\ g = Stage("always", s.on, <<s>>)
  \/ \E t \in Tables : g = EnsureTable(t)
  \/ \E c \in LookedFor : g = EnsureColumn(c[1], c[2])
  \/ g \in {migrateFileContentFTS, migrateEdgesDedup, migrateSymbolDeclarationKey}

LEMMA Lengths == Len(schemaSQL) = 9 /\ Len(ensureSchema) = 17
  BY DEF schemaSQL, ensureSchema

LEMMA AlwaysKind ==
  ASSUME NEW op \in AlwaysOps, NEW on,
         op = "ensure_table" => on \in Tables,
         op = "ensure_index" => on \in Indexes
  PROVE  Kind(Always(op, on))
<1> DEFINE s == Statement(op, on)
<1>1. s.op = op /\ s.on = on
  BY DEF Statement
<1>2. Plain(s) /\ s.op \in AlwaysOps
  BY <1>1 DEF Plain, AlwaysOps, PlainOps
<1>3. Always(op, on) = Stage("always", s.on, <<s>>)
  BY <1>1 DEF Always
<1> HIDE DEF s
<1>4. QED  BY <1>2, <1>3 DEF Kind

LEMMA ColumnKind ==
  ASSUME NEW t, NEW c, <<t, c>> \in LookedFor
  PROVE  Kind(EnsureColumn(t, c))
<1>1. EnsureColumn(<<t, c>>[1], <<t, c>>[2]) = EnsureColumn(t, c)
  OBVIOUS
<1>2. QED  BY <1>1 DEF Kind

LEMMA ColumnNames ==
  Range(Columns) = {"is_generated", "complexity", "importance", "repo_id", "fields_json"}
<1>1. DOMAIN Columns = {1, 2, 3, 4, 5}
  BY DEF Columns
<1>2. QED  BY <1>1 DEF Range, Columns

LEMMA CreateKinds ==
  /\ Len(schemaSQL) = 9
  /\ schemaSQL \in Seq({schemaSQL[i] : i \in 1 .. 9})
  /\ \A i \in 1 .. 9 : Kind(schemaSQL[i])
<1>1. Len(schemaSQL) = 9 /\ schemaSQL \in Seq({schemaSQL[i] : i \in 1 .. 9})
  <2> DEFINE S == {schemaSQL[i] : i \in 1 .. 9}
  <2>1. schemaSQL = [i \in 1 .. 9 |-> schemaSQL[i]]
    BY DEF schemaSQL
  <2>2. \A i \in 1 .. 9 : schemaSQL[i] \in S
    OBVIOUS
  <2> HIDE DEF S
  <2>3. schemaSQL \in Seq(S)
    BY <2>1, <2>2
  <2>4. QED  BY <2>3, Lengths DEF S
<1>2. /\ schemaSQL[1] = Always("ensure_table", "repos")
      /\ schemaSQL[2] = Always("ensure_symbols", "")
      /\ schemaSQL[3] = Always("ensure_index", "idx_symbols_decl")
      /\ schemaSQL[4] = Always("ensure_index", "idx_symbols_repo")
      /\ schemaSQL[5] = Always("ensure_index", "edges_pair")
      /\ schemaSQL[6] = Always("ensure_table", "contracts")
      /\ schemaSQL[7] = Always("ensure_table", "meta")
      /\ schemaSQL[8] = Always("ensure_fts", "")
      /\ schemaSQL[9] = Always("ensure_table", "response_chunks")
  BY DEF schemaSQL
<1>3. /\ {"repos", "contracts", "meta", "response_chunks"} \subseteq Tables
      /\ {"idx_symbols_decl", "idx_symbols_repo", "edges_pair"} \subseteq Indexes
      /\ {"ensure_table", "ensure_symbols", "ensure_index", "ensure_fts"} \subseteq AlwaysOps
  BY DEF Tables, AddedTables, Indexes, AlwaysOps
<1>4. /\ Kind(schemaSQL[1]) /\ Kind(schemaSQL[2]) /\ Kind(schemaSQL[3])
      /\ Kind(schemaSQL[4]) /\ Kind(schemaSQL[5]) /\ Kind(schemaSQL[6])
      /\ Kind(schemaSQL[7]) /\ Kind(schemaSQL[8]) /\ Kind(schemaSQL[9])
  BY <1>2, <1>3, AlwaysKind
<1>5. QED  BY <1>1, <1>4

(* ensureSchema, stage by stage.                                           *)
LEMMA EnsureStages ==
  /\ ensureSchema[1] = Always("read_version", "")
  /\ ensureSchema[2] = migrateFileContentFTS
  /\ ensureSchema[3] = EnsureTable("repos")
  /\ ensureSchema[4] = EnsureColumn("packages", "repo_id")
  /\ ensureSchema[5] = EnsureColumn("symbols", "repo_id")
  /\ ensureSchema[6] = EnsureColumn("edges", "repo_id")
  /\ ensureSchema[7] = EnsureColumn("files", "repo_id")
  /\ ensureSchema[8] = EnsureColumn("packages", "is_generated")
  /\ ensureSchema[9] = EnsureColumn("symbols", "is_generated")
  /\ ensureSchema[10] = EnsureColumn("packages", "doc")
  /\ ensureSchema[11] = EnsureColumn("symbols", "fields_json")
  /\ ensureSchema[12] = EnsureColumn("edges", "sites")
  /\ ensureSchema[13] = migrateEdgesDedup
  /\ ensureSchema[14] = EnsureTable("response_chunks")
  /\ ensureSchema[15] = migrateSymbolDeclarationKey
  /\ ensureSchema[16] = Always("set_version", "")
  /\ ensureSchema[17] = EnsureTable("contracts")
  BY DEF ensureSchema

LEMMA EnsureKinds ==
  /\ Len(ensureSchema) = 17
  /\ ensureSchema \in Seq({ensureSchema[i] : i \in 1 .. 17})
  /\ \A i \in 1 .. 17 : Kind(ensureSchema[i])
<1>1. Len(ensureSchema) = 17 /\ ensureSchema \in Seq({ensureSchema[i] : i \in 1 .. 17})
  <2> DEFINE S == {ensureSchema[i] : i \in 1 .. 17}
  <2>1. ensureSchema = [i \in 1 .. 17 |-> ensureSchema[i]]
    BY DEF ensureSchema
  <2>2. \A i \in 1 .. 17 : ensureSchema[i] \in S
    OBVIOUS
  <2> HIDE DEF S
  <2>3. ensureSchema \in Seq(S)
    BY <2>1, <2>2
  <2>4. QED  BY <2>3, Lengths DEF S
<1>2. /\ {"repos", "contracts", "meta", "response_chunks"} \subseteq Tables
      /\ {"read_version", "set_version"} \subseteq AlwaysOps
      /\ {<<"packages", "repo_id">>, <<"edges", "repo_id">>, <<"files", "repo_id">>,
          <<"packages", "is_generated">>, <<"packages", "doc">>, <<"edges", "sites">>,
          <<"symbols", "repo_id">>, <<"symbols", "is_generated">>,
          <<"symbols", "fields_json">>} \subseteq LookedFor
  BY ColumnNames DEF Tables, AddedTables, AlwaysOps, LookedFor, Added
<1>3. \A t \in Tables : Kind(EnsureTable(t))
  BY DEF Kind
<1>4. Kind(migrateFileContentFTS) /\ Kind(migrateEdgesDedup) /\ Kind(migrateSymbolDeclarationKey)
  BY DEF Kind
<1>5. /\ Kind(ensureSchema[1]) /\ Kind(ensureSchema[2]) /\ Kind(ensureSchema[3])
      /\ Kind(ensureSchema[13]) /\ Kind(ensureSchema[14]) /\ Kind(ensureSchema[15])
      /\ Kind(ensureSchema[16]) /\ Kind(ensureSchema[17])
  BY <1>2, <1>3, <1>4, EnsureStages, AlwaysKind
<1>6. /\ Kind(ensureSchema[4]) /\ Kind(ensureSchema[5]) /\ Kind(ensureSchema[6])
      /\ Kind(ensureSchema[7]) /\ Kind(ensureSchema[8]) /\ Kind(ensureSchema[9])
      /\ Kind(ensureSchema[10]) /\ Kind(ensureSchema[11]) /\ Kind(ensureSchema[12])
  BY <1>2, EnsureStages, ColumnKind
<1>7. \A i \in 1 .. 17 :
         i \in {1, 2, 3, 4, 5, 6, 7, 8, 9, 10, 11, 12, 13, 14, 15, 16, 17}
  OBVIOUS
<1>8. QED  BY <1>1, <1>5, <1>6, <1>7

(* Create runs schema.sql's statements before ensureSchema's stages.       *)
LEMMA StagesOf ==
  ASSUME NEW how
  PROVE  /\ how # "create" => Stages(how) = ensureSchema
         /\ how = "create" => /\ Len(Stages(how)) = 26
                              /\ \A i \in 1 .. 9 : Stages(how)[i] = schemaSQL[i]
                              /\ \A i \in 1 .. 17 : Stages(how)[i + 9] = ensureSchema[i]
         /\ Len(Stages(how)) \in Nat
         /\ \A i \in 1 .. Len(Stages(how)) : Kind(Stages(how)[i])
<1>1. CASE how = "create"
  <2>1. Stages(how) = schemaSQL \o ensureSchema
    BY <1>1 DEF Stages
  <2>2. /\ Len(schemaSQL \o ensureSchema) = 26
        /\ \A i \in 1 .. 26 : (schemaSQL \o ensureSchema)[i] =
               IF i <= 9 THEN schemaSQL[i] ELSE ensureSchema[i - 9]
    <3> DEFINE C == {schemaSQL[i] : i \in 1 .. 9}
               E == {ensureSchema[i] : i \in 1 .. 17}
               S == C \cup E
    <3>1. schemaSQL \in Seq(C) /\ ensureSchema \in Seq(E)
      BY CreateKinds, EnsureKinds
    <3>2. C \subseteq S /\ E \subseteq S
      OBVIOUS
    <3> HIDE DEF C, E, S
    <3>3. schemaSQL \in Seq(S) /\ ensureSchema \in Seq(S)
      BY <3>1, <3>2, SeqMonotonic
    <3>4. /\ Len(schemaSQL \o ensureSchema) = Len(schemaSQL) + Len(ensureSchema)
          /\ \A i \in 1 .. Len(schemaSQL) + Len(ensureSchema) :
                (schemaSQL \o ensureSchema)[i] =
                  IF i <= Len(schemaSQL) THEN schemaSQL[i] ELSE ensureSchema[i - Len(schemaSQL)]
      BY <3>3, ConcatProperties
    <3>5. Len(schemaSQL) + Len(ensureSchema) = 26
      BY Lengths
    <3>6. QED  BY <3>4, <3>5, Lengths
  <2>3. \A i \in 1 .. 9 : Kind(schemaSQL[i])
    BY CreateKinds
  <2>4. \A i \in 1 .. 17 : Kind(ensureSchema[i])
    BY EnsureKinds
  <2>5. Len(Stages(how)) = 26
    BY <2>1, <2>2
  <2>6. \A i \in 1 .. 9 : Stages(how)[i] = schemaSQL[i]
    <3>1. ASSUME NEW i \in 1 .. 9 PROVE Stages(how)[i] = schemaSQL[i]
      <4>1. i \in 1 .. 26 /\ i <= 9
        OBVIOUS
      <4>2. (schemaSQL \o ensureSchema)[i] =
               IF i <= 9 THEN schemaSQL[i] ELSE ensureSchema[i - 9]
        BY <2>2, <4>1
      <4>3. QED  BY <2>1, <4>1, <4>2
    <3>2. QED  BY <3>1
  <2>7. \A i \in 1 .. 17 : i + 9 \in 1 .. 26 /\ ~(i + 9 <= 9) /\ (i + 9) - 9 = i
    OBVIOUS
  <2>8. \A i \in 1 .. 17 : Stages(how)[i + 9] = ensureSchema[i]
    BY <2>1, <2>2, <2>7
  <2>9. \A i \in 1 .. 26 : i \in 1 .. 9 \/ \E j \in 1 .. 17 : i = j + 9
    <3>1. \A i \in 1 .. 26 : i \in 1 .. 9 \/ (i - 9 \in 1 .. 17 /\ i = (i - 9) + 9)
      OBVIOUS
    <3>2. QED  BY <3>1
  <2>10. \A i \in 1 .. 26 : Kind(Stages(how)[i])
    BY <2>3, <2>4, <2>6, <2>8, <2>9
  <2>11. Len(Stages(how)) \in Nat /\ 1 .. Len(Stages(how)) = 1 .. 26
    BY <2>5
  <2>12. QED  BY <1>1, <2>5, <2>6, <2>8, <2>10, <2>11
<1>2. CASE how # "create"
  <2>1. Stages(how) = ensureSchema
    BY <1>2 DEF Stages
  <2>2. \A i \in 1 .. 17 : Kind(ensureSchema[i])
    BY EnsureKinds
  <2>3. Len(Stages(how)) = 17
    BY <2>1, Lengths
  <2>4. \A i \in 1 .. 17 : Kind(Stages(how)[i])
    BY <2>1, <2>2
  <2>5. QED  BY <1>2, <2>1, <2>3, <2>4
<1>3. QED  BY <1>1, <1>2

LEMMA KeyStage ==
  /\ Len(migrateSymbolDeclarationKey.does) = 6
  /\ migrateSymbolDeclarationKey.if = "unique_key"
  /\ migrateSymbolDeclarationKey.does[1] = Statement("create_copy", "")
  /\ migrateSymbolDeclarationKey.does[2] = Statement("copy_rows", "")
  /\ migrateSymbolDeclarationKey.does[3] = Statement("drop_table", "")
  /\ migrateSymbolDeclarationKey.does[4] = Statement("rename_copy", "")
  /\ migrateSymbolDeclarationKey.does[5] = Statement("create_index", "idx_symbols_repo")
  /\ migrateSymbolDeclarationKey.does[6] = Statement("create_index", "idx_symbols_decl")
  BY DEF migrateSymbolDeclarationKey, Stage

LEMMA TextStage ==
  /\ Len(migrateFileContentFTS.does) = 3
  /\ migrateFileContentFTS.if = "old_text"
  /\ migrateFileContentFTS.does[1] = Statement("drop_fts", "")
  /\ migrateFileContentFTS.does[2] = Statement("create_fts", "")
  /\ migrateFileContentFTS.does[3] = Statement("fill_fts", "")
  BY DEF migrateFileContentFTS, Stage

LEMMA DedupStage ==
  /\ Len(migrateEdgesDedup.does) = 2
  /\ migrateEdgesDedup.if = "no_index" /\ migrateEdgesDedup.on = "edges_pair"
  /\ migrateEdgesDedup.does[1] = Statement("delete_duplicates", "")
  /\ migrateEdgesDedup.does[2] = Statement("create_index", "edges_pair")
  BY DEF migrateEdgesDedup, Stage

(* A stage of one statement.                                               *)
LEMMA OneStatement ==
  ASSUME NEW if, NEW on, NEW s
  PROVE  /\ Stage(if, on, <<s>>).if = if /\ Stage(if, on, <<s>>).on = on
         /\ Len(Stage(if, on, <<s>>).does) = 1 /\ Stage(if, on, <<s>>).does[1] = s
  BY DEF Stage

LEMMA EnsureStage ==
  /\ \A t : /\ EnsureTable(t).if = "no_table" /\ EnsureTable(t).on = t
            /\ Len(EnsureTable(t).does) = 1
            /\ EnsureTable(t).does[1] = Statement("create_table", t)
  /\ \A t, c : /\ EnsureColumn(t, c).if = "no_column" /\ EnsureColumn(t, c).on = <<t, c>>
               /\ Len(EnsureColumn(t, c).does) = 1
               /\ EnsureColumn(t, c).does[1] = Statement("add_column", <<t, c>>)
<1>1. ASSUME NEW t PROVE /\ EnsureTable(t).if = "no_table" /\ EnsureTable(t).on = t
                         /\ Len(EnsureTable(t).does) = 1
                         /\ EnsureTable(t).does[1] = Statement("create_table", t)
  BY DEF EnsureTable, Stage
<1>2. ASSUME NEW t, NEW c
      PROVE  /\ EnsureColumn(t, c).if = "no_column" /\ EnsureColumn(t, c).on = <<t, c>>
             /\ Len(EnsureColumn(t, c).does) = 1
             /\ EnsureColumn(t, c).does[1] = Statement("add_column", <<t, c>>)
  BY DEF EnsureColumn, Stage
<1>3. QED  BY <1>1, <1>2

LEMMA PlainStatement ==
  /\ \A t \in Tables : Plain(Statement("create_table", t))
  /\ \A c \in LookedFor : Plain(Statement("add_column", c))
  /\ \A i \in Indexes : Plain(Statement("create_index", i))
  /\ \A op \in {"delete_duplicates", "drop_fts", "create_fts", "fill_fts"} :
        Plain(Statement(op, ""))
<1>1. \A op, on : Statement(op, on).op = op /\ Statement(op, on).on = on
  BY DEF Statement
<1>2. {"create_table", "add_column", "create_index", "delete_duplicates", "drop_fts",
       "create_fts", "fill_fts"} \subseteq PlainOps
  BY DEF PlainOps
<1>3. ASSUME NEW op \in PlainOps, NEW on,
             op = "create_table" => on \in Tables,
             op = "add_column" => on \in LookedFor,
             op = "create_index" => on \in Indexes,
             op \notin {"ensure_table", "ensure_index"}
      PROVE  Plain(Statement(op, on))
  <2>1. Statement(op, on).op = op /\ Statement(op, on).on = on
    BY <1>1
  <2>2. QED  BY <1>3, <2>1 DEF Plain
<1>4. QED  BY <1>2, <1>3

LEMMA Pairs == \A c \in LookedFor : c = <<c[1], c[2]>>
  BY DEF LookedFor, Added

(* A stage that is not the copying of symbols has only plain statements.   *)
LEMMA KindPlain ==
  ASSUME NEW g, Kind(g), g # migrateSymbolDeclarationKey
  PROVE  /\ Len(g.does) \in Nat \ {0}
         /\ \A k \in 1 .. Len(g.does) : Plain(g.does[k])
<1>1. CASE \E s : s.op \in AlwaysOps /\ Plain(s) /\ g = Stage("always", s.on, <<s>>)
  BY <1>1, OneStatement
<1>2. ASSUME NEW t \in Tables, g = EnsureTable(t)
      PROVE  Len(g.does) = 1 /\ Plain(g.does[1])
  BY <1>2, EnsureStage, PlainStatement
<1>3. ASSUME NEW c \in LookedFor, g = EnsureColumn(c[1], c[2])
      PROVE  Len(g.does) = 1 /\ Plain(g.does[1])
  <2>1. g.does[1] = Statement("add_column", <<c[1], c[2]>>) /\ Len(g.does) = 1
    BY <1>3, EnsureStage
  <2>2. <<c[1], c[2]>> = c
    BY Pairs
  <2>3. QED  BY <2>1, <2>2, PlainStatement
<1>4. CASE g = migrateFileContentFTS
  <2>1. Plain(g.does[1]) /\ Plain(g.does[2]) /\ Plain(g.does[3])
    BY <1>4, TextStage, PlainStatement
  <2>2. Len(g.does) = 3
    BY <1>4, TextStage
  <2>3. \A k \in 1 .. 3 : k = 1 \/ k = 2 \/ k = 3
    OBVIOUS
  <2>4. QED  BY <2>1, <2>2, <2>3
<1>5. CASE g = migrateEdgesDedup
  <2>1. "edges_pair" \in Indexes
    BY DEF Indexes
  <2>2. Plain(g.does[1]) /\ Plain(g.does[2])
    BY <1>5, <2>1, DedupStage, PlainStatement
  <2>3. Len(g.does) = 2
    BY <1>5, DedupStage
  <2>4. \A k \in 1 .. 2 : k = 1 \/ k = 2
    OBVIOUS
  <2>5. QED  BY <2>2, <2>3, <2>4
<1>6. QED  BY <1>1, <1>2, <1>3, <1>4, <1>5 DEF Kind

LEMMA KeyLength == Len(migrateSymbolDeclarationKey.does) = 6
  BY KeyStage

LEMMA StageLength ==
  ASSUME NEW g, Kind(g)
  PROVE  Len(g.does) \in Nat \ {0}
<1>1. CASE g = migrateSymbolDeclarationKey
  BY <1>1, KeyLength
<1>2. CASE g # migrateSymbolDeclarationKey
  BY <1>2, KindPlain
<1>3. QED  BY <1>1, <1>2

-----------------------------------------------------------------------------
(* What a statement does to the file.                                      *)

(* What no step of any process takes back.                                 *)
Grows ==
  /\ db.tables \subseteq db'.tables /\ db.columns \subseteq db'.columns
  /\ db.version = schemaVersion => db'.version = schemaVersion
  /\ "edges_pair" \in db.indexes => "edges_pair" \in db'.indexes
  /\ db'.by = "none" => db.by = "none" /\ db.indexes \subseteq db'.indexes
  /\ db'.symbols.unique => db.symbols.unique
  /\ db'.fts = "porter" => db.fts = "porter"
  /\ \/ db'.symbols = NoTable
     \/ Range(db'.symbols.cols) = Range(Columns)
     \/ db.symbols # NoTable /\ Range(db.symbols.cols) \subseteq Range(db'.symbols.cols)

LEMMA TablesTyped ==
  /\ NoTable \in Table /\ EmptyTable \in Table
  /\ NoTable.row = << >> /\ EmptyTable.row = << >>
  /\ NoTable.cols = << >> /\ EmptyTable.cols = Columns
  /\ ~NoTable.unique /\ ~EmptyTable.unique
  /\ NoTable # EmptyTable
<1>1. << >> \in Seq(Range(Columns)) /\ << >> \in Seq(Cells)
  BY EmptySeq
<1>2. /\ NoTable \in Table /\ ~NoTable.unique
      /\ NoTable.row = << >> /\ NoTable.cols = << >>
  BY <1>1 DEF NoTable, Table
<1>3. Columns \in Seq(Range(Columns)) /\ Columns # << >>
  <2>1. \A S : "is_generated" \in S /\ "complexity" \in S /\ "importance" \in S /\
               "repo_id" \in S /\ "fields_json" \in S => Columns \in Seq(S)
    BY DEF Columns
  <2>2. Columns # << >>
    BY DEF Columns
  <2>3. QED  BY <2>1, <2>2, ColumnNames
<1>4. /\ EmptyTable \in Table /\ ~EmptyTable.unique
      /\ EmptyTable.row = << >> /\ EmptyTable.cols = Columns
  BY <1>2, <1>3 DEF EmptyTable, Table
<1>5. QED  BY <1>2, <1>3, <1>4

(* A statement that puts something else in one part of the file.           *)
LEMMA VersionPut ==
  ASSUME db \in File, NEW x \in 0 .. schemaVersion, db' = [db EXCEPT !.version = x]
  PROVE  /\ db' \in File /\ db'.version = x
         /\ db'.tables = db.tables
         /\ db'.columns = db.columns
         /\ db'.symbols = db.symbols
         /\ db'.declkey = db.declkey
         /\ db'.indexes = db.indexes
         /\ db'.duplicates = db.duplicates
         /\ db'.fts = db.fts
         /\ db'.by = db.by
  BY DEF File

LEMMA TablesPut ==
  ASSUME db \in File, NEW x \in SUBSET Tables, db' = [db EXCEPT !.tables = x]
  PROVE  /\ db' \in File /\ db'.tables = x
         /\ db'.version = db.version
         /\ db'.columns = db.columns
         /\ db'.symbols = db.symbols
         /\ db'.declkey = db.declkey
         /\ db'.indexes = db.indexes
         /\ db'.duplicates = db.duplicates
         /\ db'.fts = db.fts
         /\ db'.by = db.by
  BY DEF File

LEMMA ColumnsPut ==
  ASSUME db \in File, NEW x \in SUBSET Added, db' = [db EXCEPT !.columns = x]
  PROVE  /\ db' \in File /\ db'.columns = x
         /\ db'.version = db.version
         /\ db'.tables = db.tables
         /\ db'.symbols = db.symbols
         /\ db'.declkey = db.declkey
         /\ db'.indexes = db.indexes
         /\ db'.duplicates = db.duplicates
         /\ db'.fts = db.fts
         /\ db'.by = db.by
  BY DEF File

LEMMA SymbolsPut ==
  ASSUME db \in File, NEW x \in Table, db' = [db EXCEPT !.symbols = x]
  PROVE  /\ db' \in File /\ db'.symbols = x
         /\ db'.version = db.version
         /\ db'.tables = db.tables
         /\ db'.columns = db.columns
         /\ db'.declkey = db.declkey
         /\ db'.indexes = db.indexes
         /\ db'.duplicates = db.duplicates
         /\ db'.fts = db.fts
         /\ db'.by = db.by
  BY DEF File

LEMMA DeclkeyPut ==
  ASSUME db \in File, NEW x \in Table, db' = [db EXCEPT !.declkey = x]
  PROVE  /\ db' \in File /\ db'.declkey = x
         /\ db'.version = db.version
         /\ db'.tables = db.tables
         /\ db'.columns = db.columns
         /\ db'.symbols = db.symbols
         /\ db'.indexes = db.indexes
         /\ db'.duplicates = db.duplicates
         /\ db'.fts = db.fts
         /\ db'.by = db.by
  BY DEF File

LEMMA IndexesPut ==
  ASSUME db \in File, NEW x \in SUBSET Indexes, db' = [db EXCEPT !.indexes = x]
  PROVE  /\ db' \in File /\ db'.indexes = x
         /\ db'.version = db.version
         /\ db'.tables = db.tables
         /\ db'.columns = db.columns
         /\ db'.symbols = db.symbols
         /\ db'.declkey = db.declkey
         /\ db'.duplicates = db.duplicates
         /\ db'.fts = db.fts
         /\ db'.by = db.by
  BY DEF File

LEMMA DuplicatesPut ==
  ASSUME db \in File, NEW x \in BOOLEAN, db' = [db EXCEPT !.duplicates = x]
  PROVE  /\ db' \in File /\ db'.duplicates = x
         /\ db'.version = db.version
         /\ db'.tables = db.tables
         /\ db'.columns = db.columns
         /\ db'.symbols = db.symbols
         /\ db'.declkey = db.declkey
         /\ db'.indexes = db.indexes
         /\ db'.fts = db.fts
         /\ db'.by = db.by
  BY DEF File

LEMMA FtsPut ==
  ASSUME db \in File, NEW x \in {"none", "porter", "empty", "full"}, db' = [db EXCEPT !.fts = x]
  PROVE  /\ db' \in File /\ db'.fts = x
         /\ db'.version = db.version
         /\ db'.tables = db.tables
         /\ db'.columns = db.columns
         /\ db'.symbols = db.symbols
         /\ db'.declkey = db.declkey
         /\ db'.indexes = db.indexes
         /\ db'.duplicates = db.duplicates
         /\ db'.by = db.by
  BY DEF File

LEMMA CurrentVersion == schemaVersion \in 0 .. schemaVersion
  BY DEF schemaVersion

LEMMA LookedForParts ==
  \A c \in LookedFor : IF c[1] = "symbols" THEN c[2] \in Range(Columns) ELSE c \in Added
<1>1. \A c \in Added : c[1] # "symbols"
  BY DEF Added
<1>2. \A x \in Range(Columns) : <<"symbols", x>>[1] = "symbols" /\ <<"symbols", x>>[2] = x
  OBVIOUS
<1>3. QED  BY <1>1, <1>2 DEF LookedFor

LEMMA PlainExecuted ==
  ASSUME db \in File, NEW s, Plain(s), Executes(s), db' = Executed(s),
         s.op \notin {"add_column", "ensure_symbols"}
  PROVE  /\ db' \in File /\ Grows
         /\ db'.by = db.by /\ db'.symbols = db.symbols /\ db'.declkey = db.declkey
         /\ db.indexes \subseteq db'.indexes
         /\ s.op # "set_version" => db'.version = db.version
         /\ s.op \notin {"drop_fts", "create_fts", "fill_fts", "ensure_fts"} => db'.fts = db.fts
<1>1. CASE s.op \in {"create_table", "ensure_table"}
  <2>1. db' = [db EXCEPT !.tables = @ \cup {s.on}] /\ s.on \in Tables
    BY <1>1 DEF Executed, Plain
  <2>2. db.tables \cup {s.on} \in SUBSET Tables
    BY <2>1 DEF File
  <2>3. QED  BY <1>1, <2>1, <2>2, TablesPut DEF Grows
<1>2. CASE s.op \in {"create_index", "ensure_index"}
  <2>1. db' = [db EXCEPT !.indexes = @ \cup {s.on}] /\ s.on \in Indexes
    BY <1>2 DEF Executed, Plain
  <2>2. db.indexes \cup {s.on} \in SUBSET Indexes
    BY <2>1 DEF File
  <2>3. QED  BY <1>2, <2>1, <2>2, IndexesPut DEF Grows
<1>3. CASE s.op = "delete_duplicates"
  <2>1. db' = [db EXCEPT !.duplicates = FALSE]
    BY <1>3 DEF Executed
  <2>2. QED  BY <1>3, <2>1, DuplicatesPut DEF File, Grows
<1>4. CASE s.op = "read_version"
  <2>1. db' = db
    BY <1>4 DEF Executed
  <2>2. QED  BY <1>4, <2>1 DEF Grows
<1>5. CASE s.op = "set_version"
  <2>1. db' = [db EXCEPT !.version = schemaVersion]
    BY <1>5 DEF Executed
  <2>2. QED  BY <1>5, <2>1, CurrentVersion, VersionPut DEF Grows
<1>6. CASE s.op \in {"drop_fts", "create_fts", "fill_fts", "ensure_fts"}
  <2>1. \E x \in {"none", "porter", "empty", "full"} :
           db' = [db EXCEPT !.fts = x] /\ (x = "porter" => db.fts = "porter")
    <3>1. CASE s.op = "drop_fts"
      BY <3>1 DEF Executed
    <3>2. CASE s.op = "create_fts"
      BY <3>2 DEF Executed
    <3>3. CASE s.op = "fill_fts"
      BY <3>3 DEF Executed, File
    <3>4. CASE s.op = "ensure_fts"
      BY <3>4 DEF Executed, File
    <3>5. QED  BY <1>6, <3>1, <3>2, <3>3, <3>4
  <2>2. PICK x \in {"none", "porter", "empty", "full"} :
           db' = [db EXCEPT !.fts = x] /\ (x = "porter" => db.fts = "porter")
    BY <2>1
  <2>3. QED  BY <1>6, <2>2, FtsPut DEF File, Grows
<1>7. QED
  BY <1>1, <1>2, <1>3, <1>4, <1>5, <1>6 DEF Plain, PlainOps, AlwaysOps

LEMMA Appended ==
  ASSUME NEW S, NEW q \in Seq(S), NEW x \in S
  PROVE  /\ Append(q, x) \in Seq(S) /\ Append(q, x) # << >>
         /\ Range(q) \subseteq Range(Append(q, x)) /\ x \in Range(Append(q, x))
<1>1. /\ Append(q, x) \in Seq(S) /\ Len(Append(q, x)) = Len(q) + 1 /\ Len(q) \in Nat
      /\ \A i \in 1 .. Len(q) : Append(q, x)[i] = q[i]
      /\ Append(q, x)[Len(q) + 1] = x
  BY AppendProperties
<1>2. DOMAIN q = 1 .. Len(q) /\ DOMAIN Append(q, x) = 1 .. Len(q) + 1
  BY <1>1, LenProperties
<1>3. 1 .. Len(q) \subseteq 1 .. Len(q) + 1 /\ Len(q) + 1 \in 1 .. Len(q) + 1
  BY <1>1
<1>4. QED  BY <1>1, <1>2, <1>3 DEF Range

(* A column is added at the end, and no row comes or goes.                 *)
LEMMA ColumnExecuted ==
  ASSUME db \in File, NEW s, Plain(s), Executes(s), db' = Executed(s),
         s.op = "add_column"
  PROVE  /\ db' \in File /\ Grows
         /\ db'.by = db.by /\ db'.declkey = db.declkey
         /\ db'.version = db.version /\ db'.fts = db.fts
         /\ db'.indexes = db.indexes /\ db'.symbols.unique = db.symbols.unique
         /\ db'.symbols.row = << >> <=> db.symbols.row = << >>
         /\ db'.symbols = NoTable <=> db.symbols = NoTable
         /\ Range(db.symbols.cols) \subseteq Range(db'.symbols.cols)
         /\ IF s.on[1] = "symbols" THEN s.on[2] \in Range(db'.symbols.cols)
            ELSE s.on \in db'.columns
<1>1. db' = WithColumn(s.on) /\ s.on \in LookedFor
  BY DEF Executed, Plain
<1>2. s.on[1] = "symbols" => db.symbols # NoTable
  BY DEF Executes
<1>3. CASE s.on[1] # "symbols"
  <2>1. s.on \in Added
    BY <1>1, <1>3, LookedForParts
  <2>2. db' = [db EXCEPT !.columns = @ \cup {s.on}] /\ db.columns \cup {s.on} \in SUBSET Added
    BY <1>1, <1>3, <2>1 DEF WithColumn, File
  <2>3. QED  BY <1>3, <2>2, ColumnsPut DEF Grows
<1>4. CASE s.on[1] = "symbols"
  <2>1. s.on[2] \in Range(Columns)
    BY <1>1, <1>4, LookedForParts
  <2> DEFINE t == db.symbols
             cell == IF s.on[2] \in NotNull THEN "default" ELSE "null"
             rows == IF t.row = << >> THEN t.row ELSE Append(t.row, cell)
             new == [cols |-> Append(t.cols, s.on[2]), row |-> rows,
                     unique |-> t.unique, by |-> t.by]
  <2>2. db' = [db EXCEPT !.symbols = new]
    BY <1>1, <1>4 DEF WithColumn
  <2>3. t \in Table /\ t.cols \in Seq(Range(Columns)) /\ t.row \in Seq(Cells)
    BY DEF File, Table
  <2>4. rows \in Seq(Cells) /\ (rows = << >> <=> t.row = << >>)
    <3>1. cell \in Cells
      BY DEF Cells
    <3> HIDE DEF t, cell
    <3>2. QED  BY <2>3, <3>1, Appended
  <2>5. /\ Append(t.cols, s.on[2]) \in Seq(Range(Columns)) /\ Append(t.cols, s.on[2]) # << >>
        /\ Range(t.cols) \subseteq Range(Append(t.cols, s.on[2]))
        /\ s.on[2] \in Range(Append(t.cols, s.on[2]))
    BY <2>1, <2>3, Appended
  <2>6. new.cols = Append(t.cols, s.on[2]) /\ new.row = rows /\ new.unique = t.unique
        /\ new.by = t.by
    OBVIOUS
  <2>7. new \in Table
    BY <2>3, <2>4, <2>5 DEF Table
  <2>8. new # NoTable
    BY <2>5, <2>6, TablesTyped
  <2> HIDE DEF t, new, rows, cell
  <2>9. /\ db' \in File /\ db'.symbols = new
        /\ db'.by = db.by /\ db'.declkey = db.declkey /\ db'.version = db.version
        /\ db'.fts = db.fts /\ db'.indexes = db.indexes /\ db'.tables = db.tables
        /\ db'.columns = db.columns
    BY <2>2, <2>7, SymbolsPut
  <2>10. /\ db'.symbols.unique = db.symbols.unique
         /\ db'.symbols.row = << >> <=> db.symbols.row = << >>
         /\ Range(db.symbols.cols) \subseteq Range(db'.symbols.cols)
         /\ s.on[2] \in Range(db'.symbols.cols)
    BY <2>4, <2>5, <2>6, <2>9 DEF t
  <2>11. db'.symbols # NoTable /\ db.symbols # NoTable
    BY <1>2, <1>4, <2>8, <2>9
  <2>12. Grows
    BY <2>9, <2>10, <2>11 DEF Grows
  <2>13. QED  BY <1>4, <2>9, <2>10, <2>11, <2>12
<1>5. QED  BY <1>3, <1>4

(* The table is made, of all columns, when it is not there.                *)
LEMMA SymbolsEnsured ==
  ASSUME db \in File, NEW s, s.op = "ensure_symbols", db' = Executed(s)
  PROVE  /\ db' \in File /\ Grows
         /\ db'.by = db.by /\ db'.declkey = db.declkey
         /\ db'.version = db.version /\ db'.fts = db.fts /\ db'.indexes = db.indexes
         /\ db'.symbols = IF db.symbols = NoTable THEN EmptyTable ELSE db.symbols
<1>1. CASE db.symbols # NoTable
  <2>1. db' = db
    BY <1>1 DEF Executed
  <2>2. QED  BY <1>1, <2>1 DEF Grows
<1>2. CASE db.symbols = NoTable
  <2>1. db' = [db EXCEPT !.symbols = EmptyTable,
                         !.columns = IF db.by = "none" THEN Added ELSE @]
    BY <1>2 DEF Executed
  <2>2. /\ db' \in File /\ db'.symbols = EmptyTable
        /\ db'.by = db.by /\ db'.declkey = db.declkey /\ db'.version = db.version
        /\ db'.fts = db.fts /\ db'.indexes = db.indexes /\ db'.tables = db.tables
        /\ db'.columns = IF db.by = "none" THEN Added ELSE db.columns
    BY <2>1, TablesTyped DEF File
  <2>3. db.columns \subseteq db'.columns
    BY <2>2 DEF File
  <2>4. Range(db'.symbols.cols) = Range(Columns) /\ ~db'.symbols.unique
    BY <2>2, TablesTyped
  <2>5. Grows
    BY <2>2, <2>3, <2>4 DEF Grows
  <2>6. QED  BY <1>2, <2>2, <2>5
<1>3. QED  BY <1>1, <1>2

(* The four statements that move the rows into a table with another key.   *)
LEMMA CopyCreated ==
  ASSUME db \in File, Executes(Statement("create_copy", "")),
         db' = Executed(Statement("create_copy", ""))
  PROVE  /\ db' \in File /\ Grows
         /\ db.declkey = NoTable /\ db'.declkey = EmptyTable
         /\ db'.symbols = db.symbols /\ db'.by = db.by /\ db'.indexes = db.indexes
         /\ db'.version = db.version /\ db'.fts = db.fts
<1>1. db' = [db EXCEPT !.declkey = EmptyTable] /\ db.declkey = NoTable
  BY DEF Executed, Executes, Statement
<1>2. QED  BY <1>1, TablesTyped, DeclkeyPut DEF Grows

LEMMA RowsCopied ==
  ASSUME db \in File, Executes(Statement("copy_rows", "")),
         db' = Executed(Statement("copy_rows", ""))
  PROVE  /\ db' \in File /\ Grows
         /\ db.declkey # NoTable
         /\ db'.declkey.cols = db.declkey.cols /\ db'.declkey.unique = db.declkey.unique
         /\ db'.declkey.row = db.symbols.row
         /\ db'.symbols = db.symbols /\ db'.by = db.by /\ db'.indexes = db.indexes
         /\ db'.version = db.version /\ db'.fts = db.fts
<1> DEFINE t == db.declkey
           new == [t EXCEPT !.row = db.symbols.row, !.by = db.symbols.by]
<1>1. db' = [db EXCEPT !.declkey = new] /\ db.declkey # NoTable
  BY DEF Executed, Executes, Statement
<1>2. t \in Table /\ db.symbols \in Table
  BY DEF File
<1>3. /\ new \in Table /\ new.cols = t.cols /\ new.unique = t.unique
      /\ new.row = db.symbols.row
  <2> HIDE DEF t
  <2>1. QED  BY <1>2 DEF Table
<1> HIDE DEF new
<1>4. /\ db' \in File /\ db'.declkey = new /\ db'.symbols = db.symbols /\ db'.by = db.by
      /\ db'.indexes = db.indexes /\ db'.version = db.version /\ db'.fts = db.fts
      /\ db'.tables = db.tables /\ db'.columns = db.columns
  BY <1>1, <1>3, DeclkeyPut
<1>5. QED  BY <1>1, <1>3, <1>4 DEF Grows

LEMMA TableDropped ==
  ASSUME db \in File, Executes(Statement("drop_table", "")),
         db' = Executed(Statement("drop_table", "")), db.by # "none"
  PROVE  /\ db' \in File /\ Grows
         /\ db'.symbols = NoTable /\ db'.declkey = db.declkey /\ db'.by = db.by
         /\ db'.version = db.version /\ db'.fts = db.fts
         /\ SymbolIndexes \cap db'.indexes = {}
<1>1. db' = [db EXCEPT !.symbols = NoTable,
                       !.indexes = @ \ {"idx_symbols_decl", "idx_symbols_repo"}]
  BY DEF Executed, Statement
<1>2. /\ db' \in File /\ db'.symbols = NoTable
      /\ db'.indexes = db.indexes \ {"idx_symbols_decl", "idx_symbols_repo"}
      /\ db'.declkey = db.declkey /\ db'.by = db.by
      /\ db'.version = db.version /\ db'.fts = db.fts
      /\ db'.tables = db.tables /\ db'.columns = db.columns
  BY <1>1, TablesTyped DEF File
<1>3. QED  BY <1>2, TablesTyped DEF Grows, SymbolIndexes

LEMMA CopyRenamed ==
  ASSUME db \in File, Executes(Statement("rename_copy", "")),
         db' = Executed(Statement("rename_copy", "")),
         db.declkey.cols = Columns, ~db.declkey.unique
  PROVE  /\ db' \in File /\ Grows
         /\ db.symbols = NoTable /\ db'.symbols = db.declkey /\ db'.declkey = NoTable
         /\ db'.by = db.by /\ db'.indexes = db.indexes
         /\ db'.version = db.version /\ db'.fts = db.fts
<1>1. db' = [db EXCEPT !.symbols = db.declkey, !.declkey = NoTable] /\ db.symbols = NoTable
  BY DEF Executed, Executes, Statement
<1>2. /\ db' \in File /\ db'.symbols = db.declkey /\ db'.declkey = NoTable
      /\ db'.by = db.by /\ db'.indexes = db.indexes
      /\ db'.version = db.version /\ db'.fts = db.fts
      /\ db'.tables = db.tables /\ db'.columns = db.columns
  BY <1>1, TablesTyped DEF File
<1>3. QED  BY <1>1, <1>2 DEF Grows

(* The index written.                                                      *)
LEMMA IndexWritten ==
  ASSUME db \in File, NEW dirty \in BOOLEAN, Writes(dirty),
         db' = [db EXCEPT !.by = "new", !.fts = IF dirty /\ @ = "empty" THEN "full" ELSE @,
                          !.symbols = [@ EXCEPT !.row = db.symbols.cols, !.by = "new"]]
  PROVE  /\ db' \in File /\ Grows
         /\ db'.by = "new" /\ db'.declkey = db.declkey /\ db'.indexes = db.indexes
         /\ db'.symbols # NoTable /\ db'.symbols.row # << >>
         /\ db'.symbols.cols = db.symbols.cols /\ db'.symbols.unique = db.symbols.unique
         /\ db'.version = db.version
         /\ db'.fts = IF dirty /\ db.fts = "empty" THEN "full" ELSE db.fts
<1> DEFINE t == db.symbols
           new == [t EXCEPT !.row = db.symbols.cols, !.by = "new"]
           text == IF dirty /\ db.fts = "empty" THEN "full" ELSE db.fts
<1>1. db' = [db EXCEPT !.by = "new", !.fts = text, !.symbols = new]
  OBVIOUS
<1>2. t \in Table /\ t.cols \in Seq(Range(Columns)) /\ t.cols \in Seq(Cells)
  <2>1. t \in Table /\ t.cols \in Seq(Range(Columns)) /\ Range(Columns) \subseteq Cells
    BY DEF File, Table, Cells
  <2>2. QED  BY <2>1, SeqMonotonic
<1>3. /\ new \in Table /\ new.cols = t.cols /\ new.unique = t.unique /\ new.row = t.cols
  <2> HIDE DEF t
  <2>1. [t EXCEPT !.row = t.cols, !.by = "new"] \in Table
    BY <1>2 DEF Table
  <2>2. QED  BY <1>2, <2>1 DEF Table, t
<1>4. t.cols # << >>
  BY ColumnNames DEF Writes, Range
<1>5. text \in {"none", "porter", "empty", "full"}
  BY DEF File
<1> HIDE DEF t, new, text
<1>6. /\ db' \in File /\ db'.by = "new" /\ db'.fts = text /\ db'.symbols = new
      /\ db'.declkey = db.declkey /\ db'.indexes = db.indexes /\ db'.version = db.version
      /\ db'.tables = db.tables /\ db'.columns = db.columns
  BY <1>1, <1>3, <1>5 DEF File
<1>7. new # NoTable /\ new.row # << >>
  BY <1>3, <1>4, TablesTyped
<1>8. Grows
  <2>1. db.symbols # NoTable
    BY DEF Writes
  <2>2. text = "porter" => db.fts = "porter"
    BY DEF text
  <2>3. QED  BY <1>3, <1>6, <2>1, <2>2 DEF Grows, t
<1>9. QED  BY <1>3, <1>6, <1>7, <1>8 DEF t, text

-----------------------------------------------------------------------------
(* Where the processes are.                                                *)

In(p, g, ks) == Ensuring(p) /\ ~Through(p) /\ Here(p) = g /\ opening[p].stmt \in ks
Copying(p, ks) == In(p, migrateSymbolDeclarationKey, ks)
Indexing(p, ks) == In(p, migrateFileContentFTS, ks)

Place == [at : {"idle", "ensure", "opened"}, how : {"open", "create"},
          stage : Nat, stmt : Nat]

(* A process is at a stage there is, and at a statement of it.             *)
Placed(st) ==
  /\ st \in Place
  /\ st.at = "ensure" => st.stage \in 1 .. Len(Stages(st.how)) + 1
  /\ st.at = "ensure" /\ st.stage > Len(Stages(st.how)) => st.stmt = 0
  /\ st.at = "ensure" /\ ~(st.stage > Len(Stages(st.how))) =>
        st.stmt \in 0 .. Len(Stages(st.how)[st.stage].does)

TypeInv ==
  /\ db \in File
  /\ DOMAIN opening = Openers
  /\ \A p \in Openers : Placed(opening[p])

LEMMA Whereabouts ==
  ASSUME TypeInv, NEW p \in Openers, Ensuring(p), ~Through(p)
  PROVE  /\ opening[p].stage \in 1 .. Len(Stages(opening[p].how))
         /\ Kind(Here(p)) /\ Len(Here(p).does) \in Nat \ {0}
         /\ opening[p].stmt \in 0 .. Len(Here(p).does)
<1>1. Placed(opening[p]) /\ opening[p].at = "ensure"
  BY DEF TypeInv, Ensuring
<1>2. Len(Stages(opening[p].how)) \in Nat /\ ~(opening[p].stage > Len(Stages(opening[p].how)))
  BY StagesOf DEF Through
<1>3. opening[p].stage \in 1 .. Len(Stages(opening[p].how))
  BY <1>1, <1>2 DEF Placed
<1>4. Kind(Here(p))
  BY <1>3, StagesOf DEF Here
<1>5. Len(Here(p).does) \in Nat \ {0}
  BY <1>4, StageLength
<1>6. QED  BY <1>1, <1>2, <1>3, <1>4, <1>5 DEF Placed, Here

(* The other processes stay where they are.                                *)
LEMMA OthersStay ==
  ASSUME TypeInv, NEW p \in Openers, NEW st, Become(p, st),
         NEW q \in Openers, q # p
  PROVE  /\ opening'[q] = opening[q]
         /\ \A g, ks : In(q, g, ks)' <=> In(q, g, ks)
<1>1. opening'[q] = opening[q]
  BY DEF Become, TypeInv
<1>2. QED  BY <1>1 DEF In, Ensuring, Through, Here

LEMMA BecomePlaced ==
  ASSUME TypeInv, NEW p \in Openers, NEW st, Become(p, st), Placed(st), db' \in File
  PROVE  TypeInv'
<1>1. DOMAIN opening' = Openers /\ opening'[p] = st
  BY DEF Become, TypeInv
<1>2. ASSUME NEW q \in Openers PROVE Placed(opening'[q])
  BY <1>1, OthersStay DEF TypeInv
<1>3. QED  BY <1>1, <1>2 DEF TypeInv

LEMMA StartPlaced ==
  /\ Placed(Idle) /\ Placed([Idle EXCEPT !.at = "opened"])
  /\ \A how \in {"open", "create"} : Placed(Start(how))
<1>1. Placed(Idle) /\ Placed([Idle EXCEPT !.at = "opened"])
  BY DEF Idle, Placed, Place
<1>2. ASSUME NEW how \in {"open", "create"} PROVE Placed(Start(how))
  <2>1. Len(Stages(how)) \in Nat \ {0}
    <3>1. CASE how = "create"
      <4>1. Len(Stages(how)) = 26
        BY <3>1, StagesOf
      <4>2. QED  BY <4>1
    <3>2. CASE how # "create"
      <4>1. Len(Stages(how)) = Len(ensureSchema)
        BY <3>2, StagesOf
      <4>2. QED  BY <4>1, Lengths
    <3>3. QED  BY <3>1, <3>2
  <2>2. Kind(Stages(how)[1])
    <3>1. 1 \in 1 .. Len(Stages(how))
      BY <2>1
    <3>2. \A i \in 1 .. Len(Stages(how)) : Kind(Stages(how)[i])
      BY StagesOf
    <3>3. QED  BY <3>1, <3>2
  <2>3. Len(Stages(how)[1].does) \in Nat
    BY <2>2, StageLength
  <2>4. QED  BY <2>1, <2>3 DEF Start, Placed, Place
<1>3. QED  BY <1>1, <1>2

(* Taking the next stage, or the next statement, or the first.             *)
LEMMA NextPlaced ==
  ASSUME TypeInv, NEW p \in Openers, Ensuring(p), ~Through(p)
  PROVE  /\ Placed([opening[p] EXCEPT !.stage = @ + 1, !.stmt = 0])
         /\ opening[p].stmt = 0 => /\ Placed([opening[p] EXCEPT !.stmt = 1])
                                   /\ Placed([opening[p] EXCEPT !.stage = @ + 1])
         /\ opening[p].stmt < Len(Here(p).does) => Placed([opening[p] EXCEPT !.stmt = @ + 1])
<1> DEFINE o == opening[p]
           next == [at |-> "ensure", how |-> o.how, stage |-> o.stage + 1, stmt |-> 0]
<1>1. /\ o \in Place /\ o.at = "ensure" /\ o.how \in {"open", "create"}
      /\ o.stage \in 1 .. Len(Stages(o.how)) /\ Len(Stages(o.how)) \in Nat
      /\ Here(p) = Stages(o.how)[o.stage]
      /\ Len(Here(p).does) \in Nat \ {0} /\ o.stmt \in 0 .. Len(Here(p).does)
  BY Whereabouts, StagesOf DEF TypeInv, Placed, Place, Ensuring, Here
<1> HIDE DEF o
<1>2. ASSUME NEW st \in Place, st.at = "ensure", st.how = o.how,
             st.stage = o.stage + 1, st.stmt = 0
      PROVE  Placed(st)
  <2>1. st.stage \in 1 .. Len(Stages(st.how)) + 1
    BY <1>1, <1>2
  <2>2. ~(st.stage > Len(Stages(st.how))) => Len(Stages(st.how)[st.stage].does) \in Nat
    <3>1. st.stage \in 1 .. Len(Stages(st.how)) => Kind(Stages(st.how)[st.stage])
      BY StagesOf
    <3>2. ~(st.stage > Len(Stages(st.how))) => st.stage \in 1 .. Len(Stages(st.how))
      BY <1>1, <1>2, <2>1
    <3>3. QED  BY <3>1, <3>2, StageLength
  <2>3. QED  BY <1>2, <2>1, <2>2 DEF Placed
<1>3. ASSUME NEW st \in Place, st.at = "ensure", st.how = o.how,
             st.stage = o.stage, st.stmt \in 0 .. Len(Here(p).does)
      PROVE  Placed(st)
  BY <1>1, <1>3 DEF Placed
<1>4. LET st == [o EXCEPT !.stage = @ + 1, !.stmt = 0] IN
      st \in Place /\ st.at = "ensure" /\ st.how = o.how /\ st.stage = o.stage + 1 /\ st.stmt = 0
  <2> DEFINE k == o.stage + 1
  <2>1. o \in Place /\ k \in Nat
    BY <1>1 DEF Place
  <2> HIDE DEF k
  <2>2. LET st == [o EXCEPT !.stage = k, !.stmt = 0] IN
        st \in Place /\ st.at = o.at /\ st.how = o.how /\ st.stage = k /\ st.stmt = 0
    BY <2>1 DEF Place
  <2>3. QED  BY <1>1, <2>2 DEF k
<1>5. o.stmt = 0 =>
      LET st == [o EXCEPT !.stage = @ + 1] IN
      st \in Place /\ st.at = "ensure" /\ st.how = o.how /\ st.stage = o.stage + 1 /\ st.stmt = 0
  BY <1>1 DEF Place
<1>6. LET st == [o EXCEPT !.stmt = 1] IN
      st \in Place /\ st.at = "ensure" /\ st.how = o.how /\ st.stage = o.stage /\ st.stmt = 1
  BY <1>1 DEF Place
<1>7. LET st == [o EXCEPT !.stmt = @ + 1] IN
      st \in Place /\ st.at = "ensure" /\ st.how = o.how /\ st.stage = o.stage
      /\ st.stmt = o.stmt + 1
  <2>1. o \in Place /\ o.stmt + 1 \in Nat
    BY <1>1 DEF Place
  <2>2. QED  BY <1>1, <2>1 DEF Place
<1>8. /\ Placed([o EXCEPT !.stage = @ + 1, !.stmt = 0])
      /\ o.stmt = 0 => Placed([o EXCEPT !.stage = @ + 1])
  BY <1>2, <1>4, <1>5
<1>9. Placed([o EXCEPT !.stmt = 1])
  <2>1. 1 \in 0 .. Len(Here(p).does)
    BY <1>1
  <2>2. QED  BY <2>1, <1>3, <1>6
<1>10. o.stmt < Len(Here(p).does) => Placed([o EXCEPT !.stmt = @ + 1])
  <2>1. o.stmt < Len(Here(p).does) => o.stmt + 1 \in 0 .. Len(Here(p).does)
    BY <1>1
  <2>2. QED  BY <2>1, <1>3, <1>7
<1>11. QED  BY <1>8, <1>9, <1>10 DEF o

-----------------------------------------------------------------------------
(* What a step of a process is.                                            *)

(* It comes to a place where it is at no statement, and the file stays.    *)
Quiet(p) ==
  /\ db' = db
  /\ \E st : Become(p, st) /\ Placed(st) /\ (st.at # "ensure" \/ st.stmt = 0)

(* It has found a stage needed.                                            *)
Finds(p) ==
  /\ db' = db /\ UNCHANGED torn
  /\ Ensuring(p) /\ ~Through(p) /\ opening[p].stmt = 0 /\ Needed(Here(p))
  /\ Become(p, [opening[p] EXCEPT !.stmt = 1])

(* It writes the index.                                                    *)
Commits(p, dirty) ==
  /\ Through(p) /\ opening[p].how = "create" /\ Writes(dirty)
  /\ dirty \/ db.by # "none"
  /\ db' = [db EXCEPT !.by = "new", !.fts = IF dirty /\ @ = "empty" THEN "full" ELSE @,
                      !.symbols = [@ EXCEPT !.row = db.symbols.cols, !.by = "new"]]
  /\ Become(p, IF p \in Servers THEN [Idle EXCEPT !.at = "opened"] ELSE Idle)
  /\ UNCHANGED torn

LEMMA OpenedPlaced ==
  /\ Idle.at = "idle"
  /\ [Idle EXCEPT !.at = "opened"].at = "opened"
  /\ \A how : Start(how).at = "ensure" /\ Start(how).stmt = 0
              /\ Start(how).stage = 1 /\ Start(how).how = how
  BY DEF Idle, Start

LEMMA GiveUpQuiet ==
  ASSUME TypeInv, NEW p \in Openers, GiveUp(p), db' = db
  PROVE  Quiet(p)
<1>1. \/ Become(p, Start("create"))
      \/ Become(p, Idle)
  BY DEF GiveUp
<1>2. QED  BY <1>1, StartPlaced, OpenedPlaced DEF Quiet

LEMMA Steps ==
  ASSUME TypeInv, NEW p \in Openers,
         Open(p) \/ Create(p) \/ Progress(p) \/ Close(p) \/ Kill(p)
  PROVE  Quiet(p) \/ Finds(p) \/ Execute(p) \/ \E dirty \in BOOLEAN : Commits(p, dirty)
<1>1. CASE Open(p)
  <2>1. \E how \in {"open", "create"} : Become(p, Start(how)) /\ db' = db
    BY <1>1 DEF Open
  <2>2. QED  BY <2>1, StartPlaced, OpenedPlaced DEF Quiet
<1>2. CASE Create(p)
  BY <1>2, StartPlaced, OpenedPlaced DEF Create, Quiet
<1>3. CASE Look(p)
  <2>1. CASE Needed(Here(p))
    BY <1>3, <2>1 DEF Look, Finds
  <2>2. CASE ~Needed(Here(p))
    <3> DEFINE st == [opening[p] EXCEPT !.stage = @ + 1]
    <3>1. Become(p, st) /\ db' = db /\ Placed(st)
      BY <1>3, <2>2, NextPlaced DEF Look
    <3>2. st.stmt = 0
      BY <1>3 DEF Look, TypeInv, Placed, Place
    <3>3. QED  BY <3>1, <3>2 DEF Quiet
  <2>3. QED  BY <2>1, <2>2
<1>4. CASE Fails(p)
  BY <1>4, GiveUpQuiet DEF Fails
<1>5. CASE Opened(p) \/ Close(p) \/ Kill(p)
  BY <1>5, StartPlaced, OpenedPlaced DEF Opened, Close, Kill, Quiet
<1>6. ASSUME NEW dirty \in BOOLEAN, WriteIndex(p, dirty)
      PROVE  Quiet(p) \/ Commits(p, dirty)
  <2>1. CASE Writes(dirty)
    BY <1>6, <2>1 DEF WriteIndex, Commits
  <2>2. CASE ~Writes(dirty)
    BY <1>6, <2>2, StartPlaced, OpenedPlaced DEF WriteIndex, Quiet
  <2>3. QED  BY <2>1, <2>2
<1>7. QED  BY <1>1, <1>2, <1>3, <1>4, <1>5, <1>6 DEF Progress

(* Executing a statement.                                                  *)
Moves(p) == [opening[p] EXCEPT !.stmt = @ + 1]
Ends(p) == [opening[p] EXCEPT !.stage = @ + 1, !.stmt = 0]

LEMMA ExecuteStep ==
  ASSUME TypeInv, NEW p \in Openers, Execute(p)
  PROVE  LET s == Here(p).does[opening[p].stmt] IN
         /\ Ensuring(p) /\ ~Through(p) /\ Kind(Here(p))
         /\ opening[p].stmt \in 1 .. Len(Here(p).does) /\ Len(Here(p).does) \in Nat
         /\ Executes(s) /\ db' = Executed(s) /\ UNCHANGED torn
         /\ IF opening[p].stmt < Len(Here(p).does)
            THEN Become(p, Moves(p)) /\ Placed(Moves(p))
            ELSE Become(p, Ends(p)) /\ Placed(Ends(p))
         /\ Here(p) # migrateSymbolDeclarationKey => Plain(s)
<1>1. /\ Ensuring(p) /\ ~Through(p) /\ Kind(Here(p)) /\ opening[p].stmt > 0
      /\ opening[p].stmt \in 0 .. Len(Here(p).does) /\ Len(Here(p).does) \in Nat \ {0}
  BY Whereabouts DEF Execute
<1>2. opening[p].stmt \in 1 .. Len(Here(p).does)
  BY <1>1
<1>3. Here(p) # migrateSymbolDeclarationKey => Plain(Here(p).does[opening[p].stmt])
  BY <1>1, <1>2, KindPlain
<1>4. QED  BY <1>1, <1>2, <1>3, NextPlaced DEF Execute, Moves, Ends

(* Where a process is after each.                                          *)
LEMMA NowhereAfterQuiet ==
  ASSUME TypeInv, NEW p \in Openers, Quiet(p)
  PROVE  \A g, ks : 0 \notin ks => ~In(p, g, ks)'
<1>1. PICK st : Become(p, st) /\ (st.at # "ensure" \/ st.stmt = 0)
  BY DEF Quiet
<1>2. opening'[p] = st
  BY <1>1 DEF Become, TypeInv
<1>3. QED  BY <1>1, <1>2 DEF In, Ensuring

LEMMA AfterEnds ==
  ASSUME TypeInv, NEW p \in Openers, Become(p, Ends(p))
  PROVE  \A g, ks : 0 \notin ks => ~In(p, g, ks)'
<1>1. opening'[p] = Ends(p) /\ Ends(p).stmt = 0
  BY DEF Become, TypeInv, Ends, Placed, Place
<1>2. QED  BY <1>1 DEF In

LEMMA AfterMoves ==
  ASSUME TypeInv, NEW p \in Openers, Ensuring(p), ~Through(p), Become(p, Moves(p))
  PROVE  \A g, ks : In(p, g, ks)' <=> Here(p) = g /\ opening[p].stmt + 1 \in ks
<1>1. /\ opening'[p].at = opening[p].at /\ opening'[p].how = opening[p].how
      /\ opening'[p].stage = opening[p].stage /\ opening'[p].stmt = opening[p].stmt + 1
  BY DEF Become, TypeInv, Moves, Placed, Place
<1>2. QED  BY <1>1 DEF In, Ensuring, Through, Here

LEMMA AfterFinds ==
  ASSUME TypeInv, NEW p \in Openers, Finds(p)
  PROVE  \A g, ks : In(p, g, ks)' <=> Here(p) = g /\ 1 \in ks
<1>1. /\ opening'[p].at = opening[p].at /\ opening'[p].how = opening[p].how
      /\ opening'[p].stage = opening[p].stage /\ opening'[p].stmt = 1
  BY DEF Finds, Become, TypeInv, Placed, Place
<1>2. QED  BY <1>1 DEF Finds, In, Ensuring, Through, Here

LEMMA AfterCommits ==
  ASSUME TypeInv, NEW p \in Openers, NEW dirty, Commits(p, dirty)
  PROVE  \A g, ks : ~In(p, g, ks)'
<1>1. opening'[p].at # "ensure"
  BY OpenedPlaced DEF Commits, Become, TypeInv
<1>2. QED  BY <1>1 DEF In, Ensuring

-----------------------------------------------------------------------------
(* Copying the table symbols.                                              *)
Said(p) == Here(p).does[opening[p].stmt]

(* A statement that moves no rows from one table to another.               *)
LEMMA StatementsOfKey ==
  ASSUME TypeInv, NEW p \in Openers, Ensuring(p), ~Through(p),
         Here(p) = migrateSymbolDeclarationKey, opening[p].stmt > 0
  PROVE  /\ opening[p].stmt \in 1 .. 6 /\ Len(Here(p).does) = 6
         /\ ~Copying(p, 1 .. 4) => opening[p].stmt \in {5, 6} /\ Plain(Said(p)) /\ Said(p).op = "create_index"
<1>1. Len(Here(p).does) = 6
  BY KeyLength
<1>2. opening[p].stmt \in 1 .. 6
  <2>1. opening[p].stmt \in 0 .. Len(Here(p).does)
    BY Whereabouts
  <2>2. \A k \in 0 .. 6 : k > 0 => k \in 1 .. 6
    OBVIOUS
  <2>3. QED  BY <1>1, <2>1, <2>2
<1>3. ASSUME ~Copying(p, 1 .. 4) PROVE opening[p].stmt \in {5, 6}
  BY <1>2, <1>3 DEF Copying, In
<1>4. /\ Plain(migrateSymbolDeclarationKey.does[5]) /\ Plain(migrateSymbolDeclarationKey.does[6])
      /\ migrateSymbolDeclarationKey.does[5].op = "create_index"
      /\ migrateSymbolDeclarationKey.does[6].op = "create_index"
  <2>1. {"idx_symbols_repo", "idx_symbols_decl"} \subseteq Indexes
    BY DEF Indexes
  <2>2. \A on : Statement("create_index", on).op = "create_index"
    BY DEF Statement
  <2>3. QED  BY <2>1, <2>2, KeyStage, PlainStatement
<1>5. QED  BY <1>1, <1>2, <1>3, <1>4 DEF Said

LEMMA PlainStep ==
  ASSUME TypeInv, NEW p \in Openers, Execute(p), ~Copying(p, 1 .. 4)
  PROVE  /\ Plain(Said(p)) /\ Executes(Said(p)) /\ db' = Executed(Said(p))
         /\ db' \in File /\ Grows
         /\ db'.by = db.by /\ db'.declkey = db.declkey /\ db.indexes \subseteq db'.indexes
         /\ db'.symbols.row = << >> <=> db.symbols.row = << >>
         /\ db'.symbols.unique <=> db.symbols.unique
         /\ db.symbols # NoTable => db'.symbols # NoTable
         /\ Said(p).op # "set_version" => db'.version = db.version
         /\ Said(p).op \notin {"drop_fts", "create_fts", "fill_fts", "ensure_fts"} =>
               db'.fts = db.fts
<1>1. Executes(Said(p)) /\ db' = Executed(Said(p)) /\ db \in File
  BY ExecuteStep DEF Said, TypeInv
<1>2. Plain(Said(p))
  <2>1. CASE Here(p) = migrateSymbolDeclarationKey
    BY <2>1, StatementsOfKey DEF Execute
  <2>2. CASE Here(p) # migrateSymbolDeclarationKey
    BY <2>2, ExecuteStep DEF Said
  <2>3. QED  BY <2>1, <2>2
<1>3. CASE Said(p).op = "add_column"
  BY <1>1, <1>2, <1>3, ColumnExecuted
<1>4. CASE Said(p).op = "ensure_symbols"
  BY <1>1, <1>2, <1>4, SymbolsEnsured, TablesTyped
<1>5. CASE Said(p).op \notin {"add_column", "ensure_symbols"}
  BY <1>1, <1>2, <1>5, PlainExecuted
<1>6. QED  BY <1>1, <1>2, <1>3, <1>4, <1>5

LEMMA AfterPlain ==
  ASSUME TypeInv, NEW p \in Openers, Execute(p), ~Copying(p, 1 .. 4)
  PROVE  \A ks : 0 \notin ks /\ Copying(p, ks)' => Copying(p, {5}) /\ 6 \in ks
<1>1. /\ Ensuring(p) /\ ~Through(p) /\ opening[p].stmt > 0
      /\ Become(p, Moves(p)) \/ Become(p, Ends(p))
  BY ExecuteStep DEF Execute
<1>2. SUFFICES ASSUME NEW ks, 0 \notin ks, Copying(p, ks)'
               PROVE  Copying(p, {5}) /\ 6 \in ks
  OBVIOUS
<1>3. /\ Become(p, Moves(p))
      /\ Here(p) = migrateSymbolDeclarationKey /\ opening[p].stmt + 1 \in ks
  <2>1. Become(p, Moves(p))
    BY <1>1, <1>2, AfterEnds DEF Copying
  <2>2. QED  BY <1>1, <1>2, <2>1, AfterMoves DEF Copying
<1>4. opening[p].stmt \in {5, 6} /\ Len(Here(p).does) = 6
  BY <1>1, <1>3, StatementsOfKey
<1>5. opening[p].stmt # 6
  <2>1. opening[p].stmt = 6 => Become(p, Ends(p))
    <3>1. opening[p].stmt = 6 => ~(opening[p].stmt < Len(Here(p).does))
      BY <1>4
    <3>2. QED  BY <3>1, ExecuteStep
  <2>2. QED  BY <1>2, <2>1, AfterEnds DEF Copying
<1>6. opening[p].stmt = 5 /\ 6 \in ks
  <2>1. opening[p].stmt = 5
    BY <1>4, <1>5
  <2>2. 5 + 1 = 6
    OBVIOUS
  <2>3. QED  BY <1>3, <2>1, <2>2
<1>7. Copying(p, {5})
  BY <1>1, <1>3, <1>6 DEF Copying, In
<1>8. QED  BY <1>6, <1>7

(* The rows are somewhere.  Only an index that was written has the old key, *)
(* and one process at a time copies it: the copy is empty until the rows    *)
(* are copied, and has them from then on.                                   *)
RowsInv ==
  /\ db.symbols.unique => db.by # "none"
  /\ ~db.declkey.unique /\ (db.declkey # NoTable => db.declkey.cols = Columns)
  /\ db.symbols # NoTable => {"complexity", "importance"} \subseteq Range(db.symbols.cols)
  /\ \A p \in Openers : Copying(p, 1 .. 6) => db.by # "none"
  /\ \A p, q \in Openers : Copying(p, 2 .. 4) /\ Copying(q, 2 .. 4) => p = q
  /\ \A p \in Openers : Copying(p, 2 .. 4) => db.declkey # NoTable
  /\ \A p \in Openers : Copying(p, {2}) => db.declkey.row = << >>
  /\ \A p \in Openers : Copying(p, {3, 4}) => db.declkey.row # << >>
  /\ RowsSurvive

LEMMA CopyingMore ==
  ASSUME NEW p
  PROVE  /\ Copying(p, {2}) \/ Copying(p, {3, 4}) => Copying(p, 2 .. 4)
         /\ Copying(p, 2 .. 4) => Copying(p, 1 .. 6)
         /\ Copying(p, {5}) => Copying(p, 1 .. 6)
         /\ Copying(p, {1}) \/ Copying(p, {2}) \/ Copying(p, {3}) \/ Copying(p, {4}) <=> Copying(p, 1 .. 4)
         /\ Copying(p, {3}) \/ Copying(p, {4}) => Copying(p, {3, 4})
         /\ Copying(p, 1 .. 4) => Copying(p, 1 .. 6)
         /\ 0 \notin 1 .. 4 /\ 0 \notin 2 .. 4 /\ 0 \notin 1 .. 6
         /\ 1 \notin 2 .. 4 /\ 6 \notin 2 .. 4 /\ 6 \notin 1 .. 4
<1>1. {2} \cup {3, 4} \subseteq 2 .. 4 /\ 2 .. 4 \subseteq 1 .. 6 /\ {5} \subseteq 1 .. 6
  OBVIOUS
<1>2. 1 .. 4 = {1, 2, 3, 4} /\ 1 .. 4 \subseteq 1 .. 6
  OBVIOUS
<1>3. QED  BY <1>1, <1>2 DEF Copying, In

LEMMA ColumnsOfSymbols ==
  {"complexity", "importance"} \subseteq Range(Columns)
  BY ColumnNames

(* The process that moves is not where the rows are copied.                *)
LEMMA RowsElsewhere ==
  ASSUME TypeInv, RowsInv, NEW p \in Openers, NEW st, Become(p, st), Grows,
         db'.declkey = db.declkey,
         db.symbols.row # << >> => db'.symbols.row # << >>,
         db.by = "none" /\ db'.by # "none" => db'.symbols.row # << >>,
         ~Copying(p, 2 .. 4)',
         Copying(p, 1 .. 6)' => db'.by # "none"
  PROVE  RowsInv'
<1>1. \A q \in Openers : q # p => \A ks : Copying(q, ks)' <=> Copying(q, ks)
  BY OthersStay DEF Copying
<1>2. db.by # "none" => db'.by # "none"
  BY DEF Grows
<1>3. /\ ~Copying(p, {2})' /\ ~Copying(p, {3, 4})'
  <2>1. {2} \cup {3, 4} \subseteq 2 .. 4
    OBVIOUS
  <2>2. QED  BY <2>1 DEF Copying, In
<1>4. db'.symbols.unique => db'.by # "none"
  BY <1>2 DEF Grows, RowsInv
<1>5. ~db'.declkey.unique /\ (db'.declkey # NoTable => db'.declkey.cols = Columns)
  BY DEF RowsInv
<1>6. db'.symbols # NoTable => {"complexity", "importance"} \subseteq Range(db'.symbols.cols)
  BY ColumnsOfSymbols DEF Grows, RowsInv
<1>7. ASSUME NEW q \in Openers, Copying(q, 1 .. 6)' PROVE db'.by # "none"
  BY <1>1, <1>2, <1>7 DEF RowsInv
<1>8. ASSUME NEW q \in Openers, NEW r \in Openers, Copying(q, 2 .. 4)', Copying(r, 2 .. 4)'
      PROVE  q = r
  BY <1>1, <1>8 DEF RowsInv
<1>9. ASSUME NEW q \in Openers PROVE /\ Copying(q, 2 .. 4)' => db'.declkey # NoTable
                                     /\ Copying(q, {2})' => db'.declkey.row = << >>
                                     /\ Copying(q, {3, 4})' => db'.declkey.row # << >>
  BY <1>1, <1>3 DEF RowsInv
<1>10. RowsSurvive'
  BY DEF RowsInv, RowsSurvive
<1>11. QED  BY <1>4, <1>5, <1>6, <1>7, <1>8, <1>9, <1>10 DEF RowsInv

(* The steps that copy nothing.                                            *)
LEMMA RowsQuiet ==
  ASSUME TypeInv, RowsInv, NEW p \in Openers, Quiet(p)
  PROVE  RowsInv'
<1>1. PICK st : Become(p, st) /\ db' = db
  BY DEF Quiet
<1>2. ~Copying(p, 2 .. 4)' /\ ~Copying(p, 1 .. 6)'
  BY NowhereAfterQuiet, CopyingMore DEF Copying
<1>3. Grows
  BY <1>1 DEF Grows
<1>4. QED  BY <1>1, <1>2, <1>3, RowsElsewhere

LEMMA RowsFinds ==
  ASSUME TypeInv, RowsInv, NEW p \in Openers, Finds(p)
  PROVE  RowsInv'
<1>1. db' = db /\ Become(p, [opening[p] EXCEPT !.stmt = 1]) /\ Needed(Here(p))
  BY DEF Finds
<1>2. ~Copying(p, 2 .. 4)'
  BY AfterFinds, CopyingMore DEF Copying
<1>3. Copying(p, 1 .. 6)' => Here(p) = migrateSymbolDeclarationKey
  BY AfterFinds DEF Copying
<1>4. Here(p) = migrateSymbolDeclarationKey => db.symbols.unique
  BY <1>1, KeyStage DEF Needed
<1>5. Grows
  BY <1>1 DEF Grows
<1>6. QED  BY <1>1, <1>2, <1>3, <1>4, <1>5, RowsElsewhere DEF RowsInv

LEMMA RowsPlain ==
  ASSUME TypeInv, RowsInv, NEW p \in Openers, Execute(p), ~Copying(p, 1 .. 4)
  PROVE  RowsInv'
<1>1. \E st : Become(p, st)
  BY ExecuteStep
<1>2. ~Copying(p, 2 .. 4)' /\ (Copying(p, 1 .. 6)' => db.by # "none")
  BY AfterPlain, CopyingMore DEF RowsInv
<1>3. QED  BY <1>1, <1>2, PlainStep, RowsElsewhere

LEMMA RowsCommits ==
  ASSUME TypeInv, RowsInv, NEW p \in Openers, NEW dirty \in BOOLEAN, Commits(p, dirty)
  PROVE  RowsInv'
<1>1. \E st : Become(p, st)
  BY DEF Commits
<1>2. ~Copying(p, 2 .. 4)' /\ ~Copying(p, 1 .. 6)'
  BY AfterCommits DEF Copying
<1>3. Grows /\ db'.declkey = db.declkey /\ db'.symbols.row # << >>
  BY IndexWritten DEF Commits, TypeInv
<1>4. QED  BY <1>1, <1>2, <1>3, RowsElsewhere

(* The steps that copy: each goes on to the next statement.                *)
LEMMA CopyStep ==
  ASSUME TypeInv, NEW p \in Openers, NEW k \in 1 .. 4, Copying(p, {k}), Execute(p)
  PROVE  /\ opening[p].stmt = k /\ Said(p) = migrateSymbolDeclarationKey.does[k]
         /\ Executes(Said(p)) /\ db' = Executed(Said(p))
         /\ Become(p, Moves(p)) /\ Placed(Moves(p)) /\ UNCHANGED torn
         /\ \A ks : Copying(p, ks)' <=> k + 1 \in ks
<1>1. /\ Ensuring(p) /\ ~Through(p) /\ Here(p) = migrateSymbolDeclarationKey
      /\ opening[p].stmt = k
  BY DEF Copying, In
<1>2. opening[p].stmt < Len(Here(p).does)
  BY <1>1, KeyLength
<1>3. Become(p, Moves(p)) /\ Placed(Moves(p)) /\ UNCHANGED torn
  BY <1>2, ExecuteStep
<1>4. Executes(Said(p)) /\ db' = Executed(Said(p))
  BY ExecuteStep DEF Said
<1>5. \A ks : Copying(p, ks)' <=> k + 1 \in ks
  BY <1>1, <1>3, AfterMoves DEF Copying
<1>6. QED  BY <1>1, <1>3, <1>4, <1>5 DEF Said

LEMMA RowsCreateCopy ==
  ASSUME TypeInv, RowsInv, NEW p \in Openers, Copying(p, {1}), Execute(p)
  PROVE  RowsInv'
<1>1. /\ Said(p) = Statement("create_copy", "") /\ Executes(Said(p)) /\ db' = Executed(Said(p))
      /\ Become(p, Moves(p)) /\ \A ks : Copying(p, ks)' <=> 2 \in ks
  <2>1. 1 \in 1 .. 4 /\ 1 + 1 = 2
    OBVIOUS
  <2>2. /\ Said(p) = migrateSymbolDeclarationKey.does[1] /\ Executes(Said(p))
        /\ db' = Executed(Said(p)) /\ Become(p, Moves(p))
        /\ \A ks : Copying(p, ks)' <=> 1 + 1 \in ks
    BY <2>1, CopyStep
  <2>3. \A ks : Copying(p, ks)' <=> 2 \in ks
    BY <2>1, <2>2
  <2>4. QED  BY <2>2, <2>3, KeyStage
<1>2. /\ Grows /\ db.declkey = NoTable /\ db'.declkey = EmptyTable
      /\ db'.symbols = db.symbols /\ db'.by = db.by
  BY <1>1, CopyCreated DEF TypeInv
<1>3. \A q \in Openers : q # p => \A ks : Copying(q, ks)' <=> Copying(q, ks)
  BY <1>1, OthersStay DEF Copying
<1>4. \A q \in Openers : ~Copying(q, 2 .. 4) /\ ~Copying(q, {2}) /\ ~Copying(q, {3, 4})
  BY <1>2, CopyingMore DEF RowsInv
<1>5. db.by # "none"
  BY CopyingMore DEF RowsInv
<1>6. ~db'.declkey.unique /\ db'.declkey.cols = Columns /\ db'.declkey # NoTable
      /\ db'.declkey.row = << >>
  BY <1>2, TablesTyped
<1>7. \A q \in Openers : Copying(q, 2 .. 4)' => q = p
  BY <1>3, <1>4
<1>8. \A q \in Openers : ~Copying(q, {3, 4})'
  <2>1. 2 \notin {3, 4}
    OBVIOUS
  <2>2. QED  BY <1>1, <1>3, <1>4, <2>1
<1>9. RowsSurvive'
  BY <1>2, <1>5, TablesTyped DEF RowsInv, RowsSurvive
<1>10. /\ db'.symbols.unique => db'.by # "none"
       /\ db'.symbols # NoTable => {"complexity", "importance"} \subseteq Range(db'.symbols.cols)
       /\ \A q \in Openers : Copying(q, 1 .. 6)' => db'.by # "none"
  BY <1>2, <1>5 DEF RowsInv
<1>11. QED  BY <1>6, <1>7, <1>8, <1>9, <1>10 DEF RowsInv

LEMMA RowsCopyRows ==
  ASSUME TypeInv, RowsInv, NEW p \in Openers, Copying(p, {2}), Execute(p)
  PROVE  RowsInv'
<1>1. /\ Said(p) = Statement("copy_rows", "") /\ Executes(Said(p)) /\ db' = Executed(Said(p))
      /\ Become(p, Moves(p)) /\ \A ks : Copying(p, ks)' <=> 3 \in ks
  <2>1. 2 \in 1 .. 4 /\ 2 + 1 = 3
    OBVIOUS
  <2>2. /\ Said(p) = migrateSymbolDeclarationKey.does[2] /\ Executes(Said(p))
        /\ db' = Executed(Said(p)) /\ Become(p, Moves(p))
        /\ \A ks : Copying(p, ks)' <=> 2 + 1 \in ks
    BY <2>1, CopyStep
  <2>3. \A ks : Copying(p, ks)' <=> 3 \in ks
    BY <2>1, <2>2
  <2>4. QED  BY <2>2, <2>3, KeyStage
<1>2. /\ Grows /\ db.declkey # NoTable
      /\ db'.declkey.cols = db.declkey.cols /\ db'.declkey.unique = db.declkey.unique
      /\ db'.declkey.row = db.symbols.row
      /\ db'.symbols = db.symbols /\ db'.by = db.by
  BY <1>1, RowsCopied DEF TypeInv
<1>3. \A q \in Openers : q # p => \A ks : Copying(q, ks)' <=> Copying(q, ks)
  BY <1>1, OthersStay DEF Copying
<1>4. Copying(p, 2 .. 4) /\ \A q \in Openers : Copying(q, 2 .. 4) => q = p
  BY CopyingMore DEF RowsInv
<1>5. db.by # "none" /\ db.declkey.row = << >>
  BY CopyingMore DEF RowsInv
<1>6. db'.symbols.row # << >> /\ db'.declkey.row # << >>
  BY <1>2, <1>5 DEF RowsInv, RowsSurvive
<1>7. db'.declkey.cols = Columns /\ ~db'.declkey.unique
  BY <1>2 DEF RowsInv
<1>8. db'.declkey # NoTable
  BY <1>6, TablesTyped
<1>9. \A q \in Openers : Copying(q, 2 .. 4)' => q = p
  BY <1>3, <1>4
<1>10. \A q \in Openers : ~Copying(q, {2})'
  <2>1. 3 \notin {2}
    OBVIOUS
  <2>2. \A q \in Openers : Copying(q, {2}) => q = p
    BY <1>4, CopyingMore
  <2>3. QED  BY <1>1, <1>3, <2>1, <2>2
<1>11. /\ db'.symbols.unique => db'.by # "none"
       /\ db'.symbols # NoTable => {"complexity", "importance"} \subseteq Range(db'.symbols.cols)
       /\ \A q \in Openers : Copying(q, 1 .. 6)' => db'.by # "none"
       /\ RowsSurvive'
  BY <1>2, <1>5, <1>6 DEF RowsInv, RowsSurvive
<1>12. QED  BY <1>6, <1>7, <1>8, <1>9, <1>10, <1>11 DEF RowsInv

LEMMA RowsDropTable ==
  ASSUME TypeInv, RowsInv, NEW p \in Openers, Copying(p, {3}), Execute(p)
  PROVE  RowsInv'
<1>1. /\ Said(p) = Statement("drop_table", "") /\ Executes(Said(p)) /\ db' = Executed(Said(p))
      /\ Become(p, Moves(p)) /\ \A ks : Copying(p, ks)' <=> 4 \in ks
  <2>1. 3 \in 1 .. 4 /\ 3 + 1 = 4
    OBVIOUS
  <2>2. /\ Said(p) = migrateSymbolDeclarationKey.does[3] /\ Executes(Said(p))
        /\ db' = Executed(Said(p)) /\ Become(p, Moves(p))
        /\ \A ks : Copying(p, ks)' <=> 3 + 1 \in ks
    BY <2>1, CopyStep
  <2>3. \A ks : Copying(p, ks)' <=> 4 \in ks
    BY <2>1, <2>2
  <2>4. QED  BY <2>2, <2>3, KeyStage
<1>2. Copying(p, {3, 4}) /\ Copying(p, 2 .. 4) /\ db.by # "none"
  BY CopyingMore DEF RowsInv
<1>3. db'.symbols = NoTable /\ db'.declkey = db.declkey /\ db'.by = db.by
  BY <1>1, <1>2, TableDropped DEF TypeInv
<1>4. \A q \in Openers : q # p => \A ks : Copying(q, ks)' <=> Copying(q, ks)
  BY <1>1, OthersStay DEF Copying
<1>5. \A q \in Openers : Copying(q, 2 .. 4) => q = p
  BY <1>2 DEF RowsInv
<1>6. db'.declkey.row # << >> /\ db'.declkey # NoTable
  BY <1>2, <1>3 DEF RowsInv
<1>7. \A q \in Openers : Copying(q, 2 .. 4)' => q = p
  BY <1>4, <1>5
<1>8. \A q \in Openers : ~Copying(q, {2})'
  <2>1. 4 \notin {2}
    OBVIOUS
  <2>2. \A q \in Openers : Copying(q, {2}) => q = p
    BY <1>5, CopyingMore
  <2>3. QED  BY <1>1, <1>4, <2>1, <2>2
<1>9. ~db'.symbols.unique
  BY <1>3, TablesTyped
<1>10. /\ \A q \in Openers : Copying(q, 1 .. 6)' => db'.by # "none"
       /\ ~db'.declkey.unique /\ db'.declkey.cols = Columns
       /\ RowsSurvive'
  BY <1>2, <1>3, <1>6 DEF RowsInv, RowsSurvive
<1>11. QED  BY <1>3, <1>6, <1>7, <1>8, <1>9, <1>10 DEF RowsInv

LEMMA RowsRenameCopy ==
  ASSUME TypeInv, RowsInv, NEW p \in Openers, Copying(p, {4}), Execute(p)
  PROVE  RowsInv'
<1>1. /\ Said(p) = Statement("rename_copy", "") /\ Executes(Said(p)) /\ db' = Executed(Said(p))
      /\ Become(p, Moves(p)) /\ \A ks : Copying(p, ks)' <=> 5 \in ks
  <2>1. 4 \in 1 .. 4 /\ 4 + 1 = 5
    OBVIOUS
  <2>2. /\ Said(p) = migrateSymbolDeclarationKey.does[4] /\ Executes(Said(p))
        /\ db' = Executed(Said(p)) /\ Become(p, Moves(p))
        /\ \A ks : Copying(p, ks)' <=> 4 + 1 \in ks
    BY <2>1, CopyStep
  <2>3. \A ks : Copying(p, ks)' <=> 5 \in ks
    BY <2>1, <2>2
  <2>4. QED  BY <2>2, <2>3, KeyStage
<1>2. Copying(p, {3, 4}) /\ Copying(p, 2 .. 4) /\ db.by # "none"
  BY CopyingMore DEF RowsInv
<1>3. db.declkey.cols = Columns /\ ~db.declkey.unique /\ db.declkey.row # << >>
  BY <1>2 DEF RowsInv
<1>4. /\ db'.symbols = db.declkey /\ db'.declkey = NoTable /\ db'.by = db.by
  BY <1>1, <1>3, CopyRenamed DEF TypeInv
<1>5. \A q \in Openers : q # p => \A ks : Copying(q, ks)' <=> Copying(q, ks)
  BY <1>1, OthersStay DEF Copying
<1>6. \A q \in Openers : ~Copying(q, 2 .. 4)'
  <2>1. 5 \notin 2 .. 4
    OBVIOUS
  <2>2. \A q \in Openers : Copying(q, 2 .. 4) => q = p
    BY <1>2 DEF RowsInv
  <2>3. QED  BY <1>1, <1>5, <2>1, <2>2
<1>7. \A q \in Openers : ~Copying(q, {2})' /\ ~Copying(q, {3, 4})'
  <2>1. {2} \cup {3, 4} \subseteq 2 .. 4
    OBVIOUS
  <2>2. QED  BY <1>6, <2>1 DEF Copying, In
<1>8. ~db'.symbols.unique /\ ~db'.declkey.unique
      /\ {"complexity", "importance"} \subseteq Range(db'.symbols.cols)
  BY <1>3, <1>4, ColumnsOfSymbols, TablesTyped
<1>9. /\ \A q \in Openers : Copying(q, 1 .. 6)' => db'.by # "none"
      /\ RowsSurvive'
  BY <1>2, <1>3, <1>4 DEF RowsSurvive
<1>10. QED  BY <1>4, <1>6, <1>7, <1>8, <1>9 DEF RowsInv

-----------------------------------------------------------------------------
(* Every step, and the whole behaviour.                                    *)
LEMMA Parts ==
  ASSUME SchemaNext
  PROVE  \E p \in Openers : Open(p) \/ Create(p) \/ Progress(p) \/ Close(p) \/ Kill(p)
  BY DEF SchemaNext

LEMMA TypeStep ==
  ASSUME TypeInv, RowsInv, NEW p \in Openers,
         Quiet(p) \/ Finds(p) \/ Execute(p) \/ \E dirty \in BOOLEAN : Commits(p, dirty)
  PROVE  TypeInv'
<1>1. CASE Quiet(p)
  BY <1>1, BecomePlaced DEF Quiet, TypeInv
<1>2. CASE Finds(p)
  <2>1. Placed([opening[p] EXCEPT !.stmt = 1])
    BY <1>2, NextPlaced DEF Finds
  <2>2. QED  BY <1>2, <2>1, BecomePlaced DEF Finds, TypeInv
<1>3. CASE Execute(p)
  <2>1. \E st : Become(p, st) /\ Placed(st)
    BY <1>3, ExecuteStep
  <2>2. db' \in File
    <3>1. CASE ~Copying(p, 1 .. 4)
      BY <1>3, <3>1, PlainStep
    <3>2. ASSUME NEW k \in 1 .. 4, Copying(p, {k})
          PROVE  /\ Said(p) = migrateSymbolDeclarationKey.does[k]
                 /\ Executes(Said(p)) /\ db' = Executed(Said(p)) /\ db \in File
      BY <1>3, <3>2, CopyStep DEF TypeInv
    <3>3. 1 \in 1 .. 4 /\ 2 \in 1 .. 4 /\ 3 \in 1 .. 4 /\ 4 \in 1 .. 4
      OBVIOUS
    <3>4. CASE Copying(p, {1})
      BY <3>2, <3>3, <3>4, KeyStage, CopyCreated
    <3>5. CASE Copying(p, {2})
      BY <3>2, <3>3, <3>5, KeyStage, RowsCopied
    <3>6. CASE Copying(p, {3})
      <4>1. db.by # "none"
        BY <3>6, CopyingMore DEF RowsInv
      <4>2. QED  BY <3>2, <3>3, <3>6, <4>1, KeyStage, TableDropped
    <3>7. CASE Copying(p, {4})
      <4>1. db.declkey.cols = Columns /\ ~db.declkey.unique
        BY <3>7, CopyingMore DEF RowsInv
      <4>2. QED  BY <3>2, <3>3, <3>7, <4>1, KeyStage, CopyRenamed
    <3>8. QED  BY <3>1, <3>4, <3>5, <3>6, <3>7, CopyingMore
  <2>3. QED  BY <2>1, <2>2, BecomePlaced
<1>4. ASSUME NEW dirty \in BOOLEAN, Commits(p, dirty) PROVE TypeInv'
  <2>1. \E st : Become(p, st) /\ Placed(st)
    BY <1>4, StartPlaced DEF Commits
  <2>2. db' \in File
    BY <1>4, IndexWritten DEF Commits, TypeInv
  <2>3. QED  BY <2>1, <2>2, BecomePlaced
<1>5. QED  BY <1>1, <1>2, <1>3, <1>4

LEMMA RowsStep ==
  ASSUME TypeInv, RowsInv, NEW p \in Openers,
         Quiet(p) \/ Finds(p) \/ Execute(p) \/ \E dirty \in BOOLEAN : Commits(p, dirty)
  PROVE  RowsInv'
<1>1. CASE Execute(p)
  <2>1. CASE ~Copying(p, 1 .. 4)
    BY <1>1, <2>1, RowsPlain
  <2>2. CASE Copying(p, 1 .. 4)
    BY <1>1, <2>2, CopyingMore, RowsCreateCopy, RowsCopyRows, RowsDropTable, RowsRenameCopy
  <2>3. QED  BY <2>1, <2>2
<1>2. QED  BY <1>1, RowsQuiet, RowsFinds, RowsCommits

LEMMA NowhereAtFirst ==
  ASSUME SchemaInit
  PROVE  /\ \A p \in Openers : opening[p] = Idle /\ ~Ensuring(p)
         /\ \A p \in Openers : \A g, ks : ~In(p, g, ks)
<1>1. \A p \in Openers : opening[p] = Idle
  BY DEF SchemaInit
<1>2. QED  BY <1>1, OpenedPlaced DEF In, Ensuring

LEMMA RowsInit ==
  ASSUME SchemaInit
  PROVE  TypeInv /\ RowsInv
<1>1. /\ db \in File /\ db.declkey = NoTable
      /\ db.symbols # NoTable => {"complexity", "importance"} \subseteq Range(db.symbols.cols)
      /\ db.symbols.unique => db.by # "none"
      /\ db.by # "none" => db.symbols.row # << >>
  BY DatabasesAssumption DEF SchemaInit
<1>2. TypeInv
  <2>1. DOMAIN opening = Openers
    BY DEF SchemaInit
  <2>2. QED  BY <1>1, <2>1, NowhereAtFirst, StartPlaced DEF TypeInv
<1>3. \A p \in Openers : \A ks : ~Copying(p, ks)
  BY NowhereAtFirst DEF Copying
<1>4. RowsInv
  BY <1>1, <1>3, TablesTyped DEF RowsInv, RowsSurvive
<1>5. QED  BY <1>2, <1>4

LEMMA SchemaStutter ==
  ASSUME UNCHANGED schemaVars
  PROVE  /\ db' = db /\ opening' = opening /\ torn' = torn
         /\ \A p : \A g, ks : In(p, g, ks)' <=> In(p, g, ks)
<1>1. db' = db /\ opening' = opening /\ torn' = torn
  BY DEF schemaVars
<1>2. QED  BY <1>1 DEF In, Ensuring, Through, Here

LEMMA RowsInvariant == SchemaSpec => [](TypeInv /\ RowsInv)
<1>1. ASSUME TypeInv /\ RowsInv, [SchemaNext]_schemaVars
      PROVE  (TypeInv /\ RowsInv)'
  <2>1. CASE SchemaNext
    <3>1. PICK p \in Openers :
            Quiet(p) \/ Finds(p) \/ Execute(p) \/ \E dirty \in BOOLEAN : Commits(p, dirty)
      BY <1>1, <2>1, Parts, Steps
    <3>2. QED  BY <1>1, <3>1, TypeStep, RowsStep
  <2>2. CASE UNCHANGED schemaVars
    <3>1. \A p : \A ks : Copying(p, ks)' <=> Copying(p, ks)
      BY <2>2, SchemaStutter DEF Copying
    <3>2. TypeInv'
      BY <1>1, <2>2, SchemaStutter DEF TypeInv
    <3>3. RowsInv'
      BY <1>1, <2>2, <3>1, SchemaStutter DEF RowsInv, RowsSurvive
    <3>4. QED  BY <3>2, <3>3
  <2>3. QED  BY <1>1, <2>1, <2>2
<1>2. QED  BY <1>1, RowsInit, PTL DEF SchemaSpec

(* A process copies the table symbols of the old key statement by statement *)
(* (migrateSymbolDeclarationKey), and others may come upon it there, fail,  *)
(* or be killed: the rows are always in the table or in the copy.           *)
THEOREM RowsAreKept == SchemaSpec => []RowsSurvive
<1>1. RowsInv => RowsSurvive
  BY DEF RowsInv
<1>2. QED  BY <1>1, RowsInvariant, PTL

-----------------------------------------------------------------------------
(* What a stage is for: that it leaves the file with.                      *)
Achieved(file, g) ==
  /\ g.if = "no_table" => g.on \in file.tables
  /\ g.if = "no_column" => IF g.on[1] = "symbols"
                           THEN file.symbols = NoTable \/ g.on[2] \in Range(file.symbols.cols)
                           ELSE g.on \in file.columns
  /\ g.if = "no_index" => g.on \in file.indexes
  /\ g.if = "unique_key" => ~file.symbols.unique
  /\ g.if = "old_text" => file.fts # "porter"
  /\ g.if = "always" /\ g.does[1].op = "ensure_index" /\ file.by = "none" =>
        g.does[1].on \in file.indexes
  /\ g.if = "always" /\ g.does[1].op = "read_version" => "meta" \in file.tables
  /\ g.if = "always" /\ g.does[1].op = "set_version" => file.version = schemaVersion

LEMMA KindParts ==
  ASSUME NEW g, Kind(g)
  PROVE  /\ g.if = "always" => Len(g.does) = 1 /\ g.does[1].op \in AlwaysOps
         /\ g.if = "no_table" => Len(g.does) = 1 /\ g.does[1] = Statement("create_table", g.on)
         /\ g.if = "no_column" => /\ g.on \in LookedFor
                                  /\ Len(g.does) = 1
                                  /\ g.does[1] = Statement("add_column", g.on)
         /\ g.if = "no_index" => g = migrateEdgesDedup
         /\ g.if = "old_text" => g = migrateFileContentFTS
         /\ g.if = "unique_key" => g = migrateSymbolDeclarationKey
         /\ g.if \in {"always", "no_table", "no_column", "no_index", "old_text", "unique_key"}
<1>1. ASSUME NEW s, s.op \in AlwaysOps, g = Stage("always", s.on, <<s>>)
      PROVE  g.if = "always" /\ Len(g.does) = 1 /\ g.does[1].op \in AlwaysOps
  BY <1>1, OneStatement
<1>2. ASSUME NEW t \in Tables, g = EnsureTable(t)
      PROVE  g.if = "no_table" /\ Len(g.does) = 1 /\ g.does[1] = Statement("create_table", g.on)
  <2>1. /\ g.if = "no_table" /\ g.on = t /\ Len(g.does) = 1
        /\ g.does[1] = Statement("create_table", t)
    BY <1>2, EnsureStage
  <2>2. QED  BY <2>1
<1>3. ASSUME NEW c \in LookedFor, g = EnsureColumn(c[1], c[2])
      PROVE  /\ g.if = "no_column" /\ g.on \in LookedFor
             /\ Len(g.does) = 1 /\ g.does[1] = Statement("add_column", g.on)
  <2>1. g.if = "no_column" /\ g.on = <<c[1], c[2]>>
        /\ Len(g.does) = 1 /\ g.does[1] = Statement("add_column", <<c[1], c[2]>>)
    BY <1>3, EnsureStage
  <2>2. <<c[1], c[2]>> = c
    BY Pairs
  <2>3. QED  BY <2>1, <2>2
<1>4. CASE g = migrateFileContentFTS
  BY <1>4, TextStage
<1>5. CASE g = migrateEdgesDedup
  BY <1>5, DedupStage
<1>6. CASE g = migrateSymbolDeclarationKey
  BY <1>6, KeyStage
<1>7. QED  BY <1>1, <1>2, <1>3, <1>4, <1>5, <1>6 DEF Kind

(* Nothing undoes it.                                                      *)
LEMMA AchievedStays ==
  ASSUME NEW g, Kind(g), Achieved(db, g), Grows
  PROVE  Achieved(db', g)
<1>1. g.if = "no_table" => g.on \in db'.tables
  BY DEF Achieved, Grows
<1>2. ASSUME g.if = "no_column"
      PROVE  IF g.on[1] = "symbols"
             THEN db'.symbols = NoTable \/ g.on[2] \in Range(db'.symbols.cols)
             ELSE g.on \in db'.columns
  <2>1. g.on \in LookedFor
    BY <1>2, KindParts
  <2>2. g.on[1] = "symbols" => g.on[2] \in Range(Columns)
    BY <2>1, LookedForParts
  <2>3. IF g.on[1] = "symbols"
        THEN db.symbols = NoTable \/ g.on[2] \in Range(db.symbols.cols)
        ELSE g.on \in db.columns
    BY <1>2 DEF Achieved
  <2>4. CASE g.on[1] = "symbols"
    BY <2>2, <2>3, <2>4 DEF Grows
  <2>5. CASE g.on[1] # "symbols"
    BY <2>3, <2>5 DEF Grows
  <2>6. QED  BY <2>4, <2>5
<1>3. g.if = "no_index" => g.on \in db'.indexes
  BY KindParts, DedupStage DEF Achieved, Grows
<1>4. /\ g.if = "unique_key" => ~db'.symbols.unique
      /\ g.if = "old_text" => db'.fts # "porter"
      /\ g.if = "always" /\ g.does[1].op = "ensure_index" /\ db'.by = "none" =>
            g.does[1].on \in db'.indexes
      /\ g.if = "always" /\ g.does[1].op = "read_version" => "meta" \in db'.tables
      /\ g.if = "always" /\ g.does[1].op = "set_version" => db'.version = schemaVersion
  BY DEF Achieved, Grows
<1>5. QED  BY <1>1, <1>2, <1>3, <1>4 DEF Achieved

(* A stage that is not needed has it; the old text is of an old version.   *)
LEMMA NotNeeded ==
  ASSUME NEW g, Kind(g), ~Needed(g), db.fts = "porter" => db.version \in 1 .. schemaVersion - 1
  PROVE  Achieved(db, g)
<1>1. g.if # "always"
  BY DEF Needed
<1>2. CASE g.if = "no_column"
  BY <1>2 DEF Needed, HasColumn, Achieved
<1>3. CASE g.if \in {"no_table", "no_index", "unique_key"}
  BY <1>3 DEF Needed, Achieved
<1>4. CASE g.if = "old_text"
  BY <1>4 DEF Needed, Achieved
<1>5. QED  BY <1>1, <1>2, <1>3, <1>4, KindParts

LEMMA StatementParts ==
  ASSUME NEW op, NEW on, NEW s, s = Statement(op, on)
  PROVE  s.op = op /\ s.on = on
  BY DEF Statement

LEMMA SaidParts ==
  ASSUME NEW p, NEW op, NEW x, Said(p) = Statement(op, x)
  PROVE  Said(p).op = op /\ Said(p).on = x
  BY StatementParts

(* One whose last statement is executed has it too.                        *)
LEMMA LastStatement ==
  ASSUME TypeInv, NEW p \in Openers, Execute(p), ~Copying(p, 1 .. 4),
         NEW g, g = Here(p), opening[p].stmt = Len(g.does),
         Indexing(p, {2, 3}) => db.fts # "porter",
         Copying(p, 4 .. 6) => ~db.symbols.unique
  PROVE  Achieved(db', g)
<1>1. Ensuring(p) /\ ~Through(p) /\ Kind(g) /\ db \in File
  BY ExecuteStep DEF TypeInv
<1>2. /\ Said(p) = g.does[Len(g.does)] /\ Grows /\ Plain(Said(p)) /\ Executes(Said(p))
      /\ db' = Executed(Said(p))
  BY <1>1, PlainStep DEF Said
<1>3. CASE g.if = "no_table"
  <2>1. Said(p).op = "create_table" /\ Said(p).on = g.on
    <3>1. PICK x : x = g.on
      OBVIOUS
    <3>2. Said(p) = Statement("create_table", x)
      BY <1>1, <1>2, <1>3, KindParts, <3>1
    <3>3. Said(p).op = "create_table" /\ Said(p).on = x
      BY ONLY <3>2, SaidParts
    <3>4. QED  BY <3>1, <3>3
  <2>2. db' = [db EXCEPT !.tables = @ \cup {g.on}] /\ g.on \in Tables
    BY <1>2, <2>1 DEF Executed, Plain
  <2>3. db.tables \cup {g.on} \in SUBSET Tables
    BY <1>1, <2>2 DEF File
  <2>4. g.on \in db'.tables
    BY <1>1, <2>2, <2>3, TablesPut
  <2>5. QED  BY <1>3, <2>4 DEF Achieved
<1>4. CASE g.if = "no_column"
  <2>1. Said(p).op = "add_column" /\ Said(p).on = g.on
    <3>1. PICK x : x = g.on
      OBVIOUS
    <3>2. Said(p) = Statement("add_column", x)
      BY <1>1, <1>2, <1>4, KindParts, <3>1
    <3>3. Said(p).op = "add_column" /\ Said(p).on = x
      BY ONLY <3>2, SaidParts
    <3>4. QED  BY <3>1, <3>3
  <2>2. IF g.on[1] = "symbols" THEN g.on[2] \in Range(db'.symbols.cols)
        ELSE g.on \in db'.columns
    BY <1>1, <1>2, <2>1, ColumnExecuted
  <2>3. QED  BY <1>4, <2>2 DEF Achieved
<1>5. CASE g.if = "no_index"
  <2>1. Said(p).op = "create_index" /\ Said(p).on = g.on
    <3>1. g = migrateEdgesDedup
      BY <1>1, <1>5, KindParts
    <3>2. Said(p) = Statement("create_index", "edges_pair")
      BY <1>2, <3>1, DedupStage
    <3>3. Said(p).op = "create_index" /\ Said(p).on = "edges_pair"
      BY ONLY <3>2, SaidParts
    <3>4. QED  BY <3>1, <3>3, DedupStage
  <2>2. db' = [db EXCEPT !.indexes = @ \cup {g.on}] /\ g.on \in Indexes
    BY <1>2, <2>1 DEF Executed, Plain
  <2>3. db.indexes \cup {g.on} \in SUBSET Indexes
    BY <1>1, <2>2 DEF File
  <2>4. g.on \in db'.indexes
    BY <1>1, <2>2, <2>3, IndexesPut
  <2>5. QED  BY <1>5, <2>4 DEF Achieved
<1>6. CASE g.if = "old_text"
  <2>1. g = migrateFileContentFTS /\ Len(g.does) = 3
    BY <1>1, <1>6, KindParts, TextStage
  <2>2. Indexing(p, {2, 3})
    BY <1>1, <2>1 DEF Indexing, In
  <2>3. db'.fts # "porter"
    BY <1>2, <2>2 DEF Grows
  <2>4. QED  BY <1>6, <2>3 DEF Achieved
<1>7. CASE g.if = "unique_key"
  <2>1. g = migrateSymbolDeclarationKey /\ Len(g.does) = 6
    BY <1>1, <1>7, KindParts, KeyLength
  <2>2. Copying(p, 4 .. 6)
    BY <1>1, <2>1 DEF Copying, In
  <2>3. ~db'.symbols.unique
    BY <1>2, <2>2 DEF Grows
  <2>4. QED  BY <1>7, <2>3 DEF Achieved
<1>8. CASE g.if = "always"
  <2>1. Said(p) = g.does[1]
    BY <1>1, <1>2, <1>8, KindParts
  <2>2. ASSUME g.does[1].op = "ensure_index" PROVE g.does[1].on \in db'.indexes
    <3>1. db' = [db EXCEPT !.indexes = @ \cup {g.does[1].on}] /\ g.does[1].on \in Indexes
      BY <1>2, <2>1, <2>2 DEF Executed, Plain
    <3>2. db.indexes \cup {g.does[1].on} \in SUBSET Indexes
      BY <1>1, <3>1 DEF File
    <3>3. QED  BY <1>1, <3>1, <3>2, IndexesPut
  <2>3. g.does[1].op = "read_version" => "meta" \in db'.tables
    BY <1>2, <2>1 DEF Executes, Grows
  <2>4. ASSUME g.does[1].op = "set_version" PROVE db'.version = schemaVersion
    <3>1. db' = [db EXCEPT !.version = schemaVersion]
      BY <1>2, <2>1, <2>4 DEF Executed
    <3>2. QED  BY <1>1, <3>1, CurrentVersion, VersionPut
  <2>5. QED  BY <1>8, <2>2, <2>3, <2>4 DEF Achieved
<1>9. QED  BY <1>1, <1>3, <1>4, <1>5, <1>6, <1>7, <1>8, KindParts

(* The version is recorded after the text index has been looked at.        *)
LEMMA AlwaysDoes ==
  ASSUME NEW op, NEW x
  PROVE  /\ Always(op, x).if = "always" /\ Len(Always(op, x).does) = 1
         /\ Always(op, x).does[1].op = op /\ Always(op, x).does[1].on = x
  BY DEF Always, Stage, Statement

LEMMA TextOps ==
  ASSUME NEW k \in 1 .. 3
  PROVE  migrateFileContentFTS.does[k].op \in {"drop_fts", "create_fts", "fill_fts"}
<1>1. k = 1 \/ k = 2 \/ k = 3
  OBVIOUS
<1>2. /\ Statement("drop_fts", "").op = "drop_fts"
      /\ Statement("create_fts", "").op = "create_fts"
      /\ Statement("fill_fts", "").op = "fill_fts"
  BY DEF Statement
<1>3. QED  BY <1>1, <1>2, TextStage

LEMMA VersionLast ==
  ASSUME NEW how, NEW i \in 1 .. Len(Stages(how)), NEW k \in 1 .. Len(Stages(how)[i].does),
         Stages(how)[i].does[k].op = "set_version"
  PROVE  \E j \in 1 .. i - 1 : Stages(how)[j] = migrateFileContentFTS
<1>1. ASSUME NEW n \in 1 .. 17, NEW m \in 1 .. Len(ensureSchema[n].does),
             ensureSchema[n].does[m].op = "set_version"
      PROVE  n > 2
  <2>1. CASE n = 1
    <3>1. Len(ensureSchema[1].does) = 1 /\ ensureSchema[1].does[1].op = "read_version"
      <4>1. ensureSchema[1] = Always("read_version", "")
        BY EnsureStages
      <4>2. /\ Len(Always("read_version", "").does) = 1
            /\ Always("read_version", "").does[1].op = "read_version"
        BY DEF Always, Stage, Statement
      <4>3. QED  BY <4>1, <4>2
    <3>2. m = 1
      BY <2>1, <3>1
    <3>3. QED  BY <1>1, <2>1, <3>1, <3>2
  <2>2. CASE n = 2
    <3>1. ensureSchema[2] = migrateFileContentFTS /\ Len(migrateFileContentFTS.does) = 3
      BY EnsureStages, TextStage
    <3>2. m \in 1 .. 3
      BY <2>2, <3>1
    <3>3. QED  BY <1>1, <2>2, <3>1, <3>2, TextOps
  <2>3. QED  BY <2>1, <2>2
<1>2. ASSUME NEW n \in 1 .. 9, NEW m \in 1 .. Len(schemaSQL[n].does)
      PROVE  schemaSQL[n].does[m].op # "set_version"
  <2>1. schemaSQL[n].if = "always" /\ Len(schemaSQL[n].does) = 1 /\ schemaSQL[n].does[1].op # "set_version"
    <3>1. \E op \in {"ensure_table", "ensure_symbols", "ensure_index", "ensure_fts"} :
             \E x : schemaSQL[n] = Always(op, x)
      <4>1. /\ schemaSQL[1] = Always("ensure_table", "repos")
            /\ schemaSQL[2] = Always("ensure_symbols", "")
            /\ schemaSQL[3] = Always("ensure_index", "idx_symbols_decl")
            /\ schemaSQL[4] = Always("ensure_index", "idx_symbols_repo")
            /\ schemaSQL[5] = Always("ensure_index", "edges_pair")
            /\ schemaSQL[6] = Always("ensure_table", "contracts")
            /\ schemaSQL[7] = Always("ensure_table", "meta")
            /\ schemaSQL[8] = Always("ensure_fts", "")
            /\ schemaSQL[9] = Always("ensure_table", "response_chunks")
        BY DEF schemaSQL
      <4>2. n \in {1, 2, 3, 4, 5, 6, 7, 8, 9}
        OBVIOUS
      <4>3. QED  BY <4>1, <4>2
    <3>2. PICK op \in {"ensure_table", "ensure_symbols", "ensure_index", "ensure_fts"} :
             \E x : schemaSQL[n] = Always(op, x)
      BY <3>1
    <3>3. QED  BY <3>2, AlwaysDoes
  <2>2. m = 1
    BY <2>1
  <2>3. QED  BY <2>1, <2>2
<1>3. CASE how # "create"
  <2>1. Stages(how) = ensureSchema /\ Len(Stages(how)) = 17
    BY <1>3, StagesOf, Lengths
  <2>2. i > 2
    BY <1>1, <2>1
  <2>3. 2 \in 1 .. i - 1
    BY <2>1, <2>2
  <2>4. QED  BY <2>1, <2>3, EnsureStages
<1>4. CASE how = "create"
  <2>1. /\ Len(Stages(how)) = 26
        /\ \A n \in 1 .. 9 : Stages(how)[n] = schemaSQL[n]
        /\ \A n \in 1 .. 17 : Stages(how)[n + 9] = ensureSchema[n]
    BY <1>4, StagesOf
  <2>2. i \notin 1 .. 9
    <3>1. SUFFICES ASSUME i \in 1 .. 9 PROVE FALSE
      OBVIOUS
    <3>2. Stages(how)[i] = schemaSQL[i]
      BY <2>1, <3>1
    <3>3. k \in 1 .. Len(schemaSQL[i].does)
      BY <3>2
    <3>4. schemaSQL[i].does[k].op # "set_version"
      BY <1>2, <3>1, <3>3
    <3>5. QED  BY <3>2, <3>4
  <2>3. i - 9 \in 1 .. 17 /\ (i - 9) + 9 = i
    BY <2>1, <2>2
  <2>4. Stages(how)[i] = ensureSchema[i - 9]
    BY <2>1, <2>3
  <2>5. i - 9 > 2
    BY <1>1, <2>3, <2>4
  <2>6. 11 \in 1 .. i - 1 /\ 2 \in 1 .. 17 /\ 2 + 9 = 11
    BY <2>1, <2>5
  <2>7. Stages(how)[2 + 9] = migrateFileContentFTS
    BY <2>1, <2>6, EnsureStages
  <2>8. QED  BY <2>6, <2>7
<1>5. QED  BY <1>3, <1>4

-----------------------------------------------------------------------------
(* What the stages behind a process were for has come about, whatever the  *)
(* others do.                                                              *)
Reached(p) ==
  /\ Ensuring(p) => \A i \in 1 .. opening[p].stage - 1 :
                      Achieved(db, Stages(opening[p].how)[i])
  /\ opening[p].at = "opened" => \A i \in 1 .. 17 : Achieved(db, ensureSchema[i])

(* The old text is of an old version, and is dropped before another is     *)
(* made; so is the table of the old key.                                   *)
StagesInv ==
  /\ \A p \in Openers : Reached(p)
  /\ db.fts = "porter" => db.version \in 1 .. schemaVersion - 1
  /\ \A p \in Openers : Indexing(p, {2, 3}) => db.fts # "porter"
  /\ \A p \in Openers : Copying(p, 4 .. 6) => ~db.symbols.unique

LEMMA StepGrows ==
  ASSUME TypeInv, RowsInv, NEW p \in Openers,
         Quiet(p) \/ Finds(p) \/ Execute(p) \/ \E dirty \in BOOLEAN : Commits(p, dirty)
  PROVE  Grows
<1>1. CASE db' = db
  BY <1>1 DEF Grows
<1>2. CASE Execute(p) /\ ~Copying(p, 1 .. 4)
  BY <1>2, PlainStep
<1>3. CASE Execute(p) /\ Copying(p, 1 .. 4)
  <2>1. 1 \in 1 .. 4 /\ 2 \in 1 .. 4 /\ 3 \in 1 .. 4 /\ 4 \in 1 .. 4
    OBVIOUS
  <2>2. \A k \in 1 .. 4 : Copying(p, {k}) =>
           /\ Said(p) = migrateSymbolDeclarationKey.does[k]
           /\ Executes(Said(p)) /\ db' = Executed(Said(p)) /\ db \in File
    BY <1>3, CopyStep DEF TypeInv
  <2>3. CASE Copying(p, {1})
    BY <2>1, <2>2, <2>3, KeyStage, CopyCreated
  <2>4. CASE Copying(p, {2})
    BY <2>1, <2>2, <2>4, KeyStage, RowsCopied
  <2>5. CASE Copying(p, {3})
    <3>1. db.by # "none"
      BY <2>5, CopyingMore DEF RowsInv
    <3>2. QED  BY <2>1, <2>2, <2>5, <3>1, KeyStage, TableDropped
  <2>6. CASE Copying(p, {4})
    <3>1. db.declkey.cols = Columns /\ ~db.declkey.unique
      BY <2>6, CopyingMore DEF RowsInv
    <3>2. QED  BY <2>1, <2>2, <2>6, <3>1, KeyStage, CopyRenamed
  <2>7. QED  BY <1>3, <2>3, <2>4, <2>5, <2>6, CopyingMore
<1>4. ASSUME NEW dirty \in BOOLEAN, Commits(p, dirty) PROVE Grows
  BY <1>4, IndexWritten DEF Commits, TypeInv
<1>5. QED  BY <1>1, <1>2, <1>3, <1>4 DEF Quiet, Finds

LEMMA BehindStays ==
  ASSUME NEW st, Placed(st), Grows,
         st.at = "ensure" => \A i \in 1 .. st.stage - 1 : Achieved(db, Stages(st.how)[i]),
         st.at = "opened" => \A i \in 1 .. 17 : Achieved(db, ensureSchema[i])
  PROVE  /\ st.at = "ensure" => \A i \in 1 .. st.stage - 1 : Achieved(db', Stages(st.how)[i])
         /\ st.at = "opened" => \A i \in 1 .. 17 : Achieved(db', ensureSchema[i])
<1>1. ASSUME st.at = "ensure", NEW i \in 1 .. st.stage - 1
      PROVE  Achieved(db', Stages(st.how)[i])
  <2>1. st.stage \in 1 .. Len(Stages(st.how)) + 1 /\ Len(Stages(st.how)) \in Nat
    BY <1>1, StagesOf DEF Placed
  <2>2. i \in 1 .. Len(Stages(st.how))
    BY <2>1
  <2>3. Kind(Stages(st.how)[i])
    BY <2>2, StagesOf
  <2>4. Achieved(db, Stages(st.how)[i])
    BY <1>1
  <2>5. QED  BY <2>3, <2>4, AchievedStays
<1>2. ASSUME st.at = "opened", NEW i \in 1 .. 17
      PROVE  Achieved(db', ensureSchema[i])
  <2>1. Kind(ensureSchema[i]) /\ Achieved(db, ensureSchema[i])
    BY <1>2, EnsureKinds
  <2>2. QED  BY <2>1, AchievedStays
<1>3. QED  BY <1>1, <1>2

LEMMA ReachedStays ==
  ASSUME TypeInv, NEW q \in Openers, Reached(q), Grows, opening'[q] = opening[q]
  PROVE  Reached(q)'
<1>1. PICK st : st = opening[q]
  OBVIOUS
<1>2. /\ Placed(st)
      /\ st.at = "ensure" => \A i \in 1 .. st.stage - 1 : Achieved(db, Stages(st.how)[i])
      /\ st.at = "opened" => \A i \in 1 .. 17 : Achieved(db, ensureSchema[i])
  BY <1>1 DEF Reached, Ensuring, TypeInv
<1>3. /\ st.at = "ensure" => \A i \in 1 .. st.stage - 1 : Achieved(db', Stages(st.how)[i])
      /\ st.at = "opened" => \A i \in 1 .. 17 : Achieved(db', ensureSchema[i])
  BY <1>2, BehindStays
<1>4. opening'[q] = st
  BY <1>1
<1>5. QED  BY <1>3, <1>4 DEF Reached, Ensuring

LEMMA ReachedAt ==
  ASSUME TypeInv, NEW p \in Openers, NEW st, Become(p, st),
         st.at = "ensure" => \A i \in 1 .. st.stage - 1 : Achieved(db', Stages(st.how)[i]),
         st.at = "opened" => \A i \in 1 .. 17 : Achieved(db', ensureSchema[i])
  PROVE  Reached(p)'
<1>1. opening'[p] = st
  BY DEF Become, TypeInv
<1>2. QED  BY <1>1 DEF Reached, Ensuring

LEMMA ReachedAtFirst ==
  ASSUME TypeInv, NEW p \in Openers,
         Become(p, Idle) \/ Become(p, Start("open")) \/ Become(p, Start("create"))
  PROVE  Reached(p)'
<1>1. ASSUME NEW how, Become(p, Start(how)) PROVE Reached(p)'
  <2>1. Start(how).at = "ensure" /\ Start(how).stage = 1
    BY OpenedPlaced
  <2>2. \A i \in 1 .. Start(how).stage - 1 : FALSE
    BY <2>1
  <2>3. QED  BY <1>1, <2>1, <2>2, ReachedAt
<1>2. CASE Become(p, Idle)
  <2>1. Idle.at # "ensure" /\ Idle.at # "opened"
    BY OpenedPlaced
  <2>2. QED  BY <1>2, <2>1, ReachedAt
<1>3. QED  BY <1>1, <1>2

(* A process that goes on with its stage, or has done with it.             *)
LEMMA ReachedNext ==
  ASSUME TypeInv, NEW p \in Openers, Reached(p), Ensuring(p), ~Through(p), Grows,
         NEW st, Become(p, st), st.at = opening[p].at, st.how = opening[p].how,
         \/ st.stage = opening[p].stage
         \/ st.stage = opening[p].stage + 1 /\ Achieved(db', Stages(st.how)[opening[p].stage])
  PROVE  Reached(p)'
<1>1. PICK o : o = opening[p]
  OBVIOUS
<1>2. /\ Placed(o) /\ o.at = "ensure" /\ o.stage \in Nat
      /\ \A i \in 1 .. o.stage - 1 : Achieved(db, Stages(o.how)[i])
  BY <1>1 DEF Reached, Ensuring, TypeInv, Placed, Place
<1>3. \A i \in 1 .. o.stage - 1 : Achieved(db', Stages(o.how)[i])
  BY <1>2, BehindStays
<1>4. ASSUME NEW i \in 1 .. st.stage - 1
      PROVE  Achieved(db', Stages(st.how)[i])
  <2>1. CASE st.stage = o.stage
    BY <1>1, <1>3, <1>4, <2>1
  <2>2. CASE st.stage = o.stage + 1 /\ Achieved(db', Stages(st.how)[o.stage])
    <3>1. i \in 1 .. o.stage - 1 \/ i = o.stage
      BY <1>2, <1>4, <2>2
    <3>2. st.how = o.how
      BY <1>1
    <3>3. QED  BY <1>3, <2>2, <3>1, <3>2
  <2>3. QED  BY <1>1, <2>1, <2>2
<1>5. st.at = "ensure"
  BY <1>1, <1>2
<1>6. QED  BY <1>4, <1>5, ReachedAt

LEMMA Fields ==
  ASSUME TypeInv, NEW p \in Openers
  PROVE  /\ Moves(p).at = opening[p].at /\ Moves(p).how = opening[p].how
         /\ Moves(p).stage = opening[p].stage
         /\ Ends(p).at = opening[p].at /\ Ends(p).how = opening[p].how
         /\ Ends(p).stage = opening[p].stage + 1
         /\ LET st == [opening[p] EXCEPT !.stmt = 1]
            IN  st.at = opening[p].at /\ st.how = opening[p].how /\ st.stage = opening[p].stage
         /\ LET st == [opening[p] EXCEPT !.stage = @ + 1]
            IN  st.at = opening[p].at /\ st.how = opening[p].how
                /\ st.stage = opening[p].stage + 1
<1>1. opening[p] \in Place
  BY DEF TypeInv, Placed
<1>2. /\ Moves(p).at = opening[p].at /\ Moves(p).how = opening[p].how
      /\ Moves(p).stage = opening[p].stage
  BY <1>1 DEF Place, Moves
<1>3. /\ Ends(p).at = opening[p].at /\ Ends(p).how = opening[p].how
      /\ Ends(p).stage = opening[p].stage + 1
  BY <1>1 DEF Place, Ends
<1>4. QED  BY <1>1, <1>2, <1>3 DEF Place

LEMMA ReachedExecutes ==
  ASSUME TypeInv, RowsInv, StagesInv, NEW p \in Openers, Execute(p)
  PROVE  Reached(p)'
<1>1. Reached(p) /\ Ensuring(p) /\ ~Through(p) /\ Grows
  BY ExecuteStep, StepGrows DEF StagesInv
<1>2. CASE opening[p].stmt < Len(Here(p).does)
  <2>1. Become(p, Moves(p))
    BY <1>2, ExecuteStep
  <2>2. QED  BY <1>1, <2>1, Fields, ReachedNext
<1>3. CASE ~(opening[p].stmt < Len(Here(p).does))
  <2>1. PICK g : g = Here(p)
    OBVIOUS
  <2>2. Become(p, Ends(p)) /\ opening[p].stmt = Len(g.does)
    BY <1>3, <2>1, ExecuteStep
  <2>3. ~Copying(p, 1 .. 4)
    <3>1. ASSUME Copying(p, 1 .. 4) PROVE opening[p].stmt < Len(Here(p).does)
      BY <3>1, KeyLength DEF Copying, In
    <3>2. QED  BY <1>3, <3>1
  <2>4. Achieved(db', g)
    BY <2>1, <2>2, <2>3, LastStatement DEF StagesInv
  <2>5. Stages(Ends(p).how)[opening[p].stage] = g
    BY <2>1, Fields DEF Here
  <2>6. QED  BY <1>1, <2>2, <2>4, <2>5, Fields, ReachedNext
<1>4. QED  BY <1>2, <1>3

LEMMA ReachedLooks ==
  ASSUME TypeInv, RowsInv, StagesInv, NEW p \in Openers, Look(p)
  PROVE  Reached(p)'
<1>1. Reached(p) /\ Ensuring(p) /\ ~Through(p) /\ db' = db
  BY DEF StagesInv, Look
<1>2. Grows
  BY <1>1 DEF Grows
<1>3. CASE Needed(Here(p))
  <2>1. Become(p, [opening[p] EXCEPT !.stmt = 1])
    BY <1>3 DEF Look
  <2>2. QED  BY <1>1, <1>2, <2>1, Fields, ReachedNext
<1>4. CASE ~Needed(Here(p))
  <2> DEFINE st == [opening[p] EXCEPT !.stage = @ + 1]
  <2>1. Become(p, st)
    BY <1>4 DEF Look
  <2>2. Achieved(db, Here(p))
    BY <1>1, <1>4, Whereabouts, NotNeeded DEF StagesInv
  <2>3. st.at = opening[p].at /\ st.how = opening[p].how /\ st.stage = opening[p].stage + 1
    BY Fields
  <2> HIDE DEF st
  <2>4. Achieved(db', Stages(st.how)[opening[p].stage])
    BY <1>1, <2>2, <2>3 DEF Here
  <2>5. QED  BY <1>1, <1>2, <2>1, <2>3, <2>4, ReachedNext
<1>5. QED  BY <1>3, <1>4

(* One that is through has them all.                                       *)
LEMMA AllReached ==
  ASSUME TypeInv, NEW p \in Openers, Reached(p), Through(p)
  PROVE  /\ \A i \in 1 .. 17 : Achieved(db, ensureSchema[i])
         /\ opening[p].how = "create" => \A i \in 1 .. 9 : Achieved(db, schemaSQL[i])
<1>1. PICK o : o = opening[p]
  OBVIOUS
<1>2. /\ o.stage \in Nat /\ o.stage > Len(Stages(o.how))
      /\ \A i \in 1 .. o.stage - 1 : Achieved(db, Stages(o.how)[i])
  BY <1>1 DEF Reached, Through, TypeInv, Placed, Place
<1>3. Len(Stages(o.how)) \in Nat
  BY StagesOf
<1>4. \A i \in 1 .. Len(Stages(o.how)) : i \in 1 .. o.stage - 1
  BY <1>2, <1>3
<1>5. \A i \in 1 .. Len(Stages(o.how)) : Achieved(db, Stages(o.how)[i])
  BY <1>2, <1>4
<1>6. CASE o.how = "create"
  <2>1. /\ Len(Stages(o.how)) = 26
        /\ \A i \in 1 .. 9 : Stages(o.how)[i] = schemaSQL[i]
        /\ \A i \in 1 .. 17 : Stages(o.how)[i + 9] = ensureSchema[i]
    BY <1>6, StagesOf
  <2>2. \A i \in 1 .. 17 : i + 9 \in 1 .. 26
    OBVIOUS
  <2>3. \A i \in 1 .. 9 : i \in 1 .. 26
    OBVIOUS
  <2>4. \A i \in 1 .. 26 : Achieved(db, Stages(o.how)[i])
    BY <1>5, <2>1
  <2>5. ASSUME NEW i \in 1 .. 17 PROVE Achieved(db, ensureSchema[i])
    <3>1. Achieved(db, Stages(o.how)[i + 9])
      BY <2>2, <2>4
    <3>2. QED  BY <2>1, <3>1
  <2>6. ASSUME NEW i \in 1 .. 9 PROVE Achieved(db, schemaSQL[i])
    BY <2>1, <2>3, <2>4
  <2>7. QED  BY <2>5, <2>6
<1>7. CASE o.how # "create"
  <2>1. Stages(o.how) = ensureSchema /\ Len(Stages(o.how)) = 17
    BY <1>7, StagesOf, Lengths
  <2>2. \A i \in 1 .. 17 : Achieved(db, ensureSchema[i])
    BY <1>5, <2>1
  <2>3. QED  BY <1>1, <1>7, <2>2
<1>8. QED  BY <1>6, <1>7

LEMMA ReachedOpened ==
  ASSUME TypeInv, NEW p \in Openers, Reached(p), Through(p), Grows,
         Become(p, [Idle EXCEPT !.at = "opened"])
  PROVE  Reached(p)'
<1> DEFINE st == [Idle EXCEPT !.at = "opened"]
<1>1. st.at = "opened" /\ Placed(st)
  BY OpenedPlaced, StartPlaced
<1> HIDE DEF st
<1>2. \A i \in 1 .. 17 : Achieved(db, ensureSchema[i])
  BY AllReached
<1>3. \A i \in 1 .. 17 : Achieved(db', ensureSchema[i])
  BY <1>1, <1>2, BehindStays
<1>4. Become(p, st)
  BY DEF st
<1>5. QED  BY <1>1, <1>3, <1>4, ReachedAt

LEMMA ReachedStep ==
  ASSUME TypeInv, RowsInv, StagesInv, NEW p \in Openers,
         Open(p) \/ Create(p) \/ Progress(p) \/ Close(p) \/ Kill(p)
  PROVE  Reached(p)'
<1>1. CASE Open(p) \/ Create(p) \/ Close(p) \/ Kill(p) \/ Fails(p)
  <2>1. Become(p, Idle) \/ Become(p, Start("open")) \/ Become(p, Start("create"))
    BY <1>1 DEF Open, Create, Close, Kill, Fails, GiveUp
  <2>2. QED  BY <2>1, ReachedAtFirst
<1>2. CASE Opened(p)
  <2>1. Grows
    BY <1>2 DEF Opened, Grows
  <2>2. QED  BY <1>2, <2>1, ReachedOpened DEF Opened, StagesInv
<1>3. ASSUME NEW dirty \in BOOLEAN, WriteIndex(p, dirty) PROVE Reached(p)'
  <2>1. Become(p, Idle) \/ Become(p, [Idle EXCEPT !.at = "opened"])
    BY <1>3 DEF WriteIndex
  <2>2. CASE Become(p, [Idle EXCEPT !.at = "opened"])
    <3>1. Quiet(p) \/ \E d \in BOOLEAN : Commits(p, d)
      <4>1. CASE Writes(dirty)
        BY <1>3, <4>1 DEF WriteIndex, Commits
      <4>2. CASE ~Writes(dirty)
        BY <1>3, <4>2, StartPlaced, OpenedPlaced DEF WriteIndex, Quiet
      <4>3. QED  BY <4>1, <4>2
    <3>2. Grows
      BY <3>1, StepGrows
    <3>3. QED  BY <1>3, <2>2, <3>2, ReachedOpened DEF WriteIndex, StagesInv
  <2>3. QED  BY <2>1, <2>2, ReachedAtFirst
<1>4. QED  BY <1>1, <1>2, <1>3, ReachedExecutes, ReachedLooks DEF Progress

LEMMA CopiesKeep ==
  ASSUME TypeInv, RowsInv, NEW p \in Openers, Execute(p), Copying(p, 1 .. 4)
  PROVE  /\ db'.version = db.version /\ db'.fts = db.fts /\ db'.by = db.by
         /\ db.by # "none"
         /\ Copying(p, {3}) \/ db'.indexes = db.indexes
<1>1. 1 \in 1 .. 4 /\ 2 \in 1 .. 4 /\ 3 \in 1 .. 4 /\ 4 \in 1 .. 4
  OBVIOUS
<1>2. \A k \in 1 .. 4 : Copying(p, {k}) =>
         /\ Said(p) = migrateSymbolDeclarationKey.does[k]
         /\ Executes(Said(p)) /\ db' = Executed(Said(p)) /\ db \in File
  BY CopyStep DEF TypeInv
<1>3. db.by # "none"
  BY CopyingMore DEF RowsInv
<1>4. CASE Copying(p, {1})
  BY <1>1, <1>2, <1>3, <1>4, KeyStage, CopyCreated
<1>5. CASE Copying(p, {2})
  BY <1>1, <1>2, <1>3, <1>5, KeyStage, RowsCopied
<1>6. CASE Copying(p, {3})
  BY <1>1, <1>2, <1>3, <1>6, KeyStage, TableDropped
<1>7. CASE Copying(p, {4})
  <2>1. db.declkey.cols = Columns /\ ~db.declkey.unique
    BY <1>7, CopyingMore DEF RowsInv
  <2>2. QED  BY <1>1, <1>2, <1>3, <1>7, <2>1, KeyStage, CopyRenamed
<1>8. QED  BY <1>4, <1>5, <1>6, <1>7, CopyingMore

LEMMA VersionStep ==
  ASSUME TypeInv, RowsInv, StagesInv, NEW p \in Openers,
         Quiet(p) \/ Finds(p) \/ Execute(p) \/ \E dirty \in BOOLEAN : Commits(p, dirty)
  PROVE  db'.fts = "porter" => db'.version \in 1 .. schemaVersion - 1
<1>1. SUFFICES ASSUME db'.fts = "porter" PROVE db'.version \in 1 .. schemaVersion - 1
  OBVIOUS
<1>2. db.fts = "porter" /\ db.version \in 1 .. schemaVersion - 1
  BY <1>1, StepGrows DEF Grows, StagesInv
<1>3. CASE Execute(p) /\ Copying(p, 1 .. 4)
  BY <1>2, <1>3, CopiesKeep
<1>4. CASE Execute(p) /\ ~Copying(p, 1 .. 4)
  <2>1. Said(p).op # "set_version"
    <3>1. SUFFICES ASSUME Said(p).op = "set_version" PROVE FALSE
      OBVIOUS
    <3>2. PICK o : o = opening[p]
      OBVIOUS
    <3>3. /\ Ensuring(p) /\ ~Through(p)
          /\ o.stmt \in 1 .. Len(Stages(o.how)[o.stage].does)
          /\ Stages(o.how)[o.stage].does[o.stmt].op = "set_version"
          /\ o.stage \in 1 .. Len(Stages(o.how))
      BY <1>4, <3>1, <3>2, ExecuteStep, Whereabouts DEF Said, Here
    <3>4. PICK j \in 1 .. o.stage - 1 : Stages(o.how)[j] = migrateFileContentFTS
      BY <3>3, VersionLast
    <3>5. Achieved(db, migrateFileContentFTS)
      BY <3>2, <3>3, <3>4 DEF StagesInv, Reached
    <3>6. QED  BY <1>2, <3>5, TextStage DEF Achieved
  <2>2. QED  BY <1>2, <1>4, <2>1, PlainStep
<1>5. ASSUME NEW dirty \in BOOLEAN, Commits(p, dirty)
      PROVE  db'.version \in 1 .. schemaVersion - 1
  BY <1>2, <1>5, IndexWritten DEF Commits, TypeInv
<1>6. CASE db' = db
  BY <1>2, <1>6
<1>7. QED  BY <1>3, <1>4, <1>5, <1>6 DEF Quiet, Finds

LEMMA OtherStage ==
  migrateFileContentFTS # migrateSymbolDeclarationKey
  BY KeyStage, TextStage

(* At which statement of the text stage a process is.                      *)
LEMMA TextStep ==
  ASSUME TypeInv, NEW p \in Openers, Execute(p)
  PROVE  /\ Indexing(p, {2})' <=> Indexing(p, {1})
         /\ Indexing(p, {3})' <=> Indexing(p, {2})
         /\ Indexing(p, {2, 3})' <=> Indexing(p, {1, 2})
<1>1. Ensuring(p) /\ ~Through(p) /\ opening[p].stmt \in Nat
  BY ExecuteStep DEF TypeInv, Placed, Place
<1>2. CASE opening[p].stmt < Len(Here(p).does)
  <2>1. Become(p, Moves(p))
    BY <1>2, ExecuteStep
  <2>2. \A g, ks : In(p, g, ks)' <=> Here(p) = g /\ opening[p].stmt + 1 \in ks
    BY <1>1, <2>1, AfterMoves
  <2>3. \A n \in Nat : /\ n + 1 \in {2} <=> n \in {1}
                       /\ n + 1 \in {3} <=> n \in {2}
                       /\ n + 1 \in {2, 3} <=> n \in {1, 2}
    OBVIOUS
  <2>4. \A ks : Indexing(p, ks) <=> Here(p) = migrateFileContentFTS /\ opening[p].stmt \in ks
    BY <1>1 DEF Indexing, In
  <2>5. \A ks : Indexing(p, ks)' <=> Here(p) = migrateFileContentFTS
                                     /\ opening[p].stmt + 1 \in ks
    BY <2>2 DEF Indexing
  <2>6. QED  BY <1>1, <2>3, <2>4, <2>5
<1>3. CASE ~(opening[p].stmt < Len(Here(p).does))
  <2>1. Become(p, Ends(p))
    BY <1>3, ExecuteStep
  <2>2. ~Indexing(p, {2})' /\ ~Indexing(p, {3})' /\ ~Indexing(p, {2, 3})'
    BY <2>1, AfterEnds DEF Indexing
  <2>3. ~Indexing(p, {1}) /\ ~Indexing(p, {2}) /\ ~Indexing(p, {1, 2})
    <3>1. Here(p) = migrateFileContentFTS => Len(Here(p).does) = 3
      BY TextStage
    <3>2. \A n \in Nat : ~(n < 3) => n \notin {1, 2}
      OBVIOUS
    <3>3. Here(p) = migrateFileContentFTS => ~(opening[p].stmt < 3)
      BY <1>3, <3>1
    <3>4. QED  BY <1>1, <3>2, <3>3 DEF Indexing, In
  <2>4. QED  BY <2>2, <2>3
<1>4. QED  BY <1>2, <1>3

LEMMA TextSaid ==
  ASSUME NEW p
  PROVE  /\ Indexing(p, {1}) => Said(p) = Statement("drop_fts", "")
         /\ Indexing(p, {2}) => Said(p) = Statement("create_fts", "")
         /\ Indexing(p, {3}) => Said(p) = Statement("fill_fts", "")
         /\ Indexing(p, {2, 3}) <=> Indexing(p, {2}) \/ Indexing(p, {3})
         /\ Indexing(p, {1, 2}) <=> Indexing(p, {1}) \/ Indexing(p, {2})
         /\ Indexing(p, {1}) \/ Indexing(p, {2, 3}) => ~Copying(p, 1 .. 4)
<1>1. /\ Indexing(p, {1}) => Said(p) = Statement("drop_fts", "")
      /\ Indexing(p, {2}) => Said(p) = Statement("create_fts", "")
      /\ Indexing(p, {3}) => Said(p) = Statement("fill_fts", "")
  BY TextStage DEF Said, Indexing, In
<1>2. /\ Indexing(p, {2, 3}) <=> Indexing(p, {2}) \/ Indexing(p, {3})
      /\ Indexing(p, {1, 2}) <=> Indexing(p, {1}) \/ Indexing(p, {2})
  BY DEF Indexing, In
<1>3. Indexing(p, {1}) \/ Indexing(p, {2, 3}) => ~Copying(p, 1 .. 4)
  BY OtherStage DEF Indexing, Copying, In
<1>4. QED  BY <1>1, <1>2, <1>3

LEMMA NoOldText ==
  ASSUME TypeInv, RowsInv, StagesInv, NEW p \in Openers,
         Quiet(p) \/ Finds(p) \/ Execute(p) \/ \E dirty \in BOOLEAN : Commits(p, dirty)
  PROVE  \A q \in Openers : Indexing(q, {2, 3})' => db'.fts # "porter"
<1>1. Grows
  BY StepGrows
<1>2. ASSUME NEW q \in Openers, q # p, Indexing(q, {2, 3})' PROVE db'.fts # "porter"
  <2>1. \E st : Become(p, st)
    BY ExecuteStep DEF Quiet, Finds, Commits
  <2>2. Indexing(q, {2, 3})
    BY <1>2, <2>1, OthersStay DEF Indexing
  <2>3. QED  BY <1>1, <2>2 DEF StagesInv, Grows
<1>3. ASSUME Indexing(p, {2, 3})' PROVE db'.fts # "porter"
  <2>1. Execute(p)
    <3>1. 0 \notin {2, 3} /\ 1 \notin {2, 3}
      OBVIOUS
    <3>2. QED  BY <1>3, <3>1, NowhereAfterQuiet, AfterFinds, AfterCommits DEF Indexing
  <2>2. Indexing(p, {1}) \/ Indexing(p, {2})
    BY <1>3, <2>1, TextStep, TextSaid
  <2>3. CASE Indexing(p, {2})
    BY <1>1, <2>3, TextSaid DEF StagesInv, Grows
  <2>4. CASE Indexing(p, {1})
    <3>1. /\ Said(p) = Statement("drop_fts", "") /\ ~Copying(p, 1 .. 4)
      BY <2>4, TextSaid
    <3>2. Said(p).op = "drop_fts"
      BY <3>1, SaidParts
    <3>3. db' = Executed(Said(p)) /\ db \in File
      BY <2>1, <3>1, PlainStep DEF TypeInv
    <3>4. db' = [db EXCEPT !.fts = "none"]
      BY <3>2, <3>3 DEF Executed
    <3>5. db'.fts = "none"
      BY <3>3, <3>4, FtsPut
    <3>6. QED  BY <3>5
  <2>5. QED  BY <2>2, <2>3, <2>4
<1>4. QED  BY <1>2, <1>3

LEMMA NoOldKey ==
  ASSUME TypeInv, RowsInv, StagesInv, NEW p \in Openers,
         Quiet(p) \/ Finds(p) \/ Execute(p) \/ \E dirty \in BOOLEAN : Commits(p, dirty)
  PROVE  \A q \in Openers : Copying(q, 4 .. 6)' => ~db'.symbols.unique
<1>1. Grows
  BY StepGrows
<1>2. ASSUME NEW q \in Openers, q # p, Copying(q, 4 .. 6)' PROVE ~db'.symbols.unique
  <2>1. \E st : Become(p, st)
    BY ExecuteStep DEF Quiet, Finds, Commits
  <2>2. Copying(q, 4 .. 6)
    BY <1>2, <2>1, OthersStay DEF Copying
  <2>3. QED  BY <1>1, <2>2 DEF StagesInv, Grows
<1>3. ASSUME Copying(p, 4 .. 6)' PROVE ~db'.symbols.unique
  <2>1. Execute(p)
    <3>1. 0 \notin 4 .. 6 /\ 1 \notin 4 .. 6
      OBVIOUS
    <3>2. QED  BY <1>3, <3>1, NowhereAfterQuiet, AfterFinds, AfterCommits DEF Copying
  <2>2. CASE ~Copying(p, 1 .. 4)
    <3>1. Copying(p, {5})
      <4>1. 0 \notin 4 .. 6
        OBVIOUS
      <4>2. QED  BY <1>3, <2>1, <2>2, <4>1, AfterPlain
    <3>2. Copying(p, 4 .. 6)
      BY <3>1 DEF Copying, In
    <3>3. QED  BY <1>1, <3>2 DEF StagesInv, Grows
  <2>3. CASE Copying(p, {1}) \/ Copying(p, {2})
    <3>1. 1 \in 1 .. 4 /\ 2 \in 1 .. 4 /\ 1 + 1 \notin 4 .. 6 /\ 2 + 1 \notin 4 .. 6
      OBVIOUS
    <3>2. QED  BY <1>3, <2>1, <2>3, <3>1, CopyStep
  <2>4. CASE Copying(p, {3})
    <3>1. 3 \in 1 .. 4
      OBVIOUS
    <3>2. /\ Said(p) = Statement("drop_table", "") /\ Executes(Said(p))
          /\ db' = Executed(Said(p)) /\ db \in File
      BY <2>1, <2>4, <3>1, CopyStep, KeyStage DEF TypeInv
    <3>3. db.by # "none"
      BY <2>4, CopyingMore DEF RowsInv
    <3>4. db'.symbols = NoTable
      BY <3>2, <3>3, TableDropped
    <3>5. QED  BY <3>4, TablesTyped
  <2>5. CASE Copying(p, {4})
    <3>1. Copying(p, 4 .. 6)
      BY <2>5 DEF Copying, In
    <3>2. QED  BY <1>1, <3>1 DEF StagesInv, Grows
  <2>6. QED  BY <2>2, <2>3, <2>4, <2>5, CopyingMore
<1>4. QED  BY <1>2, <1>3

LEMMA StagesStep ==
  ASSUME TypeInv, RowsInv, StagesInv, NEW p \in Openers,
         Open(p) \/ Create(p) \/ Progress(p) \/ Close(p) \/ Kill(p)
  PROVE  StagesInv'
<1>1. Quiet(p) \/ Finds(p) \/ Execute(p) \/ \E dirty \in BOOLEAN : Commits(p, dirty)
  BY Steps
<1>2. Grows
  BY <1>1, StepGrows
<1>3. ASSUME NEW q \in Openers PROVE Reached(q)'
  <2>1. \E st : Become(p, st)
    BY <1>1, ExecuteStep DEF Quiet, Finds, Commits
  <2>2. CASE q # p
    <3>1. opening'[q] = opening[q]
      BY <2>1, <2>2, OthersStay
    <3>2. Reached(q)
      BY DEF StagesInv
    <3>3. QED  BY <1>2, <3>1, <3>2, ReachedStays
  <2>3. CASE q = p
    BY <2>3, ReachedStep
  <2>4. QED  BY <2>2, <2>3
<1>4. QED  BY <1>1, <1>3, VersionStep, NoOldText, NoOldKey DEF StagesInv

-----------------------------------------------------------------------------
(* Unless a stage was cut short, what it took away it puts back.           *)
RowsThere ==
  db.by # "none" => db.symbols.row # << >> \/ \E p \in Openers : Copying(p, {4})
TextThere ==
  db.by # "none" => db.fts \in {"porter", "full"} \/ \E p \in Openers : Indexing(p, {2, 3})
IndexesThere ==
  db.by # "none" /\ ~db.symbols.unique =>
    SymbolIndexes \subseteq db.indexes \/ \E p \in Openers : Copying(p, 4 .. 6)
FirstIndexThere ==
  \A p \in Openers : Copying(p, {6}) =>
    "idx_symbols_repo" \in db.indexes \/ \E q \in Openers : Copying(q, {4, 5})

WholeInv == ~torn => RowsThere /\ TextThere /\ IndexesThere /\ FirstIndexThere

LEMMA TornStays ==
  ASSUME NEW p \in Openers, Open(p) \/ Create(p) \/ Progress(p) \/ Close(p) \/ Kill(p), ~torn'
  PROVE  ~torn
  BY DEF Open, Create, Progress, Close, Kill, Look, Execute, Fails, Opened, WriteIndex

(* A process amid a stage goes on with it, or it is cut short.             *)
LEMMA GoesOn ==
  ASSUME TypeInv, NEW p \in Openers,
         Open(p) \/ Create(p) \/ Progress(p) \/ Close(p) \/ Kill(p), ~torn',
         Copying(p, 2 .. 6) \/ Indexing(p, {2, 3})
  PROVE  Execute(p)
<1>1. /\ Ensuring(p) /\ ~Through(p)
      /\ Here(p) \in {migrateSymbolDeclarationKey, migrateFileContentFTS}
      /\ opening[p].stmt \in 2 .. 6 \/ opening[p].stmt \in {2, 3}
  BY DEF Copying, Indexing, In
<1>2. opening[p].stmt > 1 /\ opening[p].stmt # 0
  BY <1>1
<1>3. Here(p) # migrateEdgesDedup
  <2>1. /\ migrateEdgesDedup # migrateSymbolDeclarationKey
        /\ migrateEdgesDedup # migrateFileContentFTS
    BY KeyStage, TextStage, DedupStage
  <2>2. QED  BY <1>1, <2>1
<1>4. CutShort(p)
  BY <1>2, <1>3 DEF CutShort
<1>5. ~Open(p) /\ ~Create(p) /\ ~Close(p)
  BY <1>1 DEF Open, Create, Close, Ensuring
<1>6. ~Fails(p) /\ ~Kill(p)
  BY <1>1, <1>4 DEF Fails, Kill
<1>7. ~Look(p) /\ ~Opened(p) /\ \A dirty \in BOOLEAN : ~WriteIndex(p, dirty)
  BY <1>1, <1>2 DEF Look, Opened, WriteIndex
<1>8. QED  BY <1>5, <1>6, <1>7 DEF Progress

(* Other steps than those of a stage leave those amid one where they are.  *)
LEMMA OthersHold ==
  ASSUME TypeInv, NEW p \in Openers,
         Open(p) \/ Create(p) \/ Progress(p) \/ Close(p) \/ Kill(p), ~torn', ~Execute(p)
  PROVE  /\ Quiet(p) \/ Finds(p) \/ \E dirty \in BOOLEAN : Commits(p, dirty)
         /\ \A q \in Openers : /\ Copying(q, {4}) => Copying(q, {4})'
                               /\ Copying(q, {4, 5}) => Copying(q, {4, 5})'
                               /\ Copying(q, 4 .. 6) => Copying(q, 4 .. 6)'
                               /\ Copying(q, {6})' => Copying(q, {6})
                               /\ Indexing(q, {2, 3}) => Indexing(q, {2, 3})'
<1>1. Quiet(p) \/ Finds(p) \/ \E dirty \in BOOLEAN : Commits(p, dirty)
  BY Steps
<1>2. \E st : Become(p, st)
  BY <1>1 DEF Quiet, Finds, Commits
<1>3. ~Copying(p, 2 .. 6) /\ ~Indexing(p, {2, 3})
  BY GoesOn
<1>4. ~Copying(p, {4}) /\ ~Copying(p, {4, 5}) /\ ~Copying(p, 4 .. 6)
  <2>1. {4} \subseteq 2 .. 6 /\ {4, 5} \subseteq 2 .. 6 /\ 4 .. 6 \subseteq 2 .. 6
    OBVIOUS
  <2>2. QED  BY <1>3, <2>1 DEF Copying, In
<1>5. ~Copying(p, {6})'
  <2>1. 0 \notin {6} /\ 1 \notin {6}
    OBVIOUS
  <2>2. QED  BY <1>1, <2>1, NowhereAfterQuiet, AfterFinds, AfterCommits DEF Copying
<1>6. \A q \in Openers : q # p => /\ \A ks : Copying(q, ks)' <=> Copying(q, ks)
                                  /\ \A ks : Indexing(q, ks)' <=> Indexing(q, ks)
  BY <1>2, OthersStay DEF Copying, Indexing
<1>7. QED  BY <1>1, <1>3, <1>4, <1>5, <1>6

LEMMA RowsThereStep ==
  ASSUME TypeInv, RowsInv, RowsThere, NEW p \in Openers,
         Open(p) \/ Create(p) \/ Progress(p) \/ Close(p) \/ Kill(p), ~torn'
  PROVE  RowsThere'
<1>1. CASE ~Execute(p)
  <2>1. CASE db' = db
    BY <1>1, <2>1, OthersHold DEF RowsThere
  <2>2. ASSUME NEW dirty \in BOOLEAN, Commits(p, dirty) PROVE RowsThere'
    <3>1. db'.symbols.row # << >>
      BY <2>2, IndexWritten DEF Commits, TypeInv
    <3>2. QED  BY <3>1 DEF RowsThere
  <2>3. QED  BY <1>1, <2>1, <2>2, OthersHold DEF Quiet, Finds
<1>2. CASE Execute(p) /\ Copying(p, {3})
  <2>1. 3 \in 1 .. 4 /\ 3 + 1 \in {4}
    OBVIOUS
  <2>2. Copying(p, {4})'
    BY <1>2, <2>1, CopyStep
  <2>3. QED  BY <2>2 DEF RowsThere
<1>3. CASE Execute(p) /\ Copying(p, {4})
  <2>1. 4 \in 1 .. 4
    OBVIOUS
  <2>2. /\ Said(p) = Statement("rename_copy", "") /\ Executes(Said(p))
        /\ db' = Executed(Said(p)) /\ db \in File
    BY <1>3, <2>1, CopyStep, KeyStage DEF TypeInv
  <2>3. db.declkey.cols = Columns /\ ~db.declkey.unique /\ db.declkey.row # << >>
    BY <1>3, CopyingMore DEF RowsInv
  <2>4. db'.symbols.row # << >>
    BY <2>2, <2>3, CopyRenamed
  <2>5. QED  BY <2>4 DEF RowsThere
<1>4. CASE Execute(p) /\ ~Copying(p, {3}) /\ ~Copying(p, {4})
  <2>1. (db'.symbols.row = << >> <=> db.symbols.row = << >>) /\ db'.by = db.by
    <3>1. CASE ~Copying(p, 1 .. 4)
      BY <1>4, <3>1, PlainStep
    <3>2. 1 \in 1 .. 4 /\ 2 \in 1 .. 4
      OBVIOUS
    <3>3. \A k \in 1 .. 4 : Copying(p, {k}) =>
             /\ Said(p) = migrateSymbolDeclarationKey.does[k]
             /\ Executes(Said(p)) /\ db' = Executed(Said(p)) /\ db \in File
      BY <1>4, CopyStep DEF TypeInv
    <3>4. CASE Copying(p, {1})
      BY <3>2, <3>3, <3>4, KeyStage, CopyCreated
    <3>5. CASE Copying(p, {2})
      BY <3>2, <3>3, <3>5, KeyStage, RowsCopied
    <3>6. QED  BY <1>4, <3>1, <3>4, <3>5, CopyingMore
  <2>2. \E st : Become(p, st)
    BY <1>4, ExecuteStep
  <2>3. \A q \in Openers : Copying(q, {4}) => Copying(q, {4})'
    BY <1>4, <2>2, OthersStay DEF Copying
  <2>4. QED  BY <2>1, <2>3 DEF RowsThere
<1>5. QED  BY <1>1, <1>2, <1>3, <1>4

LEMMA TextWhere ==
  ASSUME TypeInv, NEW p \in Openers, Execute(p), ~Copying(p, 1 .. 4),
         ~Indexing(p, {1}), ~Indexing(p, {2}), ~Indexing(p, {3})
  PROVE  Said(p).op \notin {"drop_fts", "create_fts", "fill_fts"}
<1>1. PICK g : g = Here(p)
  OBVIOUS
<1>2. PICK k : k = opening[p].stmt
  OBVIOUS
<1>3. /\ Ensuring(p) /\ ~Through(p) /\ Kind(g) /\ k \in 1 .. Len(g.does) /\ Said(p) = g.does[k]
  BY <1>1, <1>2, ExecuteStep DEF Said
<1>4. CASE g.if = "always"
  <2>1. k = 1 /\ g.does[1].op \in AlwaysOps
    BY <1>3, <1>4, KindParts
  <2>2. QED  BY <1>3, <2>1 DEF AlwaysOps
<1>5. CASE g.if = "no_table"
  <2>1. k = 1 /\ \E x : g.does[1] = Statement("create_table", x)
    BY <1>3, <1>5, KindParts
  <2>2. \E x : Said(p) = Statement("create_table", x)
    BY <1>3, <2>1
  <2>3. QED  BY <2>2, SaidParts
<1>6. CASE g.if = "no_column"
  <2>1. k = 1 /\ \E x : g.does[1] = Statement("add_column", x)
    BY <1>3, <1>6, KindParts
  <2>2. \E x : Said(p) = Statement("add_column", x)
    BY <1>3, <2>1
  <2>3. QED  BY <2>2, SaidParts
<1>7. CASE g.if = "no_index"
  <2>1. g = migrateEdgesDedup
    BY <1>3, <1>7, KindParts
  <2>2. k \in 1 .. 2
    BY <1>3, <2>1, DedupStage
  <2>3. k = 1 \/ k = 2
    BY <2>2
  <2>4. Said(p) = Statement("delete_duplicates", "") \/ Said(p) = Statement("create_index", "edges_pair")
    BY <1>3, <2>1, <2>3, DedupStage
  <2>5. \/ \E x : Said(p) = Statement("delete_duplicates", x)
        \/ \E x : Said(p) = Statement("create_index", x)
    BY <2>4
  <2>6. Said(p).op = "delete_duplicates" \/ Said(p).op = "create_index"
    BY <2>5, SaidParts
  <2>7. QED  BY <2>6
<1>8. CASE g.if = "old_text"
  <2>1. g = migrateFileContentFTS
    BY <1>3, <1>8, KindParts
  <2>2. k \in 1 .. 3
    BY <1>3, <2>1, TextStage
  <2>3. k \in {1} \/ k \in {2} \/ k \in {3}
    BY <2>2
  <2>4. QED  BY <1>1, <1>2, <1>3, <2>1, <2>3 DEF Indexing, In
<1>9. CASE g.if = "unique_key"
  <2>1. g = migrateSymbolDeclarationKey /\ opening[p].stmt > 0
    BY <1>3, <1>9, KindParts DEF Execute
  <2>2. Said(p).op = "create_index"
    BY <1>1, <1>3, <2>1, StatementsOfKey
  <2>3. QED  BY <2>2
<1>10. QED  BY <1>3, <1>4, <1>5, <1>6, <1>7, <1>8, <1>9, KindParts

LEMMA TextThereStep ==
  ASSUME TypeInv, RowsInv, TextThere, NEW p \in Openers,
         Open(p) \/ Create(p) \/ Progress(p) \/ Close(p) \/ Kill(p), ~torn'
  PROVE  TextThere'
<1>0. db \in File /\ db.fts \in {"none", "porter", "empty", "full"}
  BY DEF TypeInv, File
<1>1. CASE ~Execute(p)
  <2>1. CASE db' = db
    BY <1>1, <2>1, OthersHold DEF TextThere
  <2>2. ASSUME NEW dirty \in BOOLEAN, Commits(p, dirty) PROVE TextThere'
    <3>1. db'.fts = IF dirty /\ db.fts = "empty" THEN "full" ELSE db.fts
      BY <1>0, <2>2, IndexWritten DEF Commits
    <3>2. CASE db.by # "none"
      BY <1>1, <3>1, <3>2, OthersHold DEF TextThere
    <3>3. CASE db.by = "none"
      <4>1. dirty /\ db.fts # "none"
        BY <2>2, <3>3 DEF Commits, Writes
      <4>2. db'.fts \in {"porter", "full"}
        BY <1>0, <3>1, <4>1
      <4>3. QED  BY <4>2 DEF TextThere
    <3>4. QED  BY <3>2, <3>3
  <2>3. QED  BY <1>1, <2>1, <2>2, OthersHold DEF Quiet, Finds
<1>2. CASE Execute(p) /\ (Indexing(p, {1}) \/ Indexing(p, {2}))
  <2>1. Indexing(p, {2, 3})'
    BY <1>2, TextStep, TextSaid
  <2>2. QED  BY <2>1 DEF TextThere
<1>3. CASE Execute(p) /\ Indexing(p, {3})
  <2>1. Said(p) = Statement("fill_fts", "") /\ ~Copying(p, 1 .. 4)
    BY <1>3, TextSaid
  <2>2. Said(p).op = "fill_fts"
    BY <2>1, SaidParts
  <2>3. Executes(Said(p)) /\ db' = Executed(Said(p))
    BY <1>3, <2>1, PlainStep
  <2>4. db.fts # "none" /\ db' = [db EXCEPT !.fts = IF db.fts = "empty" THEN "full" ELSE db.fts]
    BY <2>2, <2>3 DEF Executes, Executed
  <2>5. db'.fts = IF db.fts = "empty" THEN "full" ELSE db.fts
    BY <1>0, <2>4, FtsPut
  <2>6. db'.fts \in {"porter", "full"}
    BY <1>0, <2>4, <2>5
  <2>7. QED  BY <2>6 DEF TextThere
<1>4. CASE Execute(p) /\ ~Indexing(p, {1}) /\ ~Indexing(p, {2}) /\ ~Indexing(p, {3})
  <2>1. db'.by = db.by /\ (db.fts \in {"porter", "full"} => db'.fts = db.fts)
    <3>1. CASE Copying(p, 1 .. 4)
      BY <1>4, <3>1, CopiesKeep
    <3>2. CASE ~Copying(p, 1 .. 4)
      <4>1. Said(p).op \notin {"drop_fts", "create_fts", "fill_fts"}
        BY <1>4, <3>2, TextWhere
      <4>2. CASE Said(p).op = "ensure_fts"
        <5>1. db' = [db EXCEPT !.fts = IF db.fts = "none" THEN "empty" ELSE db.fts] /\ db'.by = db.by
          BY <1>4, <3>2, <4>2, PlainStep DEF Executed
        <5>2. db'.fts = IF db.fts = "none" THEN "empty" ELSE db.fts
          BY <1>0, <5>1, FtsPut
        <5>3. QED  BY <5>1, <5>2
      <4>3. CASE Said(p).op # "ensure_fts"
        BY <1>4, <3>2, <4>1, <4>3, PlainStep
      <4>4. QED  BY <4>2, <4>3
    <3>3. QED  BY <3>1, <3>2
  <2>2. \E st : Become(p, st)
    BY <1>4, ExecuteStep
  <2>3. \A q \in Openers : Indexing(q, {2, 3}) => Indexing(q, {2, 3})'
    BY <1>4, <2>2, OthersStay, TextSaid DEF Indexing
  <2>4. QED  BY <2>1, <2>3 DEF TextThere
<1>5. QED  BY <1>1, <1>2, <1>3, <1>4

LEMMA IndexMade ==
  ASSUME TypeInv, NEW p \in Openers, Execute(p), ~Copying(p, 1 .. 4),
         NEW i \in Indexes, Said(p).op = "create_index", Said(p).on = i
  PROVE  i \in db'.indexes
<1>1. db' = [db EXCEPT !.indexes = @ \cup {i}] /\ db \in File
  BY PlainStep DEF Executed, TypeInv
<1>2. db.indexes \cup {i} \in SUBSET Indexes
  BY <1>1 DEF File
<1>3. QED  BY <1>1, <1>2, IndexesPut

LEMMA LastCopies ==
  ASSUME TypeInv, NEW p \in Openers, Execute(p)
  PROVE  /\ Copying(p, {5}) => Copying(p, 4 .. 6)' /\ "idx_symbols_repo" \in db'.indexes
         /\ Copying(p, {6}) => "idx_symbols_decl" \in db'.indexes
<1>1. ASSUME NEW k \in {5, 6}, Copying(p, {k})
      PROVE  /\ ~Copying(p, 1 .. 4) /\ opening[p].stmt = k
             /\ Said(p) = migrateSymbolDeclarationKey.does[k]
  BY <1>1 DEF Copying, In, Said
<1>2. ASSUME Copying(p, {5}) PROVE Copying(p, 4 .. 6)'
  <2>1. /\ Ensuring(p) /\ ~Through(p) /\ Here(p) = migrateSymbolDeclarationKey
        /\ opening[p].stmt = 5
    BY <1>2 DEF Copying, In
  <2>2. opening[p].stmt < Len(Here(p).does)
    BY <2>1, KeyLength
  <2>3. Become(p, Moves(p))
    BY <2>2, ExecuteStep
  <2>4. opening[p].stmt + 1 \in 4 .. 6
    BY <2>1
  <2>5. QED  BY <2>1, <2>3, <2>4, AfterMoves DEF Copying
<1>3. ASSUME Copying(p, {5}) PROVE "idx_symbols_repo" \in db'.indexes
  <2>1. ~Copying(p, 1 .. 4) /\ Said(p) = Statement("create_index", "idx_symbols_repo")
    BY <1>1, <1>3, KeyStage
  <2>2. Said(p).op = "create_index" /\ Said(p).on = "idx_symbols_repo"
    BY <2>1, SaidParts
  <2>3. QED  BY <2>1, <2>2, IndexMade DEF Indexes
<1>4. ASSUME Copying(p, {6}) PROVE "idx_symbols_decl" \in db'.indexes
  <2>1. ~Copying(p, 1 .. 4) /\ Said(p) = Statement("create_index", "idx_symbols_decl")
    BY <1>1, <1>4, KeyStage
  <2>2. Said(p).op = "create_index" /\ Said(p).on = "idx_symbols_decl"
    BY <2>1, SaidParts
  <2>3. QED  BY <2>1, <2>2, IndexMade DEF Indexes
<1>5. QED  BY <1>2, <1>3, <1>4

LEMMA WhereCopying ==
  ASSUME NEW p
  PROVE  /\ Copying(p, 4 .. 6) <=> Copying(p, {4}) \/ Copying(p, {5}) \/ Copying(p, {6})
         /\ Copying(p, {4, 5}) <=> Copying(p, {4}) \/ Copying(p, {5})
         /\ ~(Copying(p, {6}) /\ Copying(p, {4, 5}))
         /\ Copying(p, {1}) \/ Copying(p, {2}) => ~Copying(p, 4 .. 6) /\ ~Copying(p, {4, 5})
<1>1. 4 .. 6 = {4, 5, 6}
  OBVIOUS
<1>2. QED  BY <1>1 DEF Copying, In

(* Create has made the indexes of symbols before it writes the first rows. *)
LEMMA FirstIndexes ==
  ASSUME TypeInv, StagesInv, NEW p \in Openers, Through(p), opening[p].how = "create",
         db.by = "none"
  PROVE  SymbolIndexes \subseteq db.indexes
<1>1. Achieved(db, schemaSQL[3]) /\ Achieved(db, schemaSQL[4])
  BY AllReached DEF StagesInv
<1>2. /\ schemaSQL[3] = Always("ensure_index", "idx_symbols_decl")
      /\ schemaSQL[4] = Always("ensure_index", "idx_symbols_repo")
  BY DEF schemaSQL
<1>3. ASSUME NEW x, Achieved(db, Always("ensure_index", x)) PROVE x \in db.indexes
  <2>1. /\ Always("ensure_index", x).if = "always"
        /\ Always("ensure_index", x).does[1].op = "ensure_index"
        /\ Always("ensure_index", x).does[1].on = x
    BY DEF Always, Stage, Statement
  <2>2. QED  BY <1>3, <2>1 DEF Achieved
<1>4. QED  BY <1>1, <1>2, <1>3 DEF SymbolIndexes

LEMMA IndexesThereStep ==
  ASSUME TypeInv, RowsInv, StagesInv, IndexesThere, FirstIndexThere, NEW p \in Openers,
         Open(p) \/ Create(p) \/ Progress(p) \/ Close(p) \/ Kill(p), ~torn'
  PROVE  IndexesThere'
<1>1. CASE ~Execute(p)
  <2>1. CASE db' = db
    BY <1>1, <2>1, OthersHold DEF IndexesThere
  <2>2. ASSUME NEW dirty \in BOOLEAN, Commits(p, dirty) PROVE IndexesThere'
    <3>1. db'.indexes = db.indexes /\ db'.symbols.unique = db.symbols.unique
      BY <2>2, IndexWritten DEF Commits, TypeInv
    <3>2. CASE db.by # "none"
      BY <1>1, <3>1, <3>2, OthersHold DEF IndexesThere
    <3>3. CASE db.by = "none"
      <4>1. SymbolIndexes \subseteq db.indexes
        BY <2>2, <3>3, FirstIndexes DEF Commits
      <4>2. QED  BY <3>1, <4>1 DEF IndexesThere
    <3>4. QED  BY <3>2, <3>3
  <2>3. QED  BY <1>1, <2>1, <2>2, OthersHold DEF Quiet, Finds
<1>2. CASE Execute(p) /\ (Copying(p, {3}) \/ Copying(p, {4}))
  <2>1. 3 \in 1 .. 4 /\ 4 \in 1 .. 4 /\ 3 + 1 \in 4 .. 6 /\ 4 + 1 \in 4 .. 6
    OBVIOUS
  <2>2. Copying(p, 4 .. 6)'
    BY <1>2, <2>1, CopyStep
  <2>3. QED  BY <2>2 DEF IndexesThere
<1>3. CASE Execute(p) /\ Copying(p, {5})
  <2>1. Copying(p, 4 .. 6)'
    BY <1>3, LastCopies
  <2>2. QED  BY <2>1 DEF IndexesThere
<1>4. CASE Execute(p) /\ Copying(p, {6})
  <2>1. ~Copying(p, 1 .. 4)
    BY <1>4, CopyingMore DEF Copying, In
  <2>2. db.indexes \subseteq db'.indexes /\ "idx_symbols_decl" \in db'.indexes
    BY <1>4, <2>1, PlainStep, LastCopies
  <2>3. CASE "idx_symbols_repo" \in db.indexes
    BY <2>2, <2>3 DEF IndexesThere, SymbolIndexes
  <2>4. ASSUME NEW q \in Openers, Copying(q, {4, 5}) PROVE IndexesThere'
    <3>1. q # p
      BY <1>4, <2>4, WhereCopying
    <3>2. Copying(q, 4 .. 6)
      BY <2>4, WhereCopying
    <3>3. \E st : Become(p, st)
      BY <1>4, ExecuteStep
    <3>4. Copying(q, 4 .. 6)'
      BY <3>1, <3>2, <3>3, OthersStay DEF Copying
    <3>5. QED  BY <3>4 DEF IndexesThere
  <2>5. QED  BY <1>4, <2>3, <2>4 DEF FirstIndexThere
<1>5. CASE Execute(p) /\ ~Copying(p, {3}) /\ ~Copying(p, 4 .. 6)
  <2>1. /\ db.indexes \subseteq db'.indexes /\ db'.by = db.by
        /\ db'.symbols.unique <=> db.symbols.unique
    <3>1. CASE ~Copying(p, 1 .. 4)
      BY <1>5, <3>1, PlainStep
    <3>2. 1 \in 1 .. 4 /\ 2 \in 1 .. 4
      OBVIOUS
    <3>3. \A k \in 1 .. 4 : Copying(p, {k}) =>
             /\ Said(p) = migrateSymbolDeclarationKey.does[k]
             /\ Executes(Said(p)) /\ db' = Executed(Said(p)) /\ db \in File
      BY <1>5, CopyStep DEF TypeInv
    <3>4. CASE Copying(p, {1})
      BY <3>2, <3>3, <3>4, KeyStage, CopyCreated
    <3>5. CASE Copying(p, {2})
      BY <3>2, <3>3, <3>5, KeyStage, RowsCopied
    <3>6. QED  BY <1>5, <3>1, <3>4, <3>5, CopyingMore, WhereCopying
  <2>2. \E st : Become(p, st)
    BY <1>5, ExecuteStep
  <2>3. \A q \in Openers : Copying(q, 4 .. 6) => Copying(q, 4 .. 6)'
    BY <1>5, <2>2, OthersStay DEF Copying
  <2>4. QED  BY <2>1, <2>3 DEF IndexesThere
<1>6. QED  BY <1>1, <1>2, <1>3, <1>4, <1>5, WhereCopying

LEMMA FirstIndexStep ==
  ASSUME TypeInv, RowsInv, FirstIndexThere, NEW p \in Openers,
         Open(p) \/ Create(p) \/ Progress(p) \/ Close(p) \/ Kill(p), ~torn'
  PROVE  FirstIndexThere'
<1>1. CASE ~Execute(p)
  <2>1. db'.indexes = db.indexes
    BY <1>1, OthersHold, IndexWritten DEF Quiet, Finds, Commits, TypeInv
  <2>2. QED  BY <1>1, <2>1, OthersHold DEF FirstIndexThere
<1>2. CASE Execute(p) /\ (Copying(p, {3}) \/ Copying(p, {4}))
  <2>1. 3 \in 1 .. 4 /\ 4 \in 1 .. 4 /\ 3 + 1 \in {4, 5} /\ 4 + 1 \in {4, 5}
    OBVIOUS
  <2>2. Copying(p, {4, 5})'
    BY <1>2, <2>1, CopyStep
  <2>3. QED  BY <2>2 DEF FirstIndexThere
<1>3. CASE Execute(p) /\ Copying(p, {5})
  BY <1>3, LastCopies DEF FirstIndexThere
<1>4. CASE Execute(p) /\ ~Copying(p, {3}) /\ ~Copying(p, {4}) /\ ~Copying(p, {5})
  <2>1. ~Copying(p, {6})'
    <3>1. CASE ~Copying(p, 1 .. 4)
      <4>1. 0 \notin {6}
        OBVIOUS
      <4>2. QED  BY <1>4, <3>1, <4>1, AfterPlain
    <3>2. CASE Copying(p, {1}) \/ Copying(p, {2})
      <4>1. 1 \in 1 .. 4 /\ 2 \in 1 .. 4 /\ 1 + 1 \notin {6} /\ 2 + 1 \notin {6}
        OBVIOUS
      <4>2. QED  BY <1>4, <3>2, <4>1, CopyStep
    <3>3. QED  BY <1>4, <3>1, <3>2, CopyingMore
  <2>2. db.indexes \subseteq db'.indexes
    <3>1. CASE ~Copying(p, 1 .. 4)
      BY <1>4, <3>1, PlainStep
    <3>2. CASE Copying(p, 1 .. 4)
      BY <1>4, <3>2, CopiesKeep
    <3>3. QED  BY <3>1, <3>2
  <2>3. \E st : Become(p, st)
    BY <1>4, ExecuteStep
  <2>4. \A q \in Openers : q # p => \A ks : Copying(q, ks)' <=> Copying(q, ks)
    BY <2>3, OthersStay DEF Copying
  <2>5. ASSUME NEW r \in Openers, Copying(r, {6})'
        PROVE  "idx_symbols_repo" \in db'.indexes \/ \E q \in Openers : Copying(q, {4, 5})'
    <3>1. Copying(r, {6})
      BY <2>1, <2>4, <2>5
    <3>2. CASE "idx_symbols_repo" \in db.indexes
      BY <2>2, <3>2
    <3>3. ASSUME NEW q \in Openers, Copying(q, {4, 5}) PROVE Copying(q, {4, 5})'
      BY <1>4, <2>4, <3>3, WhereCopying
    <3>4. QED  BY <3>1, <3>2, <3>3 DEF FirstIndexThere
  <2>6. QED  BY <2>5 DEF FirstIndexThere
<1>5. QED  BY <1>1, <1>2, <1>3, <1>4

LEMMA WholeStep ==
  ASSUME TypeInv, RowsInv, StagesInv, WholeInv, NEW p \in Openers,
         Open(p) \/ Create(p) \/ Progress(p) \/ Close(p) \/ Kill(p)
  PROVE  WholeInv'
<1>1. SUFFICES ASSUME ~torn'
               PROVE  RowsThere' /\ TextThere' /\ IndexesThere' /\ FirstIndexThere'
  BY DEF WholeInv
<1>2. RowsThere /\ TextThere /\ IndexesThere /\ FirstIndexThere
  BY <1>1, TornStays DEF WholeInv
<1>3. QED
  BY <1>1, <1>2, RowsThereStep, TextThereStep, IndexesThereStep, FirstIndexStep

LEMMA WholeInit ==
  ASSUME SchemaInit
  PROVE  StagesInv /\ WholeInv
<1>1. /\ db.by # "none" => /\ db.symbols.row # << >>
                           /\ db.fts \in {"porter", "full"}
                           /\ ~db.symbols.unique => SymbolIndexes \subseteq db.indexes
      /\ db.fts = "porter" => db.version \in 1 .. schemaVersion - 1
  BY DatabasesAssumption DEF SchemaInit
<1>2. \A p \in Openers : \A ks : ~Copying(p, ks) /\ ~Indexing(p, ks)
  BY NowhereAtFirst DEF Copying, Indexing
<1>3. \A p \in Openers : Reached(p)
  BY NowhereAtFirst, OpenedPlaced DEF Reached
<1>4. StagesInv
  BY <1>1, <1>2, <1>3 DEF StagesInv
<1>5. RowsThere /\ TextThere /\ IndexesThere /\ FirstIndexThere
  BY <1>1, <1>2 DEF RowsThere, TextThere, IndexesThere, FirstIndexThere
<1>6. QED  BY <1>4, <1>5 DEF WholeInv

LEMMA WholeInvariant == SchemaSpec => [](TypeInv /\ RowsInv /\ StagesInv /\ WholeInv)
<1> DEFINE I == TypeInv /\ RowsInv /\ StagesInv /\ WholeInv
<1>1. ASSUME I, [SchemaNext]_schemaVars PROVE I'
  <2>1. CASE SchemaNext
    <3>1. PICK p \in Openers : Open(p) \/ Create(p) \/ Progress(p) \/ Close(p) \/ Kill(p)
      BY <2>1, Parts
    <3>2. TypeInv' /\ RowsInv'
      BY <1>1, <3>1, Steps, TypeStep, RowsStep
    <3>3. StagesInv' /\ WholeInv'
      BY <1>1, <3>1, StagesStep, WholeStep
    <3>4. QED  BY <3>2, <3>3
  <2>2. CASE UNCHANGED schemaVars
    <3>1. /\ \A p : \A ks : Copying(p, ks)' <=> Copying(p, ks)
          /\ \A p : \A ks : Indexing(p, ks)' <=> Indexing(p, ks)
          /\ db' = db /\ opening' = opening /\ torn' = torn
      BY <2>2, SchemaStutter DEF Copying, Indexing
    <3>2. TypeInv'
      BY <1>1, <3>1 DEF TypeInv
    <3>3. RowsInv'
      BY <1>1, <3>1 DEF RowsInv, RowsSurvive
    <3>4. \A p \in Openers : Reached(p)'
      BY <1>1, <3>1 DEF StagesInv, Reached, Ensuring
    <3>5. StagesInv'
      BY <1>1, <3>1, <3>4 DEF StagesInv
    <3>6. WholeInv'
      BY <1>1, <3>1 DEF WholeInv, RowsThere, TextThere, IndexesThere, FirstIndexThere
    <3>7. QED  BY <3>2, <3>3, <3>5, <3>6
  <2>3. QED  BY <1>1, <2>1, <2>2
<1>2. SchemaInit => I
  BY RowsInit, WholeInit
<1>3. QED  BY <1>1, <1>2, PTL DEF SchemaSpec

(* What ensureSchema's stages are for, together, is the current schema.    *)
LEMMA EveryStage ==
  ASSUME \A i \in 1 .. 17 : Achieved(db, ensureSchema[i])
  PROVE  /\ db.version = schemaVersion /\ Tables \subseteq db.tables
         /\ Added \subseteq db.columns /\ ~db.symbols.unique
         /\ "edges_pair" \in db.indexes /\ db.fts # "porter"
         /\ db.symbols = NoTable
            \/ {"repo_id", "is_generated", "fields_json"} \subseteq Range(db.symbols.cols)
<1>1. ASSUME NEW t, Achieved(db, EnsureTable(t)) PROVE t \in db.tables
  <2>1. EnsureTable(t).if = "no_table" /\ EnsureTable(t).on = t
    BY EnsureStage
  <2>2. QED  BY <1>1, <2>1 DEF Achieved
<1>2. ASSUME NEW t, NEW c, Achieved(db, EnsureColumn(t, c))
      PROVE  IF t = "symbols" THEN db.symbols = NoTable \/ c \in Range(db.symbols.cols)
             ELSE <<t, c>> \in db.columns
  <2>1. EnsureColumn(t, c).if = "no_column" /\ EnsureColumn(t, c).on = <<t, c>>
    BY EnsureStage
  <2>2. <<t, c>>[1] = t /\ <<t, c>>[2] = c
    OBVIOUS
  <2>3. QED  BY <1>2, <2>1, <2>2 DEF Achieved
<1>3. Achieved(db, Always("read_version", "")) => "meta" \in db.tables
  BY DEF Achieved, Always, Stage, Statement
<1>4. Achieved(db, Always("set_version", "")) => db.version = schemaVersion
  BY DEF Achieved, Always, Stage, Statement
<1>5. /\ Achieved(db, migrateFileContentFTS) => db.fts # "porter"
      /\ Achieved(db, migrateEdgesDedup) => "edges_pair" \in db.indexes
      /\ Achieved(db, migrateSymbolDeclarationKey) => ~db.symbols.unique
  BY TextStage, DedupStage, KeyStage DEF Achieved
<1>6. /\ 1 \in 1 .. 17 /\ 2 \in 1 .. 17 /\ 3 \in 1 .. 17 /\ 4 \in 1 .. 17 /\ 5 \in 1 .. 17
      /\ 6 \in 1 .. 17 /\ 7 \in 1 .. 17 /\ 8 \in 1 .. 17 /\ 9 \in 1 .. 17 /\ 10 \in 1 .. 17
      /\ 11 \in 1 .. 17 /\ 12 \in 1 .. 17 /\ 13 \in 1 .. 17 /\ 14 \in 1 .. 17
      /\ 15 \in 1 .. 17 /\ 16 \in 1 .. 17 /\ 17 \in 1 .. 17
  OBVIOUS
<1>7. /\ Achieved(db, ensureSchema[1]) /\ Achieved(db, ensureSchema[2])
      /\ Achieved(db, ensureSchema[3]) /\ Achieved(db, ensureSchema[4])
      /\ Achieved(db, ensureSchema[5]) /\ Achieved(db, ensureSchema[6])
      /\ Achieved(db, ensureSchema[7]) /\ Achieved(db, ensureSchema[8])
      /\ Achieved(db, ensureSchema[9]) /\ Achieved(db, ensureSchema[10])
      /\ Achieved(db, ensureSchema[11]) /\ Achieved(db, ensureSchema[12])
      /\ Achieved(db, ensureSchema[13]) /\ Achieved(db, ensureSchema[14])
      /\ Achieved(db, ensureSchema[15]) /\ Achieved(db, ensureSchema[16])
      /\ Achieved(db, ensureSchema[17])
  BY <1>6
<1>8. /\ db.version = schemaVersion /\ ~db.symbols.unique
      /\ "edges_pair" \in db.indexes /\ db.fts # "porter"
  BY <1>4, <1>5, <1>7, EnsureStages
<1>9. "meta" \in db.tables /\ "repos" \in db.tables /\ "response_chunks" \in db.tables
      /\ "contracts" \in db.tables
  BY <1>1, <1>3, <1>7, EnsureStages
<1>10. /\ <<"packages", "repo_id">> \in db.columns /\ <<"edges", "repo_id">> \in db.columns
       /\ <<"files", "repo_id">> \in db.columns /\ <<"packages", "is_generated">> \in db.columns
       /\ <<"packages", "doc">> \in db.columns /\ <<"edges", "sites">> \in db.columns
  BY <1>2, <1>7, EnsureStages
<1>11. /\ db.symbols = NoTable \/ "repo_id" \in Range(db.symbols.cols)
       /\ db.symbols = NoTable \/ "is_generated" \in Range(db.symbols.cols)
       /\ db.symbols = NoTable \/ "fields_json" \in Range(db.symbols.cols)
  BY <1>2, <1>7, EnsureStages
<1>12. QED  BY <1>8, <1>9, <1>10, <1>11 DEF Tables, AddedTables, Added

(* ensureSchema and schema.sql (store.go Create, Open), whoever runs them  *)
(* on the file at the same time, fails or is killed - unless between two   *)
(* statements of a stage: once it is open and none is at work, the file    *)
(* has the current schema.                                                 *)
THEOREM OpenedIsWhole == SchemaSpec => []OpenedIsCurrent
<1>1. ASSUME TypeInv, RowsInv, StagesInv, WholeInv PROVE OpenedIsCurrent
  <2>1. SUFFICES ASSUME AtRest, ~torn, db.by # "none",
                        NEW p \in Openers, opening[p].at = "opened"
                 PROVE  /\ db.version = schemaVersion /\ db.tables = Tables /\ db.columns = Added
                        /\ Range(db.symbols.cols) = Range(Columns) /\ ~db.symbols.unique
                        /\ db.indexes = Indexes
                        /\ db.fts = "full"
    BY DEF OpenedIsCurrent
  <2>2. \A q \in Openers : \A ks : ~Copying(q, ks) /\ ~Indexing(q, ks)
    BY <2>1 DEF AtRest, Copying, Indexing, In
  <2>3. \A i \in 1 .. 17 : Achieved(db, ensureSchema[i])
    BY <1>1, <2>1 DEF StagesInv, Reached
  <2>4. db.symbols.row # << >> /\ db.fts \in {"porter", "full"}
    BY <1>1, <2>1, <2>2 DEF WholeInv, RowsThere, TextThere
  <2>5. SymbolIndexes \subseteq db.indexes
    BY <1>1, <2>1, <2>2, <2>3, EveryStage DEF WholeInv, IndexesThere
  <2>6. /\ db.tables \in SUBSET Tables /\ db.columns \in SUBSET Added
        /\ db.indexes \in SUBSET Indexes
    BY <1>1 DEF TypeInv, File
  <2>7. Range(db.symbols.cols) \subseteq Range(Columns)
    <3>1. db.symbols.cols \in Seq(Range(Columns))
      BY <1>1 DEF TypeInv, File, Table
    <3>2. \A i \in DOMAIN db.symbols.cols : db.symbols.cols[i] \in Range(Columns)
      BY <3>1, LenProperties, ElementOfSeq
    <3>3. QED  BY <3>2 DEF Range
  <2>8. Range(Columns) \subseteq Range(db.symbols.cols)
    <3>1. db.symbols # NoTable
      BY <2>4, TablesTyped
    <3>2. {"complexity", "importance"} \subseteq Range(db.symbols.cols)
      BY <1>1, <3>1 DEF RowsInv
    <3>3. {"repo_id", "is_generated", "fields_json"} \subseteq Range(db.symbols.cols)
      BY <2>3, <3>1, EveryStage
    <3>4. QED  BY <3>2, <3>3, ColumnNames
  <2>9. db.indexes = Indexes
    BY <2>3, <2>5, <2>6, EveryStage DEF Indexes, SymbolIndexes
  <2>10. QED  BY <2>3, <2>4, <2>6, <2>7, <2>8, <2>9, EveryStage
<1>2. QED  BY <1>1, WholeInvariant, PTL
=============================================================================

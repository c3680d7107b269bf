------------------------------ MODULE MCSchema ------------------------------
(* What a database file may be when it is opened: not there, as this       *)
(* program leaves it, or as earlier versions of it did.                    *)
EXTENDS Schema

None == NoFile

Full ==
  [version |-> schemaVersion, tables |-> Tables, columns |-> Added,
   symbols |-> [EmptyTable EXCEPT !.row = Columns, !.by = "old"],
   declkey |-> NoTable,
   indexes |-> {"idx_symbols_decl", "idx_symbols_repo", "edges_pair"},
   duplicates |-> FALSE, fts |-> "full", by |-> "old"]

(* Before a declaration's place was its key.                               *)
V4 == [Full EXCEPT !.version = 4, !.indexes = @ \ {"idx_symbols_decl"},
                   !.symbols.unique = TRUE]

(* Before trigrams.                                                        *)
V3 == [V4 EXCEPT !.version = 3, !.fts = "porter"]

(* Before is_generated, contracts and stored responses, and before an edge *)
(* was there once.                                                         *)
V2 == [V3 EXCEPT !.version = 2, !.tables = {"repos", "meta"},
                 !.columns = {<<t, "repo_id">> : t \in {"packages", "edges", "files"}},
                 !.symbols.cols = Tail(Columns), !.symbols.row = Tail(Columns),
                 !.indexes = {}, !.duplicates = TRUE]

(* Of one repository, whose rows are of no repo.                           *)
V2Single == [V2 EXCEPT !.symbols.row[3] = "null"]

TheDatabases == {None, Full, V4, V3, V2}
OldDatabase == {V2}
=============================================================================

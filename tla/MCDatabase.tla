----------------------------- MODULE MCDatabase -----------------------------
(* The file from the first look at it to its last write: processes bring it *)
(* to the current schema (Schema); once an index command has made it from   *)
(* nothing, with a server looking on, its tables are written (IndexTables). *)
EXTENDS MCIndexTables, MCSchema

DatabaseInit ==
  /\ SchemaInit
  /\ Init /\ src = [p \in Packages |-> 0]

(* Nothing has been written yet, and nothing is there to write.             *)
Unwritten == mode = "none" /\ src = [p \in Packages |-> 0]

(* The new file waits for its first write.                                  *)
Made ==
  /\ db = [Full EXCEPT !.symbols = EmptyTable, !.fts = "empty", !.by = "none"]
  /\ \A i \in Indexers : Through(i)
  /\ \A s \in Servers : opening[s].at = "opened"
  /\ crashes = 0

Opening == Unwritten /\ SchemaNext /\ UNCHANGED vars
Writing == Made /\ Next /\ UNCHANGED schemaVars

DatabaseSpec ==
  /\ DatabaseInit
  /\ [][Opening \/ Writing]_<<vars, schemaVars>>
  /\ \A p \in Openers : WF_schemaVars(Unwritten /\ Progress(p))
  /\ \A s \in Servers : WF_schemaVars(Unwritten /\ Open(s))
=============================================================================

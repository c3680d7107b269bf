---------------------------- MODULE IndexTables ----------------------------
(***************************************************************************)
(* The tables of one index database and the three transactions that write  *)
(* them: Write (one repository, rows of no repo), WriteWorkspace (every    *)
(* configured member) and ReplaceRepo (one member).  Each deletes rows by  *)
(* their repo_id and inserts those of the packages it parsed, attributing  *)
(* each row by rules of its own: packages by the module that was parsed,   *)
(* symbols and edges by the prefix of the import path, files by directory. *)
(* A row already there by its unique key is kept.                          *)
(*                                                                         *)
(* A package is one file with one declaration; a version stands for its    *)
(* text.  Parsing and writing are one step (IndexFreshness and Workspace   *)
(* take them apart); a transaction that fails changes nothing.             *)
(***************************************************************************)
EXTENDS Naturals, FiniteSets

CONSTANTS
  Members,      \* module paths that codemap.yaml may list
  Packages,     \* packages found in their checkouts
  Module,       \* Module[p]: the module whose go.mod encloses p
  Prefix,       \* Prefix[p]: the members whose path is a prefix of p's
  In,           \* In[p]: the members whose directory contains p
  DirLength,    \* DirLength[m]: the length of m's directory path
  Imports,      \* <<p, q>>: p imports q
  Satisfies,    \* <<p, q>>: a type of p implements an interface of q
  MaxVersion,   \* bound: versions a package takes (0: it is not there)
  Line,         \* Line[v]: where version v declares the package's symbol
  BatchSize,    \* paths in one DELETE (edgesInBatchSize)
  SwitchesMode  \* is one database written both as a repository and a workspace?

Version == 0 .. MaxVersion
NoRepo == "none"          \* repo_id NULL
Repos == Members \cup {NoRepo}

ASSUME LayoutAssumption ==
  /\ NoRepo \notin Members
  /\ IsFiniteSet(Members)
  /\ Prefix \in [Packages -> SUBSET Members]
  /\ In \in [Packages -> SUBSET Members]
  /\ DOMAIN Module = Packages
  /\ \A p \in Packages :
       Module[p] \in Members => Module[p] \in Prefix[p] \cap In[p]
  /\ Imports \cup Satisfies \subseteq Packages \X Packages
ASSUME SizesAssumption == /\ MaxVersion \in Nat
                          /\ BatchSize \in Nat \ {0}
                          /\ Line \in [1 .. MaxVersion -> Nat]
                          /\ DirLength \in [Members -> Nat]
                          /\ SwitchesMode \in BOOLEAN

VARIABLES
  src,         \* src[p]: the version of p on disk
  packages,    \* the packages table: path (unique), repo
  symbols,     \* the symbols table: pkg and line (unique), v, repo
  edges,       \* the edges table: repo, from, to and kind (unique), v
  files,       \* the files table: path (the key), v, repo
  text,        \* the full-text index of the files table
  registered,  \* the members in the repos table
  mode         \* what the last full write was

tables == <<packages, symbols, edges, files, text>>
vars == <<src, tables, registered, mode>>

PackageRow == [path: Packages, repo: Repos]
SymbolRow == [pkg: Packages, line: Nat, v: Version, repo: Repos]
EdgeRow == [from: Packages, to: Packages, kind: {"imports", "satisfies"},
            v: Version, repo: Repos]
FileRow == [path: Packages, v: Version, repo: Repos]

Init == /\ src \in [Packages -> Version]
        /\ packages = {} /\ symbols = {} /\ edges = {} /\ files = {}
        /\ text = {} /\ registered = {} /\ mode = "none"

Edit(p, v) == /\ v # src[p]
              /\ src' = [src EXCEPT ![p] = v]
              /\ UNCHANGED <<tables, registered, mode>>

-----------------------------------------------------------------------------
(* What is parsed, and whose rows it becomes.                              *)

(* RunWorkspace takes each root's packages and those of the modules nested *)
(* in it that are not roots themselves; `go list` of one repository stays  *)
(* in its module.                                                          *)
There == {p \in Packages : src[p] # 0}
ParsedOf(roots) ==
  {p \in There : \/ Module[p] \in roots
                 \/ Module[p] \notin roots /\ In[p] \cap roots # {}}
ParsedModule(m) == {p \in There : Module[p] = m}

(* Mutant of Owners: the prefix is not looked at.                          *)
AnyOwner(p, scope) == IF scope = {} THEN {NoRepo} ELSE scope

(* repoForPackage: any member of the write whose path is a prefix.         *)
Owners(p, scope) == IF Prefix[p] \cap scope = {} THEN {NoRepo}
                    ELSE Prefix[p] \cap scope

Attributions(parsed, scope) ==
  {repo \in [parsed -> scope \cup {NoRepo}] :
     \A p \in parsed : repo[p] \in Owners(p, scope)}

(* buildRepoIDFor: the listed member with the longest enclosing directory. *)
Enclosing(p, scope) ==
  IF In[p] \cap scope = {} THEN NoRepo
  ELSE CHOOSE m \in In[p] \cap scope :
         \A n \in In[p] \cap scope : DirLength[m] >= DirLength[n]

-----------------------------------------------------------------------------
(* One table each: the rows kept, and those inserted.                      *)

NewPackages(parsed, scope) ==
  {[path |-> p, repo |-> IF Module[p] \in scope THEN Module[p] ELSE NoRepo] :
     p \in parsed}
WritePackages(kept, new) ==
  kept \cup {n \in new : \A k \in kept : k.path # n.path}

NewSymbols(parsed, repo) ==
  {[pkg |-> p, line |-> Line[src[p]], v |-> src[p], repo |-> repo[p]] :
     p \in parsed}
WriteSymbols(kept, new) ==
  kept \cup {n \in new : \A k \in kept : k.pkg # n.pkg \/ k.line # n.line}

(* An import is in the importing file; an implementation is found only     *)
(* between packages parsed together.                                       *)
NewEdge(e, kind, repo) == [from |-> e[1], to |-> e[2], kind |-> kind,
                           v |-> src[e[1]], repo |-> repo[e[1]]]
NewEdges(parsed, repo) ==
  {NewEdge(e, "imports", repo) : e \in {i \in Imports : i[1] \in parsed}} \cup
  {NewEdge(e, "satisfies", repo) :
     e \in {s \in Satisfies : s[1] \in parsed /\ s[2] \in parsed}}
WriteEdges(kept, new) ==
  kept \cup {n \in new : \A k \in kept :
               <<k.repo, k.from, k.to, k.kind>> # <<n.repo, n.from, n.to, n.kind>>}

(* Mutant of Kept: nothing is cleared.                                    *)
AllKept(table, cleared) == table
Kept(table, cleared) == {row \in table : row.repo \notin cleared}

WriteRows(parsed, scope, cleared) ==
  \E repo \in Attributions(parsed, scope) :
    /\ packages' = WritePackages(Kept(packages, cleared), NewPackages(parsed, scope))
    /\ symbols' = WriteSymbols(Kept(symbols, cleared), NewSymbols(parsed, repo))
    /\ edges' = WriteEdges(Kept(edges, cleared), NewEdges(parsed, repo))

-----------------------------------------------------------------------------
(* writeFiles: upsert by path, then delete the stale rows in scope.        *)

(* Mutant of Upserted: a path that is there keeps its text.                *)
InsertedOnly(parsed, repo) ==
  files \cup {[path |-> p, v |-> src[p], repo |-> repo[p]] :
                p \in {q \in parsed : \A f \in files : f.path # q}}
Upserted(parsed, repo) ==
  {f \in files : f.path \notin parsed} \cup
  {[path |-> p, v |-> src[p], repo |-> repo[p]] : p \in parsed}

(* One DELETE per batch, of the rows whose path is not in that batch: a    *)
(* row survives if it is in every batch, and two batches share no path.    *)
InEveryBatch(parsed) == IF Cardinality(parsed) <= BatchSize THEN parsed ELSE {}
StaleDeleted(rows, parsed, scope) ==
  IF parsed = {} THEN rows
  ELSE {f \in rows : f.repo \in scope => f.path \in InEveryBatch(parsed)}

WholeRows(rows) == rows  \* mutant of TextOf
TextOf(rows) == {[path |-> f.path, v |-> f.v] : f \in rows}

(* Mutant of Dirty: deleted rows do not count.                             *)
DirtyUpserts(upserted, left) == upserted # files
Dirty(upserted, left) == upserted # files \/ left # upserted

WriteFiles(parsed, repo, scope) ==
  LET upserted == Upserted(parsed, repo)
      left == StaleDeleted(upserted, parsed, scope)
  IN  /\ files' = left
      /\ text' = IF Dirty(upserted, left) THEN TextOf(left) ELSE text

-----------------------------------------------------------------------------
(* The transactions.                                                       *)

Write(m) ==
  /\ SwitchesMode \/ mode # "workspace"
  /\ LET parsed == ParsedModule(m)
     IN  /\ WriteRows(parsed, {}, {NoRepo})
         /\ WriteFiles(parsed, [p \in parsed |-> NoRepo], Repos)
  /\ mode' = "single"
  /\ UNCHANGED <<src, registered>>

WriteWorkspace(listed) ==
  /\ SwitchesMode \/ mode # "single"
  /\ LET parsed == ParsedOf(listed)
     IN  /\ WriteRows(parsed, listed, Members)
         /\ WriteFiles(parsed, [p \in parsed |-> Enclosing(p, listed)], Repos)
  /\ registered' = registered \cup listed
  /\ mode' = "workspace"
  /\ UNCHANGED src

ReplaceRepo(m) ==
  /\ m \in registered
  /\ LET parsed == ParsedOf({m})
     IN  /\ WriteRows(parsed, {m}, {m})
         /\ WriteFiles(parsed, [p \in parsed |-> m], {m})
  /\ UNCHANGED <<src, registered, mode>>

Next == \/ \E p \in Packages, v \in Version : Edit(p, v)
        \/ \E m \in Members : Write(m) \/ ReplaceRepo(m)
        \/ \E listed \in (SUBSET Members) \ {{}} : WriteWorkspace(listed)

Spec == Init /\ [][Next]_vars

-----------------------------------------------------------------------------
(* Properties.                                                             *)

(* Type correctness of every table.                                        *)
TypeOK == /\ src \in [Packages -> Version]
          /\ packages \subseteq PackageRow
          /\ symbols \subseteq SymbolRow
          /\ edges \subseteq EdgeRow
          /\ files \subseteq FileRow
          /\ text \subseteq [path: Packages, v: Version]
          /\ registered \subseteq Members
          /\ mode \in {"none", "single", "workspace"}

(* The layout in which the rules of attribution agree: every package is of *)
(* a member, and no member's path or directory encloses another's.         *)
Separate == /\ \A p \in Packages : /\ Module[p] \in Members
                                   /\ Prefix[p] = {Module[p]}
                                   /\ In[p] = {Module[p]}
            /\ IsFiniteSet(Packages) /\ Cardinality(Packages) <= BatchSize
            /\ ~SwitchesMode

(* Every row of a package, in each table, is attributed to the package's   *)
(* own module, so that a rebuild of that module replaces it.               *)
Own(p) == IF mode = "workspace" THEN Module[p] ELSE NoRepo
RowsAttributed ==
  /\ \A k \in packages : k.repo = Own(k.path)
  /\ \A s \in symbols : s.repo = Own(s.pkg)
  /\ \A e \in edges : e.repo = Own(e.from)
  /\ \A f \in files : f.repo = Own(f.path)

(* A NESTED module "must be attributed to itself" (violated: whenever the  *)
(* outer one is parsed without it, its rows are written as of no repo, and *)
(* no workspace write clears or replaces those).                           *)
NestedIsItsOwn == mode = "workspace" =>
  \A s \in symbols : Module[s.pkg] \in registered => s.repo = Module[s.pkg]

(* The tables agree: an edge is of the version its symbol is of, and no    *)
(* edge of an indexed version is lost, unless it reaches into another      *)
(* member (which a rebuild of one member does not parse).                  *)
EdgesOfSymbols ==
  /\ \A e \in edges : \E s \in symbols : s.pkg = e.from /\ s.v = e.v
  /\ \A s \in symbols :
       /\ \A i \in Imports : i[1] = s.pkg =>
            \E e \in edges : e.from = i[1] /\ e.to = i[2] /\ e.kind = "imports"
       /\ \A i \in Satisfies, t \in symbols :
            i = <<s.pkg, t.pkg>> /\ Module[s.pkg] = Module[t.pkg] =>
              \E e \in edges : e.from = i[1] /\ e.to = i[2] /\ e.kind = "satisfies"

(* A symbol's source can be found: the files table and the full-text index *)
(* have the text of the version the symbol is of, after any order of full  *)
(* and one-member writes.  deleteStaleFiles removes only rows "whose path  *)
(* is no longer present in the incoming set".                              *)
TextOfSymbols ==
  \A s \in symbols : /\ \E f \in files : f.path = s.pkg /\ f.v = s.v
                     /\ [path |-> s.pkg, v |-> s.v] \in text

(* Skipping the full-text rebuild of an unchanged write is never noticed.  *)
TextIsFiles == text = TextOf(files)

(* Each write leaves exactly the declarations it parsed, and those of the  *)
(* members it did not touch.                                               *)
Promise == INSTANCE MemberIndex WITH
             source <- src, index <- {<<s.pkg, s.v>> : s \in symbols}
KeepsPromise == Promise!Spec
=============================================================================

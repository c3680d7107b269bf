------------------------- MODULE IndexTablesProofs -------------------------
(***************************************************************************)
(* Proofs about IndexTables, for every set of members and packages and any *)
(* number of versions: the tables stay well typed in every layout; and in  *)
(* a layout where the rules of attribution agree, rows are attributed to   *)
(* their module, the tables agree with one another, and the transactions   *)
(* implement the abstract index of MemberIndex.                            *)
(***************************************************************************)
EXTENDS IndexTables, FiniteSetTheorems, WellFoundedInduction, TLAPS

-----------------------------------------------------------------------------
(* Type correctness.                                                       *)

LEMMA Parsed ==
  /\ \A roots : ParsedOf(roots) \subseteq There
  /\ \A m : ParsedModule(m) \subseteq There
  BY DEF ParsedOf, ParsedModule

LEMMA NewRowsType ==
  ASSUME TypeOK, NEW parsed \in SUBSET There, NEW scope \in SUBSET Members,
         NEW repo \in Attributions(parsed, scope)
  PROVE  /\ NewPackages(parsed, scope) \subseteq PackageRow
         /\ NewSymbols(parsed, repo) \subseteq SymbolRow
         /\ NewEdges(parsed, repo) \subseteq EdgeRow
<1>1. \A p \in parsed : /\ p \in Packages /\ src[p] \in Version /\ repo[p] \in Repos
                        /\ Line[src[p]] \in Nat
  BY SizesAssumption DEF TypeOK, There, Attributions, Repos, Version
<1>2. NewPackages(parsed, scope) \subseteq PackageRow
  BY <1>1 DEF NewPackages, PackageRow, Repos
<1>3. NewSymbols(parsed, repo) \subseteq SymbolRow
  BY <1>1 DEF NewSymbols, SymbolRow
<1>4. NewEdges(parsed, repo) \subseteq EdgeRow
  <2>1. ASSUME NEW e \in Imports \cup Satisfies, e[1] \in parsed,
               NEW kind \in {"imports", "satisfies"}
        PROVE  NewEdge(e, kind, repo) \in EdgeRow
    <3>1. e[1] \in Packages /\ e[2] \in Packages
      BY LayoutAssumption
    <3> QED
      BY <1>1, <2>1, <3>1 DEF NewEdge, EdgeRow
  <2> QED
    BY <2>1 DEF NewEdges
<1> QED
  BY <1>2, <1>3, <1>4

LEMMA WriteRowsType ==
  ASSUME TypeOK, NEW parsed \in SUBSET There, NEW scope \in SUBSET Members,
         NEW cleared, WriteRows(parsed, scope, cleared)
  PROVE  /\ packages' \subseteq PackageRow
         /\ symbols' \subseteq SymbolRow
         /\ edges' \subseteq EdgeRow
<1>1. PICK repo \in Attributions(parsed, scope) :
    /\ packages' = WritePackages(Kept(packages, cleared), NewPackages(parsed, scope))
    /\ symbols' = WriteSymbols(Kept(symbols, cleared), NewSymbols(parsed, repo))
    /\ edges' = WriteEdges(Kept(edges, cleared), NewEdges(parsed, repo))
  BY DEF WriteRows
<1> QED
  BY <1>1, NewRowsType DEF TypeOK, WritePackages, WriteSymbols, WriteEdges, Kept

LEMMA WriteFilesType ==
  ASSUME TypeOK, NEW parsed \in SUBSET There, NEW repo \in [parsed -> Repos],
         NEW scope, WriteFiles(parsed, repo, scope)
  PROVE  files' \subseteq FileRow /\ text' \subseteq [path: Packages, v: Version]
<1>1. Upserted(parsed, repo) \subseteq FileRow
  BY DEF TypeOK, Upserted, FileRow, There
<1>2. StaleDeleted(Upserted(parsed, repo), parsed, scope) \subseteq FileRow
  BY <1>1 DEF StaleDeleted
<1>3. \A rows \in SUBSET FileRow : TextOf(rows) \subseteq [path: Packages, v: Version]
  BY DEF TextOf, FileRow
<1> QED
  BY <1>2, <1>3 DEF WriteFiles, TypeOK

(* There is a longest directory: the one that the fewest are longer than.  *)
LEMMA Longest ==
  ASSUME NEW S \in SUBSET Members, S # {}
  PROVE  \E m \in S : \A n \in S : DirLength[m] >= DirLength[n]
<1> DEFINE Longer(m) == {n \in S : DirLength[n] > DirLength[m]}
           Sets == {Longer(m) : m \in S}
           R == StrictSubsetOrdering(S)
<1>1. IsFiniteSet(S)
  BY FS_Subset, LayoutAssumption
<1>2. IsWellFoundedOn(R, SUBSET S)
  BY <1>1, FS_FiniteSubsetsOfFinite, FS_StrictSubsetOrderingWellFounded
<1>3. Sets \subseteq SUBSET S /\ Sets # {}
  OBVIOUS
<1>4. \E x \in Sets : \A y \in Sets : <<y, x>> \notin R
  <2> HIDE DEF Sets, R
  <2> QED
    BY <1>2, <1>3, WFMin
<1>5. PICK m \in S : \A n \in S : <<Longer(n), Longer(m)>> \notin R
  BY <1>4
<1>6. \A n \in S : DirLength[n] \in Nat
  BY SizesAssumption
<1>7. ASSUME NEW n \in S, DirLength[n] > DirLength[m]  PROVE FALSE
  <2>1. Longer(n) \subseteq Longer(m) /\ n \in Longer(m) /\ n \notin Longer(n)
    BY <1>6, <1>7
  <2>2. <<Longer(n), Longer(m)>> \in R
    BY <2>1 DEF StrictSubsetOrdering
  <2> QED
    BY <1>5, <2>2
<1> QED
  BY <1>6, <1>7

LEMMA EnclosingType ==
  ASSUME NEW p \in Packages, NEW scope \in SUBSET Members
  PROVE  /\ Enclosing(p, scope) \in Repos
         /\ In[p] \cap scope # {} => Enclosing(p, scope) \in In[p] \cap scope
<1>1. CASE In[p] \cap scope = {}
  BY <1>1 DEF Enclosing, Repos
<1>2. CASE In[p] \cap scope # {}
  <2>1. \E m \in In[p] \cap scope :
          \A n \in In[p] \cap scope : DirLength[m] >= DirLength[n]
    BY <1>2, Longest
  <2>2. Enclosing(p, scope) \in In[p] \cap scope
    BY <1>2, <2>1 DEF Enclosing
  <2> QED
    BY <2>2 DEF Repos
<1> QED
  BY <1>1, <1>2

LEMMA WriteType ==
  ASSUME TypeOK, NEW m \in Members, Write(m)  PROVE TypeOK'
<1> DEFINE parsed == ParsedModule(m)
           repo == [p \in parsed |-> NoRepo]
<1>1. parsed \in SUBSET There /\ repo \in [parsed -> Repos]
  BY Parsed DEF Repos
<1>2. WriteRows(parsed, {}, {NoRepo}) /\ WriteFiles(parsed, repo, Repos)
  BY DEF Write
<1>3. mode' = "single" /\ src' = src /\ registered' = registered
  BY DEF Write
<1> HIDE DEF parsed, repo
<1>4. /\ packages' \subseteq PackageRow
      /\ symbols' \subseteq SymbolRow
      /\ edges' \subseteq EdgeRow
  BY <1>1, <1>2, WriteRowsType
<1>5. files' \subseteq FileRow /\ text' \subseteq [path: Packages, v: Version]
  BY <1>1, <1>2, WriteFilesType
<1> QED
  BY <1>3, <1>4, <1>5 DEF TypeOK

LEMMA WriteWorkspaceType ==
  ASSUME TypeOK, NEW listed \in SUBSET Members, WriteWorkspace(listed)
  PROVE  TypeOK'
<1> DEFINE parsed == ParsedOf(listed)
           repo == [p \in parsed |-> Enclosing(p, listed)]
<1>1. parsed \in SUBSET There /\ repo \in [parsed -> Repos]
  <2>1. parsed \in SUBSET Packages
    BY Parsed DEF There
  <2> QED
    BY <2>1, Parsed, EnclosingType
<1>2. WriteRows(parsed, listed, Members) /\ WriteFiles(parsed, repo, Repos)
  BY DEF WriteWorkspace
<1>3. mode' = "workspace" /\ src' = src /\ registered' = registered \cup listed
  BY DEF WriteWorkspace
<1> HIDE DEF parsed, repo
<1>4. /\ packages' \subseteq PackageRow
      /\ symbols' \subseteq SymbolRow
      /\ edges' \subseteq EdgeRow
  BY <1>1, <1>2, WriteRowsType
<1>5. files' \subseteq FileRow /\ text' \subseteq [path: Packages, v: Version]
  BY <1>1, <1>2, WriteFilesType
<1> QED
  BY <1>3, <1>4, <1>5 DEF TypeOK

LEMMA ReplaceRepoType ==
  ASSUME TypeOK, NEW m \in Members, ReplaceRepo(m)  PROVE TypeOK'
<1> DEFINE parsed == ParsedOf({m})
           repo == [p \in parsed |-> m]
<1>1. parsed \in SUBSET There /\ repo \in [parsed -> Repos]
  BY Parsed DEF Repos
<1>2. WriteRows(parsed, {m}, {m}) /\ WriteFiles(parsed, repo, {m})
  BY DEF ReplaceRepo
<1>3. mode' = mode /\ src' = src /\ registered' = registered
  BY DEF ReplaceRepo
<1> HIDE DEF parsed, repo
<1>4. /\ packages' \subseteq PackageRow
      /\ symbols' \subseteq SymbolRow
      /\ edges' \subseteq EdgeRow
  BY <1>1, <1>2, WriteRowsType
<1>5. files' \subseteq FileRow /\ text' \subseteq [path: Packages, v: Version]
  BY <1>1, <1>2, WriteFilesType
<1> QED
  BY <1>3, <1>4, <1>5 DEF TypeOK

LEMMA InitType == Init => TypeOK
  BY DEF Init, TypeOK

LEMMA NextType == TypeOK /\ [Next]_vars => TypeOK'
<1> SUFFICES ASSUME TypeOK, [Next]_vars  PROVE TypeOK'
  OBVIOUS
<1>1. ASSUME NEW p \in Packages, NEW v \in Version, Edit(p, v)  PROVE TypeOK'
  BY <1>1 DEF Edit, tables, TypeOK
<1>2. CASE UNCHANGED vars
  BY <1>2 DEF vars, tables, TypeOK
<1> QED
  BY <1>1, <1>2, WriteType, WriteWorkspaceType, ReplaceRepoType DEF Next

(* Every table is well typed, whatever the layout of the modules: nested,  *)
(* with paths that are prefixes of one another, or outside every member.   *)
THEOREM TypeCorrect == Spec => []TypeOK
  BY InitType, NextType, PTL DEF Spec

-----------------------------------------------------------------------------
(* What one write does, where the rules of attribution agree.              *)

(* The inductive invariant.  OneKind is what RowsAttributed needs of the   *)
(* history: rows of the other kind of write would never be cleared.        *)
OneKind == /\ mode = "none" =>
                packages = {} /\ symbols = {} /\ edges = {} /\ files = {}
           /\ registered # {} => mode = "workspace"
Inv == /\ TypeOK /\ OneKind
       /\ RowsAttributed /\ EdgesOfSymbols /\ TextOfSymbols /\ TextIsFiles

(* The rows of the packages K are kept, those of parsed take their place.  *)
FileRows(parsed, own) ==
  {[path |-> p, v |-> src[p], repo |-> own[p]] : p \in parsed}
RowsRewrite(K, parsed, own) ==
  /\ packages' = {k \in packages : k.path \in K} \cup
                   {[path |-> p, repo |-> own[p]] : p \in parsed}
  /\ symbols' = {s \in symbols : s.pkg \in K} \cup NewSymbols(parsed, own)
  /\ edges' = {e \in edges : e.from \in K} \cup NewEdges(parsed, own)
FilesRewrite(K, parsed, own) ==
  /\ {f \in files : f.path \in K} \cup FileRows(parsed, own) \subseteq files'
  /\ files' \subseteq {f \in files : f.path \notin parsed} \cup FileRows(parsed, own)
  /\ text' = TextOf(files')
Rewrite(K, parsed, own) == /\ RowsRewrite(K, parsed, own)
                           /\ FilesRewrite(K, parsed, own)
                           /\ src' = src

(* A write goes by whole modules, and attributes rows to their own.        *)
ByModule(K, parsed, own) ==
  /\ \A p \in K, q \in parsed : Module[p] # Module[q]
  /\ own = [p \in parsed |-> Own(p)']
  /\ \/ K = {} /\ files = {}
     \/ \A p \in Packages : Own(p)' = Own(p)

(* Clearing those repos leaves the rows of K; own is the one attribution.  *)
Leaves(cleared, K) ==
  /\ Kept(packages, cleared) = {k \in packages : k.path \in K}
  /\ Kept(symbols, cleared) = {s \in symbols : s.pkg \in K}
  /\ Kept(edges, cleared) = {e \in edges : e.from \in K}
Attributes(parsed, scope, own) ==
  /\ Attributions(parsed, scope) = {own}
  /\ \A p \in parsed : own[p] = IF Module[p] \in scope THEN Module[p] ELSE NoRepo

LEMMA RowsRewritten ==
  ASSUME TypeOK, NEW K \in SUBSET Packages, NEW parsed \in SUBSET There,
         NEW scope \in SUBSET Members, NEW cleared, NEW own,
         WriteRows(parsed, scope, cleared),
         K \cap parsed = {},
         Attributes(parsed, scope, own),
         Leaves(cleared, K)
  PROVE  RowsRewrite(K, parsed, own)
<1>1. /\ packages' = WritePackages({k \in packages : k.path \in K},
                                   NewPackages(parsed, scope))
      /\ symbols' = WriteSymbols({s \in symbols : s.pkg \in K}, NewSymbols(parsed, own))
      /\ edges' = WriteEdges({e \in edges : e.from \in K}, NewEdges(parsed, own))
  BY DEF WriteRows, Attributes, Leaves
<1>2. NewPackages(parsed, scope) = {[path |-> p, repo |-> own[p]] : p \in parsed}
  BY DEF NewPackages, Attributes
<1>3. \A n \in NewPackages(parsed, scope) : n.path \notin K
  BY <1>2
<1>4. \A n \in NewSymbols(parsed, own) : n.pkg \notin K
  BY DEF NewSymbols
<1>5. \A n \in NewEdges(parsed, own) : n.from \notin K
  BY DEF NewEdges, NewEdge
<1>6. WritePackages({k \in packages : k.path \in K}, NewPackages(parsed, scope))
        = {k \in packages : k.path \in K} \cup NewPackages(parsed, scope)
  BY <1>3 DEF WritePackages
<1>7. WriteSymbols({s \in symbols : s.pkg \in K}, NewSymbols(parsed, own))
        = {s \in symbols : s.pkg \in K} \cup NewSymbols(parsed, own)
  BY <1>4 DEF WriteSymbols
<1>8. WriteEdges({e \in edges : e.from \in K}, NewEdges(parsed, own))
        = {e \in edges : e.from \in K} \cup NewEdges(parsed, own)
  BY <1>5 DEF WriteEdges
<1> QED
  BY <1>1, <1>2, <1>6, <1>7, <1>8 DEF RowsRewrite

(* No write has more than one batch to delete by, so it deletes the files  *)
(* of its scope that it did not parse; and it refreshes the text it must.  *)
LEMMA FilesRewritten ==
  ASSUME TypeOK, TextIsFiles, Separate,
         NEW K \in SUBSET Packages, NEW parsed \in SUBSET There, NEW scope, NEW own,
         WriteFiles(parsed, own, scope),
         K \cap parsed = {},
         \A f \in files : f.path \in K => f.repo \notin scope
  PROVE  FilesRewrite(K, parsed, own)
<1>1. InEveryBatch(parsed) = parsed
  <2>1. parsed \in SUBSET Packages
    BY DEF There
  <2>2. /\ Cardinality(parsed) \in Nat /\ Cardinality(Packages) \in Nat
        /\ Cardinality(parsed) <= Cardinality(Packages)
    BY <2>1, FS_Subset, FS_CardinalityType DEF Separate
  <2> QED
    BY <2>2, SizesAssumption DEF InEveryBatch, Separate
<1> DEFINE upserted == Upserted(parsed, own)
           left == StaleDeleted(upserted, parsed, scope)
<1>2. upserted = {f \in files : f.path \notin parsed} \cup FileRows(parsed, own)
  BY DEF Upserted, FileRows
<1>3. files' = left /\ text' = IF Dirty(upserted, left) THEN TextOf(left) ELSE text
  BY DEF WriteFiles
<1>4. \A f \in FileRows(parsed, own) : f.path \in parsed
  BY DEF FileRows
<1> HIDE DEF upserted
<1>5. /\ left \subseteq upserted
      /\ {f \in files : f.path \in K} \cup FileRows(parsed, own) \subseteq left
  BY <1>1, <1>2, <1>4 DEF StaleDeleted
<1> HIDE DEF left
<1>6. text' = TextOf(left)
  BY <1>3 DEF Dirty, TextIsFiles
<1> QED
  BY <1>2, <1>3, <1>5, <1>6 DEF FilesRewrite

-----------------------------------------------------------------------------
(* A rewrite by whole modules preserves each property.                     *)

LEMMA RewriteAttributed ==
  ASSUME TypeOK, RowsAttributed,
         NEW K \in SUBSET Packages, NEW parsed \in SUBSET There, NEW own,
         Rewrite(K, parsed, own), ByModule(K, parsed, own)
  PROVE  RowsAttributed'
<1>1. \A p \in parsed : own[p] = Own(p)'
  BY DEF ByModule
<1>2. \A p \in K : Own(p)' = Own(p)
  BY DEF ByModule
<1>3. \A f \in files : Own(f.path)' = Own(f.path)
  BY DEF ByModule, TypeOK, FileRow
<1>4. \A k \in packages' : k.repo = Own(k.path)'
  BY <1>1, <1>2 DEF Rewrite, RowsRewrite, FilesRewrite, RowsAttributed
<1>5. \A s \in symbols' : s.repo = Own(s.pkg)'
  BY <1>1, <1>2 DEF Rewrite, RowsRewrite, FilesRewrite, RowsAttributed, NewSymbols
<1>6. \A e \in edges' : e.repo = Own(e.from)'
  BY <1>1, <1>2 DEF Rewrite, RowsRewrite, FilesRewrite, RowsAttributed, NewEdges, NewEdge
<1>7. \A f \in files' : f.repo = Own(f.path)'
  BY <1>1, <1>3 DEF Rewrite, RowsRewrite, FilesRewrite, RowsAttributed, FileRows
<1> QED
  BY <1>4, <1>5, <1>6, <1>7 DEF RowsAttributed

LEMMA RewriteEdges ==
  ASSUME TypeOK, EdgesOfSymbols,
         NEW K \in SUBSET Packages, NEW parsed \in SUBSET There, NEW own,
         Rewrite(K, parsed, own), ByModule(K, parsed, own)
  PROVE  EdgesOfSymbols'
<1>1. ASSUME NEW e \in edges'
      PROVE  \E s \in symbols' : s.pkg = e.from /\ s.v = e.v
  <2>1. CASE e \in edges /\ e.from \in K
    BY <2>1 DEF Rewrite, RowsRewrite, FilesRewrite, EdgesOfSymbols
  <2>2. CASE e \in NewEdges(parsed, own)
    <3>1. e.from \in parsed /\ e.v = src[e.from]
      BY <2>2 DEF NewEdges, NewEdge
    <3> DEFINE s == [pkg |-> e.from, line |-> Line[src[e.from]],
                     v |-> src[e.from], repo |-> own[e.from]]
    <3>2. s \in symbols'
      BY <3>1 DEF Rewrite, RowsRewrite, FilesRewrite, NewSymbols
    <3>3. s.pkg = e.from /\ s.v = e.v
      BY <3>1
    <3> QED
      BY <3>2, <3>3
  <2> QED
    BY <2>1, <2>2 DEF Rewrite, RowsRewrite
<1>2. \A s \in symbols' : \/ s \in symbols /\ s.pkg \in K
                          \/ s.pkg \in parsed
  BY DEF Rewrite, RowsRewrite, FilesRewrite, NewSymbols
<1>3. ASSUME NEW s \in symbols', NEW i \in Imports, i[1] = s.pkg
      PROVE  \E e \in edges' : e.from = i[1] /\ e.to = i[2] /\ e.kind = "imports"
  <2>1. CASE s \in symbols /\ s.pkg \in K
    BY <1>3, <2>1 DEF Rewrite, RowsRewrite, FilesRewrite, EdgesOfSymbols
  <2>2. CASE s.pkg \in parsed
    <3>1. NewEdge(i, "imports", own) \in NewEdges(parsed, own)
      BY <1>3, <2>2 DEF NewEdges
    <3> QED
      BY <3>1 DEF Rewrite, RowsRewrite, FilesRewrite, NewEdge
  <2> QED
    BY <1>2, <2>1, <2>2
<1>4. ASSUME NEW s \in symbols', NEW t \in symbols', NEW i \in Satisfies,
             i = <<s.pkg, t.pkg>>, Module[s.pkg] = Module[t.pkg]
      PROVE  \E e \in edges' : e.from = i[1] /\ e.to = i[2] /\ e.kind = "satisfies"
  <2>1. CASE s \in symbols /\ s.pkg \in K /\ t \in symbols /\ t.pkg \in K
    BY <1>4, <2>1 DEF Rewrite, RowsRewrite, FilesRewrite, EdgesOfSymbols
  <2>2. CASE s.pkg \in parsed /\ t.pkg \in parsed
    <3>1. NewEdge(i, "satisfies", own) \in NewEdges(parsed, own)
      BY <1>4, <2>2 DEF NewEdges
    <3> QED
      BY <3>1 DEF Rewrite, RowsRewrite, FilesRewrite, NewEdge
  <2> QED
    BY <1>2, <1>4, <2>1, <2>2 DEF ByModule
<1> QED
  BY <1>1, <1>3, <1>4 DEF EdgesOfSymbols

LEMMA RewriteText ==
  ASSUME TypeOK, TextOfSymbols,
         NEW K \in SUBSET Packages, NEW parsed \in SUBSET There, NEW own,
         Rewrite(K, parsed, own)
  PROVE  TextOfSymbols' /\ TextIsFiles'
<1>1. ASSUME NEW s \in symbols'
      PROVE  \E f \in files' : f.path = s.pkg /\ f.v = s.v
  <2>1. CASE s \in symbols /\ s.pkg \in K
    BY <2>1 DEF Rewrite, RowsRewrite, FilesRewrite, TextOfSymbols
  <2>2. CASE s.pkg \in parsed /\ s.v = src[s.pkg]
    <3> DEFINE f == [path |-> s.pkg, v |-> src[s.pkg], repo |-> own[s.pkg]]
    <3>1. f \in files' /\ f.path = s.pkg /\ f.v = s.v
      BY <2>2 DEF Rewrite, RowsRewrite, FilesRewrite, FileRows
    <3> QED
      BY <3>1
  <2> QED
    BY <2>1, <2>2 DEF Rewrite, RowsRewrite, FilesRewrite, NewSymbols
<1>2. TextIsFiles'
  BY DEF Rewrite, RowsRewrite, FilesRewrite, TextIsFiles, TextOf
<1>3. \A s \in symbols' : [path |-> s.pkg, v |-> s.v] \in text'
  BY <1>1, <1>2 DEF TextIsFiles, TextOf
<1> QED
  BY <1>1, <1>2, <1>3 DEF TextOfSymbols

(* The index the rewrite leaves: the declarations kept, and those parsed.  *)
Declared == {<<s.pkg, s.v>> : s \in symbols}
LEMMA RewriteDeclared ==
  ASSUME TypeOK, NEW K \in SUBSET Packages, NEW parsed \in SUBSET There, NEW own,
         Rewrite(K, parsed, own)
  PROVE  Declared' = {i \in Declared : i[1] \in K} \cup {<<p, src[p]>> : p \in parsed}
<1>1. {<<s.pkg, s.v>> : s \in NewSymbols(parsed, own)} = {<<p, src[p]>> : p \in parsed}
  <2> DEFINE row(p) == [pkg |-> p, line |-> Line[src[p]], v |-> src[p], repo |-> own[p]]
  <2>1. NewSymbols(parsed, own) = {row(p) : p \in parsed}
    BY DEF NewSymbols
  <2>2. \A p : <<row(p).pkg, row(p).v>> = <<p, src[p]>>
    OBVIOUS
  <2> HIDE DEF row
  <2> QED
    BY <2>1, <2>2
<1>2. {<<s.pkg, s.v>> : s \in {s \in symbols : s.pkg \in K}}
        = {i \in Declared : i[1] \in K}
  BY DEF Declared
<1> QED
  BY <1>1, <1>2 DEF Rewrite, RowsRewrite, FilesRewrite, Declared

-----------------------------------------------------------------------------
(* Each transaction is such a rewrite.                                     *)

OfModules(members) == {p \in There : Module[p] \in members}

LEMMA SeparateParsed ==
  ASSUME Separate
  PROVE  /\ \A members \in SUBSET Members : ParsedOf(members) = OfModules(members)
         /\ \A m \in Members : ParsedModule(m) = OfModules({m})
<1>1. \A p \in There : In[p] = {Module[p]}
  BY DEF Separate, There
<1> QED
  BY <1>1 DEF ParsedOf, ParsedModule, OfModules

LEMMA OneAttribution ==
  ASSUME Separate, NEW parsed \in SUBSET There, NEW scope \in SUBSET Members
  PROVE  Attributions(parsed, scope) =
           {[p \in parsed |-> IF Module[p] \in scope THEN Module[p] ELSE NoRepo]}
<1> DEFINE own == [p \in parsed |-> IF Module[p] \in scope THEN Module[p] ELSE NoRepo]
<1>1. \A p \in parsed : Owners(p, scope) = {own[p]}
  <2>1. \A p \in parsed : Prefix[p] = {Module[p]}
    BY DEF Separate, There
  <2> QED
    BY <2>1 DEF Owners
<1>2. own \in [parsed -> scope \cup {NoRepo}]
  OBVIOUS
<1> HIDE DEF own
<1>3. own \in Attributions(parsed, scope)
  BY <1>1, <1>2 DEF Attributions
<1>4. ASSUME NEW repo \in Attributions(parsed, scope)  PROVE repo = own
  <2>1. repo \in [parsed -> scope \cup {NoRepo}] /\ \A p \in parsed : repo[p] = own[p]
    BY <1>1 DEF Attributions
  <2> QED
    BY <1>2, <2>1
<1>5. Attributions(parsed, scope) = {own}
  BY <1>3, <1>4
<1> QED
  BY <1>5 DEF own

(* A repository's write clears every row, as there are only rows of no     *)
(* repo, and a workspace's write does, as there are only members' rows.    *)
LEMMA WriteRewrites ==
  ASSUME Inv, Separate, NEW m \in Members, Write(m)
  PROVE  \E own : /\ Rewrite({}, OfModules({m}), own)
                  /\ ByModule({}, OfModules({m}), own)
<1> DEFINE parsed == OfModules({m})
           own == [p \in parsed |-> NoRepo]
           K == {}
<1>1. /\ mode # "workspace" /\ mode' = "single" /\ src' = src
      /\ WriteRows(parsed, {}, {NoRepo}) /\ WriteFiles(parsed, own, Repos)
  BY SeparateParsed DEF Write, Separate
<1>2. parsed \in SUBSET There
  BY DEF OfModules
<1>3. \A p : Own(p) = NoRepo /\ Own(p)' = NoRepo
  BY <1>1 DEF Own
<1>4. Attributes(parsed, {}, own)
  BY <1>2, OneAttribution DEF Attributes
<1>5. Leaves({NoRepo}, K)
  BY <1>3 DEF Inv, RowsAttributed, Kept, Leaves
<1>6. ByModule(K, parsed, own) /\ K \in SUBSET Packages /\ K \cap parsed = {}
      /\ \A f \in files : f.path \notin K
  BY <1>3 DEF ByModule
<1> HIDE DEF own, parsed, K
<1>7. RowsRewrite(K, parsed, own)
  BY <1>1, <1>2, <1>4, <1>5, <1>6, RowsRewritten DEF Inv
<1>8. FilesRewrite(K, parsed, own)
  BY <1>1, <1>2, <1>6, FilesRewritten DEF Inv
<1>9. Rewrite(K, parsed, own)
  BY <1>1, <1>7, <1>8 DEF Rewrite
<1> QED
  BY <1>6, <1>9 DEF parsed, K

LEMMA WriteWorkspaceRewrites ==
  ASSUME Inv, Separate, NEW listed \in SUBSET Members, WriteWorkspace(listed)
  PROVE  \E own : /\ Rewrite({}, OfModules(listed), own)
                  /\ ByModule({}, OfModules(listed), own)
<1> DEFINE parsed == OfModules(listed)
           own == [p \in parsed |-> Module[p]]
           K == {}
<1>1. /\ mode # "single" /\ mode' = "workspace" /\ src' = src
      /\ WriteRows(parsed, listed, Members)
      /\ WriteFiles(parsed, [p \in parsed |-> Enclosing(p, listed)], Repos)
  BY SeparateParsed DEF WriteWorkspace, Separate
<1>2. parsed \in SUBSET There /\ parsed \in SUBSET Packages
  BY DEF OfModules, There
<1>3. \A p \in parsed : Enclosing(p, listed) = Module[p]
  <2>1. \A p \in parsed : In[p] \cap listed = {Module[p]}
    BY DEF OfModules, There, Separate
  <2> QED
    BY <1>2, <2>1, EnclosingType
<1>4. WriteFiles(parsed, own, Repos)
  <2>1. [p \in parsed |-> Enclosing(p, listed)] = own
    BY <1>3
  <2> QED
    BY <1>1, <2>1
<1>5. Attributes(parsed, listed, own)
  <2>1. own = [p \in parsed |-> IF Module[p] \in listed THEN Module[p] ELSE NoRepo]
    BY DEF OfModules
  <2> QED
    BY <1>2, <2>1, OneAttribution DEF Attributes, OfModules
<1>6. \A p \in Packages : Own(p)' = Module[p] /\ (mode = "workspace" => Own(p) = Module[p])
  BY <1>1 DEF Own
<1>7. mode = "workspace" \/ (packages = {} /\ symbols = {} /\ edges = {} /\ files = {})
  BY <1>1 DEF Inv, OneKind, TypeOK
<1>8. Leaves(Members, K)
  <2>1. CASE mode = "workspace"
    <3>1. \A p \in Packages : Own(p) \in Members
      BY <1>6, <2>1 DEF Separate
    <3> QED
      BY <3>1 DEF Inv, TypeOK, PackageRow, SymbolRow, EdgeRow, RowsAttributed, Kept, Leaves
  <2> QED
    BY <1>7, <2>1 DEF Kept, Leaves
<1>9. ByModule(K, parsed, own) /\ K \in SUBSET Packages /\ K \cap parsed = {}
       /\ \A f \in files : f.path \notin K
  <2>1. own = [p \in parsed |-> Own(p)']
    BY <1>2, <1>6
  <2> QED
    BY <1>6, <1>7, <2>1 DEF ByModule
<1> HIDE DEF own, parsed, K
<1>10. RowsRewrite(K, parsed, own)
  BY <1>1, <1>2, <1>5, <1>8, <1>9, RowsRewritten DEF Inv
<1>11. FilesRewrite(K, parsed, own)
  BY <1>2, <1>4, <1>9, FilesRewritten DEF Inv
<1>12. Rewrite(K, parsed, own)
  BY <1>1, <1>10, <1>11 DEF Rewrite
<1> QED
  BY <1>9, <1>12 DEF parsed, K

Others(m) == {p \in Packages : Module[p] # m}

(* One member's rebuild: the rows of m are those of m's own packages.      *)
LEMMA ReplaceRepoRewrites ==
  ASSUME Inv, Separate, NEW m \in Members, ReplaceRepo(m)
  PROVE  \E own : /\ Rewrite(Others(m), OfModules({m}), own)
                  /\ ByModule(Others(m), OfModules({m}), own)
<1> DEFINE parsed == OfModules({m})
           own == [p \in parsed |-> m]
           K == Others(m)
<1>1. /\ m \in registered /\ mode' = mode /\ src' = src
      /\ WriteRows(parsed, {m}, {m}) /\ WriteFiles(parsed, own, {m})
  BY SeparateParsed DEF ReplaceRepo
<1>2. parsed \in SUBSET There /\ K \in SUBSET Packages /\ K \cap parsed = {}
  BY DEF OfModules, There, Others
<1>3. mode = "workspace" /\ mode' = "workspace"
  BY <1>1 DEF Inv, OneKind
<1>4. \A p \in Packages : Own(p) = Module[p] /\ Own(p)' = Module[p]
  BY <1>3 DEF Own
<1>5. Attributes(parsed, {m}, own)
  <2>1. own = [p \in parsed |-> IF Module[p] \in {m} THEN Module[p] ELSE NoRepo]
    BY DEF OfModules
  <2> QED
    BY <1>2, <2>1, OneAttribution DEF Attributes, OfModules
<1>6. Leaves({m}, K)
  <2>1. \A k \in packages : k.path \in Packages /\ k.repo = Module[k.path]
    BY <1>4 DEF Inv, RowsAttributed, TypeOK, PackageRow
  <2>2. \A k \in symbols : k.pkg \in Packages /\ k.repo = Module[k.pkg]
    BY <1>4 DEF Inv, RowsAttributed, TypeOK, SymbolRow
  <2>3. \A k \in edges : k.from \in Packages /\ k.repo = Module[k.from]
    BY <1>4 DEF Inv, RowsAttributed, TypeOK, EdgeRow
  <2> QED
    BY <2>1, <2>2, <2>3 DEF Leaves, Kept, Others
<1>7. \A f \in files : f.path \in K => f.repo \notin {m}
  BY <1>4 DEF Inv, RowsAttributed, TypeOK, FileRow, Others
<1>8. ByModule(K, parsed, own)
  <2>1. \A p \in parsed : Own(p)' = m
    BY <1>2, <1>4 DEF OfModules, There
  <2>2. own = [p \in parsed |-> Own(p)']
    BY <2>1
  <2>3. \A p \in K, q \in parsed : Module[p] # Module[q]
    BY DEF Others, OfModules
  <2> QED
    BY <1>4, <2>2, <2>3 DEF ByModule
<1> HIDE DEF own, parsed, K
<1>9. RowsRewrite(K, parsed, own)
  BY <1>1, <1>2, <1>5, <1>6, RowsRewritten DEF Inv
<1>10. FilesRewrite(K, parsed, own)
  BY <1>1, <1>2, <1>7, FilesRewritten DEF Inv
<1>11. Rewrite(K, parsed, own)
  BY <1>1, <1>9, <1>10 DEF Rewrite
<1> QED
  BY <1>8, <1>11 DEF parsed, K

-----------------------------------------------------------------------------
(* The invariant is inductive.                                             *)

LEMMA RewriteInv ==
  ASSUME Inv, NEW K \in SUBSET Packages, NEW members \in SUBSET Members, NEW own,
         Rewrite(K, OfModules(members), own), ByModule(K, OfModules(members), own)
  PROVE  /\ RowsAttributed' /\ EdgesOfSymbols' /\ TextOfSymbols' /\ TextIsFiles'
<1>1. OfModules(members) \in SUBSET There
  BY DEF OfModules
<1> QED
  BY <1>1, RewriteAttributed, RewriteEdges, RewriteText DEF Inv

LEMMA InitInv == Init => Inv
  BY InitType DEF Init, Inv, OneKind, RowsAttributed, EdgesOfSymbols,
                  TextOfSymbols, TextIsFiles, TextOf

LEMMA NextInv == Separate /\ Inv /\ [Next]_vars => Inv'
<1> SUFFICES ASSUME Separate, Inv, [Next]_vars  PROVE Inv'
  OBVIOUS
<1>1. TypeOK'
  BY NextType DEF Inv
<1>2. ASSUME NEW m \in Members, Write(m)  PROVE Inv'
  <2>1. /\ RowsAttributed' /\ EdgesOfSymbols' /\ TextOfSymbols' /\ TextIsFiles'
    BY <1>2, WriteRewrites, RewriteInv
  <2>2. OneKind'
    BY <1>2 DEF Write, Separate, Inv, OneKind
  <2> QED
    BY <1>1, <2>1, <2>2 DEF Inv
<1>3. ASSUME NEW listed \in SUBSET Members, WriteWorkspace(listed)  PROVE Inv'
  <2>1. /\ RowsAttributed' /\ EdgesOfSymbols' /\ TextOfSymbols' /\ TextIsFiles'
    BY <1>3, WriteWorkspaceRewrites, RewriteInv
  <2>2. OneKind'
    BY <1>3 DEF WriteWorkspace, OneKind
  <2> QED
    BY <1>1, <2>1, <2>2 DEF Inv
<1>4. ASSUME NEW m \in Members, ReplaceRepo(m)  PROVE Inv'
  <2>1. /\ RowsAttributed' /\ EdgesOfSymbols' /\ TextOfSymbols' /\ TextIsFiles'
    <3>1. Others(m) \in SUBSET Packages
      BY DEF Others
    <3> QED
      BY <1>4, <3>1, ReplaceRepoRewrites, RewriteInv
  <2>2. OneKind'
    BY <1>4 DEF ReplaceRepo, Inv, OneKind
  <2> QED
    BY <1>1, <2>1, <2>2 DEF Inv
<1>5. ASSUME UNCHANGED <<tables, registered, mode>>  PROVE Inv'
  BY <1>1, <1>5 DEF tables, Inv, OneKind, RowsAttributed, Own, EdgesOfSymbols,
                    TextOfSymbols, TextIsFiles, TextOf
<1> QED
  BY <1>2, <1>3, <1>4, <1>5 DEF Next, Edit, vars

(* Whatever order full and one-member writes come in, every row of every   *)
(* table is attributed to its module, the edges are those of the symbols,  *)
(* and the text of each symbol can be found.                               *)
THEOREM TablesInvariant ==
  ASSUME Separate
  PROVE  Spec => [](RowsAttributed /\ EdgesOfSymbols /\ TextOfSymbols /\ TextIsFiles)
<1>1. Separate /\ Inv /\ [Next]_vars => Inv'
  BY NextInv
<1>2. Inv => RowsAttributed /\ EdgesOfSymbols /\ TextOfSymbols /\ TextIsFiles
  BY DEF Inv
<1> QED
  BY <1>1, <1>2, InitInv, PTL DEF Spec

(* Where no module encloses another, no order of full writes, one-member   *)
(* writes and edits leaves a row that a rebuild of its module would not    *)
(* replace: not in the packages, symbols, edges or files.                  *)
THEOREM RowsOfTheirModules ==
  ASSUME Separate
  PROVE  Spec => []RowsAttributed
  BY TablesInvariant, PTL

(* There the edges follow the symbols from version to version, and only    *)
(* those that reach into another member are ever lost.                     *)
THEOREM EdgesFollowSymbols ==
  ASSUME Separate
  PROVE  Spec => []EdgesOfSymbols
  BY TablesInvariant, PTL

(* In every layout, nested modules, shared directories and batches of      *)
(* paths included, writeFiles rebuilds the full-text index whenever the    *)
(* files table has changed, by an upsert or by a deletion.                 *)
THEOREM TextIsOfFiles == Spec => []TextIsFiles
<1>1. ASSUME TextIsFiles, NEW parsed, NEW repo, NEW scope,
             WriteFiles(parsed, repo, scope)
      PROVE  TextIsFiles'
  <2> DEFINE upserted == Upserted(parsed, repo)
             left == StaleDeleted(upserted, parsed, scope)
  <2>1. files' = left /\ text' = IF Dirty(upserted, left) THEN TextOf(left) ELSE text
    BY <1>1 DEF WriteFiles
  <2> HIDE DEF left, upserted
  <2>2. CASE Dirty(upserted, left)
    BY <2>1, <2>2 DEF TextIsFiles, TextOf
  <2>3. CASE ~Dirty(upserted, left)
    BY <1>1, <2>1, <2>3 DEF Dirty, TextIsFiles, TextOf
  <2> QED
    BY <2>2, <2>3
<1>2. Init => TextIsFiles
  BY DEF Init, TextIsFiles, TextOf
<1>3. TextIsFiles /\ [Next]_vars => TextIsFiles'
  <2> SUFFICES ASSUME TextIsFiles, [Next]_vars  PROVE TextIsFiles'
    OBVIOUS
  <2>1. ASSUME NEW m \in Members, Write(m) \/ ReplaceRepo(m)  PROVE TextIsFiles'
    BY <1>1, <2>1 DEF Write, ReplaceRepo
  <2>2. ASSUME NEW listed, WriteWorkspace(listed)  PROVE TextIsFiles'
    BY <1>1, <2>2 DEF WriteWorkspace
  <2>3. ASSUME NEW p \in Packages, NEW v \in Version, Edit(p, v)  PROVE TextIsFiles'
    BY <2>3 DEF Edit, tables, TextIsFiles, TextOf
  <2>4. CASE UNCHANGED vars
    BY <2>4 DEF vars, tables, TextIsFiles, TextOf
  <2> QED
    BY <2>1, <2>2, <2>3, <2>4 DEF Next
<1> QED
  BY <1>2, <1>3, PTL DEF Spec

-----------------------------------------------------------------------------
(* The transactions implement MemberIndex.                                 *)

LEMMA CurrentIsParsed ==
  \A members : Promise!Current(members) = {<<p, src[p]>> : p \in OfModules(members)}
  BY DEF Promise!Current, OfModules, There

LEMMA InitPromise == Init => Promise!Init
  BY DEF Init, Promise!Init

LEMMA NextPromise ==
  Separate /\ Inv /\ [Next]_vars => [Promise!Next]_<<src, Declared>>
<1> SUFFICES ASSUME Separate, Inv, [Next]_vars
             PROVE  Promise!Next \/ (src' = src /\ Declared' = Declared)
  OBVIOUS
<1>1. ASSUME NEW p \in Packages, NEW v \in Version, Edit(p, v)  PROVE Promise!Edit
  BY <1>1 DEF Edit, tables, Promise!Edit
<1>2. ASSUME NEW K \in SUBSET Packages, NEW members, NEW own,
             Rewrite(K, OfModules(members), own)
      PROVE  /\ Declared' = {i \in Declared : i[1] \in K} \cup Promise!Current(members)
             /\ src' = src
  <2>1. OfModules(members) \in SUBSET There
    BY DEF OfModules
  <2> QED
    BY <1>2, <2>1, RewriteDeclared, CurrentIsParsed DEF Inv, Rewrite
<1>3. ASSUME NEW members \in SUBSET Members, NEW own,
             Rewrite({}, OfModules(members), own)
      PROVE  Promise!Replace(members)
  <2>1. Declared' = Promise!Current(members) /\ src' = src
    BY <1>2, <1>3
  <2> QED
    BY <2>1 DEF Promise!Replace, Declared
<1>4. ASSUME NEW m \in Members, Write(m)  PROVE Promise!Next
  BY <1>3, <1>4, WriteRewrites DEF Promise!Next
<1>5. ASSUME NEW listed \in SUBSET Members, WriteWorkspace(listed)  PROVE Promise!Next
  BY <1>3, <1>5, WriteWorkspaceRewrites DEF Promise!Next
<1>6. ASSUME NEW m \in Members, ReplaceRepo(m)  PROVE Promise!Rebuild(m)
  <2>1. Declared' = {i \in Declared : i[1] \in Others(m)} \cup Promise!Current({m})
        /\ src' = src
    BY <1>2, <1>6, ReplaceRepoRewrites DEF Others
  <2>2. {i \in Declared : i[1] \in Others(m)} = {i \in Declared : Module[i[1]] # m}
    BY DEF Declared, Others, Inv, TypeOK, SymbolRow
  <2> QED
    BY <2>1, <2>2 DEF Promise!Rebuild, Declared
<1>7. CASE UNCHANGED vars
  BY <1>7 DEF vars, tables, Declared
<1> QED
  BY <1>1, <1>4, <1>5, <1>6, <1>7 DEF Next, Promise!Next

(* A full write leaves exactly the declarations of the members it wrote, a *)
(* rebuild replaces those of one member and leaves the others'.            *)
THEOREM ImplementsPromise ==
  ASSUME Separate
  PROVE  Spec => KeepsPromise
<1>1. Separate /\ Inv /\ [Next]_vars => Inv'
  BY NextInv
<1>2. Inv /\ [Next]_vars => [Promise!Next]_<<src, Declared>>
  BY NextPromise
<1> QED
  BY <1>1, <1>2, InitInv, InitPromise, PTL
  DEF Spec, KeepsPromise, Promise!Spec, Declared
=============================================================================

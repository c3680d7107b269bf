----------------------------- MODULE ImportGraph -----------------------------
(* The questions about packages and what they import: imports_of,           *)
(* importers_of, transitive imports, dependency_flow and dependency_layers  *)
(* (query/query.go; BuildImportAdjacency and ImportFrontierBFS of store.go).*)
(* An import row names an import path, and a reader looks for the package   *)
(* of the index that is meant by it.  The walk over the imports and the     *)
(* layering loop are taken a step at a time: the rows, and the maps the     *)
(* loops run over, come in no order.                                        *)
EXTENDS IndexQueries

CONSTANTS
    EndsIn(_, _),       \* whether a path ends in "/" and another path
    Bare(_),            \* the last element of a path, "" of a path with one
    KnownModules(_),    \* the configured modules that own a path
    topHubs,            \* how many hubs are asked for
    Levels              \* bound of the levels, for imports in a circle

ASSUME ImportGraphAssumption == topHubs \in Nat \ {0} /\ Levels \in Nat

-----------------------------------------------------------------------------
(* Reading the rows.                                                        *)

dropTestOnlyImports(rows) == {e \in rows : ~e.testOnly}

AllImports(ix) == ix.imports

runtimeImportEdges(ix) == dropTestOnlyImports(ix.imports)

(* The package itself; or one whose path ends in the import's, whichever    *)
(* the map yields first; or one named like the import's last element.       *)
resolveProjectTarget(ref, project) ==
    LET suffixed == {p \in project : EndsIn(p, ref)} IN
    IF ref \in project THEN {ref}
    ELSE IF suffixed # {} THEN suffixed
    ELSE {Bare(ref)} \cap project

ImportsOf(ix, path) ==
    {[to |-> e.to,
      state |-> IF e.to \notin ix.packages /\ KnownModules(e.to) # {}
                THEN "not indexed" ELSE ""] :
        e \in dropTestOnlyImports({x \in ix.imports : x.from = path})}

(* The import paths a package may be meant by, besides its own.             *)
ImportPathsFor(ix, path) ==
    {e.to : e \in {x \in runtimeImportEdges(ix) :
                      x.to # path /\ path \in resolveProjectTarget(x.to, ix.packages)}}

(* The importers of a path, or, when there are none, those of some path     *)
(* that may mean it, this time with the tests.                              *)
ImportersOf(ix, path) ==
    LET direct == dropTestOnlyImports({e \in ix.imports : e.to = path})
        others == ImportPathsFor(ix, path)
        Importers(rows) == {e.from : e \in rows}
    IN  IF direct # {} \/ others = {} THEN {Importers(direct)}
        ELSE {Importers({e \in ix.imports : e.to = x}) : x \in others}

-----------------------------------------------------------------------------
(* DependencyFlow, but for its walk.                                        *)

directImports(ix, path) ==
    {e.to : e \in {x \in runtimeImportEdges(ix) :
                      x.from = path /\ resolveProjectTarget(x.to, ix.packages) # {}}}

directImporters(ix, path) ==
    LET rows == runtimeImportEdges(ix)
        To(x) == {e.from : e \in {r \in rows : r.to = x}}
        others == ImportPathsFor(ix, path)
    IN  IF To(path) # {} \/ others = {} THEN {To(path)} ELSE {To(x) : x \in others}

-----------------------------------------------------------------------------
(* TransitiveImports, and the walk of DependencyFlow: breadth first over    *)
(* the packages of the index, one row for each that is reached.             *)

BeginTransitive(path) ==
    walk' = [op |-> "transitive", start |-> path, done |-> FALSE,
             visited |-> {path}, queue |-> << >>, out |-> << >>,
             rows |-> {e \in runtimeImportEdges(index) : e.from = path}]

Walking == walk.op = "transitive" /\ ~walk.done

(* A row leads to a package already visited or to none of the index.        *)
SkipRow(e) ==
    /\ \/ resolveProjectTarget(e.to, index.packages) = {}
       \/ resolveProjectTarget(e.to, index.packages) \cap walk.visited # {}
    /\ walk' = [walk EXCEPT !.rows = @ \ {e}]

FollowRow(e, target) ==
    /\ target \notin walk.visited
    /\ walk' = [walk EXCEPT !.rows = @ \ {e},
                            !.visited = @ \cup {target},
                            !.queue = Append(@, target),
                            !.out = Append(@, [row |-> e, target |-> target])]

NextPackage ==
    /\ walk.rows = {}
    /\ IF walk.queue = << >> THEN walk' = [walk EXCEPT !.done = TRUE]
       ELSE walk' = [walk EXCEPT
                !.queue = Tail(@),
                !.rows = {e \in runtimeImportEdges(index) : e.from = Head(walk.queue)}]

ImportFrontierBFS ==
    /\ Walking
    /\ \/ \E e \in walk.rows :
             \/ SkipRow(e)
             \/ \E t \in resolveProjectTarget(e.to, index.packages) : FollowRow(e, t)
       \/ NextPackage
    /\ UNCHANGED index

-----------------------------------------------------------------------------
(* DependencyLayers.                                                        *)

(* A map from each row to the package it is taken for.                      *)
Targets(rows, project) ==
    {f \in [rows -> project] :
        \A e \in rows : f[e] \in resolveProjectTarget(e.to, project)}

buildProjectGraph(project) ==
    LET rows == {e \in runtimeImportEdges(index) :
                    /\ e.from \in project
                    /\ resolveProjectTarget(e.to, project) # {}}
    IN  {[edges |-> {<<e.from, f[e]>> : e \in rows},
          fanIn |-> [p \in project |-> Cardinality({e \in rows : f[e] = p})]] :
            f \in Targets(rows, project)}

(* The packages with the most importers, by path among equals.              *)
topHubEntries(project, fanIn) ==
    LET Before(p, q) ==
            fanIn[p] > fanIn[q] \/ (fanIn[p] = fanIn[q] /\ Rank(p) < Rank(q))
    IN  {p \in project : Cardinality({q \in project : Before(q, p)}) < topHubs}

Unset == -1

BeginLayers(includeTests) ==
    LET project == IF includeTests THEN index.packages
                   ELSE index.packages \ index.tests
    IN  \E graph \in buildProjectGraph(project) :
        LET leaves == {p \in project : ~\E x \in graph.edges : x[1] = p} IN
            walk' = [op |-> "layers", done |-> FALSE, graph |-> graph.edges,
                     fanIn |-> graph.fanIn, hubs |-> topHubEntries(project, graph.fanIn),
                     queue |-> InOrder(leaves),
                     level |-> [p \in project |-> IF p \in leaves THEN 0 ELSE Unset]]

depsReady(p, level) == \A x \in walk.graph : x[1] = p => level[x[2]] # Unset

(* A package keeps the first level it gets.                                 *)
FirstLevel(existing, candidate) == IF existing = Unset THEN candidate ELSE existing

Raised(existing, candidate) == Max({existing, candidate})

kahnStep ==
    /\ walk.op = "layers" /\ ~walk.done /\ walk.queue # << >>
    /\ LET current == Head(walk.queue)
           importers == {x[1] : x \in {y \in walk.graph : y[2] = current}}
           candidate == walk.level[current] + 1
           level == [p \in DOMAIN walk.level |->
                        IF p \in importers THEN Raised(walk.level[p], candidate)
                        ELSE walk.level[p]]
       IN  /\ candidate <= Levels
           /\ \E order \in SetToSeqs({p \in importers : depsReady(p, level)}) :
                 walk' = [walk EXCEPT !.level = level, !.queue = Tail(@) \o order]
    /\ UNCHANGED index

kahnEnd ==
    /\ walk.op = "layers" /\ ~walk.done /\ walk.queue = << >>
    /\ walk' = [walk EXCEPT !.done = TRUE,
                            !.level = [p \in DOMAIN walk.level |-> Max({walk.level[p], 0})]]
    /\ UNCHANGED index

-----------------------------------------------------------------------------
BeginImports ==
    /\ walk = Idle
    /\ \/ \E p \in index.packages : BeginTransitive(p)
       \/ \E includeTests \in BOOLEAN : BeginLayers(includeTests)
    /\ UNCHANGED index

Layering == kahnStep \/ kahnEnd

ImportNext == BeginImports \/ ImportFrontierBFS \/ Layering

ImportSpec == Init /\ [][ImportNext]_vars

-----------------------------------------------------------------------------
(* What must hold.                                                          *)

(* Every import means at most one package.                                  *)
Unambiguous(ix) ==
    \A e \in ix.imports :
        \A p, q \in resolveProjectTarget(e.to, ix.packages) : p = q

(* Every import that means a package of the index, or one of those that are *)
(* no tests, is spelled as its path: where the tests are left out, an       *)
(* import of a test may be taken for a package with a like path.            *)
Exact(ix) ==
    \A e \in ix.imports, project \in {ix.packages, ix.packages \ ix.tests} :
        resolveProjectTarget(e.to, project) \subseteq {e.to}

(* What following imports_of from a package in the set leads to is in it.   *)
ImportsClosed(ix, reached) ==
    \A p \in reached : \A i \in ImportsOf(ix, p) :
        resolveProjectTarget(i.to, ix.packages) \subseteq reached

(* The packages reached from one by what imports_of answers.                *)
ReachedFrom(ix, path) ==
    {p \in ix.packages :
        \A reached \in SUBSET ix.packages :
            path \in reached /\ ImportsClosed(ix, reached) => p \in reached}

TransitiveAgrees ==
    walk.op = "transitive" /\ walk.done /\ Unambiguous(index) =>
        LET targets == [i \in DOMAIN walk.out |-> walk.out[i].target] IN
        /\ Range(targets) = ReachedFrom(index, walk.start) \ {walk.start}
        /\ Cardinality(Range(targets)) = Len(targets)

FlowAgrees ==
    walk = Idle /\ Exact(index) =>
        \A p \in index.packages :
            /\ directImports(index, p)
                  = {i.to : i \in ImportsOf(index, p)} \cap index.packages
            /\ directImporters(index, p) = ImportersOf(index, p)
            /\ ImportersOf(index, p)
                  = {{q \in index.packages : p \in {i.to : i \in ImportsOf(index, q)}}}

HubsAgree ==
    walk.op = "layers" /\ walk.done /\ Exact(index) =>
        \A p \in walk.hubs :
            {walk.fanIn[p]} = {Cardinality(x \cap DOMAIN walk.level) :
                                  x \in ImportersOf(index, p)}

(* The readers of the imports tell one story: a package is among the        *)
(* importers of another exactly when the other is among its imports, in     *)
(* dependency_flow too and in the counts of the hubs, and the transitive    *)
(* imports are what following imports_of reaches, each package once         *)
(* (runtimeImportEdges, dropTestOnlyImports, ImportFrontierBFS).            *)
ImportReadersAgree == TransitiveAgrees /\ FlowAgrees /\ HubsAgree

Acyclic(graph) ==
    ~\E circle \in SUBSET {x[1] : x \in graph} :
        circle # {} /\ \A p \in circle : \E q \in circle : <<p, q>> \in graph

(* Where no imports run in a circle the layering ends, and puts a package   *)
(* one level above the highest it imports (kahnLayers, depsReady).          *)
LayersRise ==
    walk.op = "layers" /\ Acyclic(walk.graph) ~>
        /\ walk.op = "layers" /\ walk.done
        /\ \A p \in DOMAIN walk.level :
              walk.level[p] =
                  Max({0} \cup {walk.level[x[2]] + 1 : x \in {y \in walk.graph : y[1] = p}})

(* Against the README and the tool's description ("topological layers       *)
(* (Kahn)"): no package is above as many levels as there are packages.  One *)
(* that is taken for a package it imports, and imports another, is raised   *)
(* above itself for ever.                                                   *)
LevelsBounded ==
    walk.op = "layers" =>
        \A p \in DOMAIN walk.level : walk.level[p] < Cardinality(DOMAIN walk.level)

(* Against the comment of runtimeImportEdges ("one package's imports cannot *)
(* differ between imports_of, ... dependency_flow"): importers_of, when it  *)
(* falls back on another spelling, lists tests that dependency_flow omits.  *)
FallbackAgrees ==
    walk = Idle =>
        \A p \in index.packages : ImportersOf(index, p) = directImporters(index, p)
=============================================================================

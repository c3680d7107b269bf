------------------------------ MODULE CallGraph ------------------------------
(* The questions about symbols and the edges between them: callers and      *)
(* callees, paths, cycles, unused symbols, entry points and blast radius    *)
(* (query/query.go over the tables of store/store.go).  An index does not   *)
(* change while it is asked; the walks that loop, FindPath and              *)
(* DetectCycles, are taken a step at a time, because the rows a step reads  *)
(* come in no order and the loop is what may go wrong.                      *)
EXTENDS IndexQueries

CONSTANTS
    Sibling(_),   \* the _test.go file beside a file
    TestEntries,  \* the names that begin as those of tests, benchmarks, fuzz targets do
    maxCycles     \* bound of query.go

liveEdgeTypes == {"calls", "references", "satisfies", "embeds"}
allEdgeTypes == liveEdgeTypes \cup {"imports", "contract"}

(* An edge leaves the function or the declaration it stands in, so none     *)
(* leaves a method an interface lists; and what go test runs is exported.   *)
(* A path is asked for within some depth.                                   *)
ASSUME CallGraphAssumption ==
    /\ maxCycles \in Nat \ {0}
    /\ \A ix \in Indexes :
          /\ IsFiniteSet(ix.contracts)
          /\ \A e \in ix.edges : /\ e.type \in allEdgeTypes
                                 /\ {e.from, e.to} \subseteq QualifiedNames
          /\ \A s \in ix.symbols : s.name \in TestEntries => s.exported
          /\ \A s, t \in ix.symbols :
                (/\ s.kind = "method"
                 /\ t.kind = "interface" /\ t.ref = <<s.ref[1], "", s.ref[2]>>) =>
                   \A e \in ix.edges : e.from # s.ref
          /\ \A request \in Requests(ix) :
                request.op = "path" => request.depth \in Nat \ {0}

-----------------------------------------------------------------------------
(* Reading the tables.                                                      *)

Named(ix, ref) == {s \in ix.symbols : s.ref = ref}
EdgesFrom(ix, ref) == {e \in ix.edges : e.from = ref}
EdgesTo(ix, ref) == {e \in ix.edges : e.to = ref}

repoMismatch(repo, wanted) == wanted # "" /\ repo # wanted
filterEdges(rows, repo) == {e \in rows : ~repoMismatch(e.repo, repo)}

Far(e, outgoing) == IF outgoing THEN e.to ELSE e.from
Near(e, outgoing) == IF outgoing THEN e.from ELSE e.to

(* The rows are all read for one depth before the next one; the walk does   *)
(* not go on from a name it has been at.                                    *)
traverse(ix, starts, outgoing, depth, types) ==
    LET level[d \in 0 .. depth] ==
            IF d = 0 THEN [queue |-> starts, visited |-> {}, rows |-> {}]
            ELSE LET before == level[d - 1]
                     frontier == before.queue \ before.visited
                     rows == {e \in ix.edges : /\ e.type \in types
                                               /\ Near(e, outgoing) \in frontier}
                 IN  [queue   |-> {Far(e, outgoing) : e \in rows},
                      visited |-> before.visited \cup frontier,
                      rows    |-> before.rows \cup rows]
    IN  level[depth].rows

receiverType(s) == <<s.ref[1], "", s.ref[2]>>

(* A method has, besides its callers, the places where its receiver is      *)
(* taken for an interface; the receiver's own methods are no such place.    *)
dispatchRows(ix, ref) ==
    {e \in ix.edges :
        \E s \in Named(ix, ref) :
            /\ s.kind = "method"
            /\ \E t \in Named(ix, receiverType(s)) : t.kind # "interface"
            /\ e.to = receiverType(s)
            /\ e.type \in {"references", "satisfies", "embeds"}
            /\ e.from # receiverType(s)
            /\ <<e.from[1], "", e.from[2]>> # receiverType(s)}

(* Nothing is answered for a name that is no symbol's: the call fails.      *)
CallersOf(ix, ref, depth, types, repo) ==
    IF Named(ix, ref) = {} THEN {}
    ELSE filterEdges(traverse(ix, {ref}, FALSE, depth, types) \cup dispatchRows(ix, ref),
                     repo)

CalleesOf(ix, ref, depth, types, repo) ==
    IF Named(ix, ref) = {} THEN {}
    ELSE filterEdges(traverse(ix, {ref}, TRUE, depth, types), repo)

markExternal(ix, rows) == {e \in rows : Named(ix, e.to) = {}}

Show(ix, ref) ==
    [incoming |-> EdgesTo(ix, ref),
     outgoing |-> EdgesFrom(ix, ref),
     external |-> markExternal(ix, EdgesFrom(ix, ref))]

-----------------------------------------------------------------------------
(* FindPath.                                                                *)

contractToEdge(c) ==
    [from |-> c.from, to |-> c.to, type |-> "contract", repo |-> c.repo, file |-> ""]

BeginPath(request) ==
    /\ Named(index, request.from) # {}
    /\ Named(index, request.to) # {}
    /\ walk' = [op |-> "path", request |-> request, visited |-> {}, answer |-> << >>,
                found |-> FALSE, done |-> FALSE,
                queue |-> <<[name |-> request.from, path |-> << >>]>>]

(* The edges a step of the walk may follow: forward only.                   *)
OutEdges(ix, ref, repo) ==
    {e \in EdgesFrom(ix, ref) : ~repoMismatch(e.repo, repo)}
    \cup {contractToEdge(c) : c \in
             {x \in ix.contracts : /\ x.from = ref
                                      /\ ~x.suggested
                                      /\ ~repoMismatch(x.repo, repo)}}

Current == Head(walk.queue)

(* The next names go to the head of the queue.                              *)
DepthFirst(queue, nodes) == nodes \o queue

Enqueued(queue, nodes) == queue \o nodes

Looking == walk.op = "path" /\ ~walk.done

NoPath ==
    /\ Looking /\ walk.queue = << >>
    /\ walk' = [walk EXCEPT !.done = TRUE]

PassVisited ==
    /\ Looking /\ walk.queue # << >> /\ Current.name \in walk.visited
    /\ walk' = [walk EXCEPT !.queue = Tail(@)]

filterPathSteps(path, repo) ==
    LET kept[n \in 0 .. Len(path)] ==
            IF n = 0 THEN << >>
            ELSE IF repoMismatch(path[n].repo, repo) THEN kept[n - 1]
            ELSE Append(kept[n - 1], path[n])
    IN  kept[Len(path)]

Arrived == Current.name = walk.request.to /\ Current.path # << >>

(* At a name not visited before: it is the end, or too far away, or its     *)
(* neighbours are queued behind the others.                                 *)
Arrive ==
    /\ Looking /\ walk.queue # << >> /\ Current.name \notin walk.visited
    /\ Arrived
    /\ walk' = [walk EXCEPT
          !.visited = @ \cup {Current.name}, !.done = TRUE, !.found = TRUE,
          !.answer = filterPathSteps(Current.path, walk.request.repo)]

TurnBack ==
    /\ Looking /\ walk.queue # << >> /\ Current.name \notin walk.visited
    /\ ~Arrived /\ Len(Current.path) >= walk.request.depth
    /\ walk' = [walk EXCEPT !.visited = @ \cup {Current.name}, !.queue = Tail(@)]

Expand ==
    /\ Looking /\ walk.queue # << >> /\ Current.name \notin walk.visited
    /\ ~Arrived /\ Len(Current.path) < walk.request.depth
    /\ LET visited == walk.visited \cup {Current.name}
           next == {e \in OutEdges(index, Current.name, walk.request.repo) :
                        e.to \notin visited}
       IN  \E order \in SetToSeqs(next) :
              walk' = [walk EXCEPT
                  !.visited = visited,
                  !.queue = Enqueued(Tail(@), [i \in DOMAIN order |->
                      [name |-> order[i].to, path |-> Append(Current.path, order[i])]])]

FindPath == (NoPath \/ PassVisited \/ Arrive \/ TurnBack \/ Expand) /\ UNCHANGED index

-----------------------------------------------------------------------------
(* DetectCycles: a search from each name, which expands no name before it.  *)

BeginCycles(request) ==
    LET rows == {e \in index.edges : e.type = request.type} IN
    walk' = [op |-> "cycles", done |-> FALSE, truncated |-> FALSE,
             graph |-> {<<e.from, e.to>> : e \in rows},
             roots |-> NamesInOrder({e.from : e \in rows} \cup {e.to : e \in rows}),
             stack |-> << >>, cycles |-> << >>]

Frame(node, root) ==
    [node |-> node, root |-> root,
     rest |-> IF ~Precedes(node, root)
              THEN NamesInOrder({x[2] : x \in {y \in walk.graph : y[1] = node}})
              ELSE << >>]

(* Two cycles through the same names are taken for one.                     *)
SameNames(cycle) == NamesInOrder(Range(cycle))

(* The cycle, without the repeated name, from its smallest name on.         *)
canonicalCycle(cycle) ==
    LET n == Len(cycle)
        least == CHOOSE i \in 1 .. n : \A j \in 1 .. n : ~Precedes(cycle[j], cycle[i])
    IN  [i \in 1 .. n |-> cycle[((least + i - 2) % n) + 1]]

Searching ==
    walk.op = "cycles" /\ ~walk.done /\ Len(walk.cycles) < maxCycles

NextRoot ==
    /\ Searching /\ walk.stack = << >> /\ walk.roots # << >>
    /\ walk' = [walk EXCEPT !.stack = <<Frame(Head(walk.roots), Head(walk.roots))>>,
                            !.roots = Tail(@)]

Top == Last(walk.stack)
BelowTop == Front(walk.stack)
OnPath == [i \in DOMAIN walk.stack |-> walk.stack[i].node]

Passed == Append(BelowTop, [Top EXCEPT !.rest = Tail(@)])

Descend ==
    /\ Searching /\ walk.stack # << >> /\ Top.rest # << >>
    /\ Head(Top.rest) \notin Range(OnPath)
    /\ walk' = [walk EXCEPT !.stack = Append(Passed, Frame(Head(Top.rest), Top.root))]

Emit ==
    /\ Searching /\ walk.stack # << >> /\ Top.rest # << >>
    /\ \E i \in DOMAIN OnPath :
          /\ OnPath[i] = Head(Top.rest)
          /\ LET cycle == SubSeq(OnPath, i, Len(OnPath))
                 known == {canonicalCycle(c) : c \in Range(walk.cycles)}
             IN  walk' = [walk EXCEPT
                    !.stack = Passed,
                    !.cycles = IF canonicalCycle(cycle) \in known THEN @
                               ELSE Append(@, cycle)]

Return ==
    /\ Searching /\ walk.stack # << >> /\ Top.rest = << >>
    /\ walk' = [walk EXCEPT !.stack = BelowTop]

(* With the last cycle the bound allows, every frame is left at once.       *)
StopSearch ==
    /\ walk.op = "cycles" /\ ~walk.done
    /\ \/ Len(walk.cycles) >= maxCycles
       \/ walk.stack = << >> /\ walk.roots = << >>
    /\ walk' = [walk EXCEPT !.done = TRUE, !.stack = << >>,
                            !.truncated = Len(walk.cycles) >= maxCycles]

DetectCycles == (NextRoot \/ Descend \/ Emit \/ Return \/ StopSearch) /\ UNCHANGED index

-----------------------------------------------------------------------------
(* Symbols nobody calls.                                                    *)

IsTestEntry(s) == s.name \in TestEntries

liveByDesign(ix, s) ==
    \/ s.name = "_"
    \/ /\ s.kind = "function"
       /\ s.name = "init" \/ (s.name = "main" /\ s.ref[1] \in ix.mains)

AllSymbols(ix, includeTests) == {s \in ix.symbols : includeTests \/ ~s.test}

rootSymbols(ix, includeTests) ==
    {s.ref : s \in {x \in AllSymbols(ix, includeTests) :
                       x.exported \/ liveByDesign(ix, x)}}
    \cup {s.ref : s \in {x \in ix.symbols :
                            x.test /\ x.kind # "method" /\ IsTestEntry(x)}}

(* Only calls keep a name alive.                                            *)
CallsOnly(ix, roots) ==
    LET reach[n \in 0 .. Cardinality(ix.edges)] ==
            IF n = 0 THEN roots
            ELSE LET before == reach[n - 1] IN
                 before \cup {e.to : e \in {x \in ix.edges :
                                 x.from \in before /\ x.type = "calls"}}
    IN  reach[Cardinality(ix.edges)]

ReachableFrom(ix, roots) ==
    LET reach[n \in 0 .. Cardinality(ix.edges)] ==
            IF n = 0 THEN roots
            ELSE LET before == reach[n - 1] IN
                 before \cup {e.to : e \in {x \in ix.edges :
                                 x.from \in before /\ x.type \in liveEdgeTypes}}
    IN  reach[Cardinality(ix.edges)]

(* The methods that stand behind a reachable method of an interface; what   *)
(* they call is not looked at again.                                        *)
interfaceDispatchedMethods(ix, includeTests, reachable) ==
    {<<x[1].from[1], x[1].from[3], x[2].name>> :
        x \in {y \in ix.edges \X AllSymbols(ix, includeTests) :
            /\ y[1].type = "satisfies"
            /\ y[2].kind = "method" /\ y[2].ref \in reachable
            /\ y[1].to = receiverType(y[2])}}

InterfaceMethod(ix, includeTests, s) ==
    /\ s.kind = "method"
    /\ \E t \in AllSymbols(ix, includeTests) :
          t.kind = "interface" /\ t.ref = receiverType(s)

UnusedSymbols(ix, includeTests) ==
    LET reachable == ReachableFrom(ix, rootSymbols(ix, includeTests))
        dispatched == interfaceDispatchedMethods(ix, includeTests, reachable)
    IN  {s \in AllSymbols(ix, includeTests) :
            /\ ~s.exported
            /\ ~s.generated
            /\ ~liveByDesign(ix, s)
            /\ ~InterfaceMethod(ix, includeTests, s)
            /\ s.ref \notin reachable \cup dispatched}

(* Each symbol the default heuristics name is listed once, for the first of *)
(* them that does.                                                          *)
EntryPoints(ix, includeTests) ==
    {s \in AllSymbols(ix, includeTests) :
        \/ s.test /\ IsTestEntry(s)
        \/ /\ ~s.test /\ s.kind = "function"
           /\ s.name = "main" /\ s.ref[1] \in ix.mains
        \/ /\ ~s.test /\ s.exported /\ s.kind \in {"function", "method"}
           /\ ~IsTestEntry(s)
           /\ ~\E e \in EdgesTo(ix, s.ref) : e.type \in {"calls", "references"}}

(* How much a change of a symbol may touch.                                 *)
GetBlastRadius(ix, ref, depth, repo) ==
    LET direct == filterEdges(EdgesTo(ix, ref), repo)
        Of(types) == Cardinality({e \in direct : e.type \in types})
    IN  [directCallers     |-> Of({"calls", "references"}),
         transitiveCallers |-> Cardinality(CallersOf(ix, ref, depth, allEdgeTypes, repo)),
         implementations   |-> Of({"satisfies"}),
         embedders         |-> Of({"embeds"})]

(* The test files that call or name, within the depth, what the changed     *)
(* files declare, and the test files beside those.                          *)
AffectedTests(ix, changed, depth) ==
    LET roots == {s.ref : s \in {x \in ix.symbols : x.file \in changed}}
        rows == traverse(ix, roots, FALSE, depth, {"calls", "references"})
        indexed == {s.file : s \in ix.symbols}
    IN  [callers    |-> {e.file : e \in rows} \cap TestFiles,
         convention |-> {Sibling(f) : f \in changed \ TestFiles} \cap indexed]

-----------------------------------------------------------------------------
BeginCall ==
    /\ walk = Idle
    /\ \E request \in Requests(index) :
          \/ request.op = "path" /\ BeginPath(request)
          \/ request.op = "cycles" /\ BeginCycles(request)
    /\ UNCHANGED index

CallNext == BeginCall \/ FindPath \/ DetectCycles

CallSpec == Init /\ [][CallNext]_vars

-----------------------------------------------------------------------------
(* What must hold.                                                          *)

(* The names that forward edges lead to in a number of steps.               *)
Ahead(ix, request) ==
    LET names[n \in 0 .. request.depth] ==
            IF n = 0 THEN {request.from}
            ELSE {e.to : e \in UNION {OutEdges(ix, ref, request.repo) : ref \in names[n - 1]}}
    IN  names

Distances(ix, request) == {n \in 1 .. request.depth : request.to \in Ahead(ix, request)[n]}

Chained(path, from, to) ==
    /\ path[1].from = from
    /\ Last(path).to = to
    /\ \A i \in 1 .. Len(path) - 1 : path[i].to = path[i + 1].from

(* A path is found exactly when forward edges lead there within the depth;  *)
(* it is contiguous and none is shorter; and without contract links and a   *)
(* repository, callees_of from one end and callers_of from the other reach  *)
(* it within the same depth, and affected_tests names the test it starts    *)
(* from, if it does (FindPath, traverse, collectCallerTests).               *)
PathsAgree ==
    walk.op = "path" /\ walk.done =>
        LET request == walk.request
            distances == Distances(index, request)
        IN  /\ walk.found <=> distances # {} /\ request.from # request.to
            /\ walk.found => /\ Len(walk.answer) = Min(distances)
                             /\ Chained(walk.answer, request.from, request.to)
            /\ (/\ request.repo = ""
                /\ request.from # request.to
                /\ \A e \in Range(walk.answer) : e.type # "contract") =>
                  /\ walk.found => request.to \in
                        {e.to : e \in CalleesOf(index, request.from, request.depth,
                                                allEdgeTypes, "")}
                  /\ walk.found => request.from \in
                        {e.from : e \in CallersOf(index, request.to, request.depth,
                                                  allEdgeTypes, "")}
                  /\ ~walk.found => request.to \notin
                        {e.to : e \in CalleesOf(index, request.from, request.depth,
                                                allEdgeTypes, "")}
                  /\ (/\ walk.found
                      /\ {e.type : e \in Range(walk.answer)} \subseteq {"calls", "references"}
                      /\ Head(walk.answer).file \in TestFiles) =>
                        \A s \in Named(index, request.to) :
                            Head(walk.answer).file \in
                                AffectedTests(index, {s.file}, request.depth).callers

SimpleCycles(graph) ==
    {c \in SetToAllKPermutations({x[1] : x \in graph}) :
        /\ c # << >>
        /\ \A i \in 1 .. Len(c) : <<c[i], c[(i % Len(c)) + 1]>> \in graph
        /\ canonicalCycle(c) = c}

(* When the search ends below its bound, it lists every simple cycle of the *)
(* graph, each once and each a cycle; at the bound it lists as many as the  *)
(* bound says and tells so (DetectCycles, cycleFinder.dfs).                 *)
CyclesComplete ==
    walk.op = "cycles" /\ walk.done =>
        LET listed == {canonicalCycle(c) : c \in Range(walk.cycles)}
            every == SimpleCycles(walk.graph)
        IN  /\ listed \subseteq every
            /\ Cardinality(listed) = Len(walk.cycles)
            /\ Len(walk.cycles) = Min({Cardinality(every), maxCycles})
            /\ Cardinality(every) > maxCycles => walk.truncated

(* Whoever names an unused symbol, as show lists it, is itself unused, or   *)
(* generated, or a test the report leaves out, or a method behind an        *)
(* interface, whose callees are not followed; no entry point is unused; and *)
(* what blast_radius counts is among what callers_of lists (UnusedSymbols,  *)
(* interfaceDispatchedMethods, EntryPoints, GetBlastRadius).                *)
DeletionSafe ==
    walk = Idle =>
        /\ \A includeTests \in BOOLEAN :
            LET unused == UnusedSymbols(index, includeTests)
                reachable == ReachableFrom(index, rootSymbols(index, includeTests))
                behind == interfaceDispatchedMethods(index, includeTests, reachable)
            IN  /\ unused \cap EntryPoints(index, includeTests) = {}
                /\ \A s \in unused : \A e \in Show(index, s.ref).incoming :
                      e.type \in liveEdgeTypes =>
                          \A c \in Named(index, e.from) :
                              \/ c \in unused
                              \/ c.generated
                              \/ c.test /\ ~includeTests
                              \/ c.ref \in behind
        /\ \A s \in index.symbols :
              LET radius == GetBlastRadius(index, s.ref, 2, "") IN
              radius.directCallers + radius.implementations + radius.embedders
                  <= radius.transitiveCallers

(* Against the comment of interfaceDispatchedMethods ("deleting one would   *)
(* break a live call path"): a function only methods behind an interface    *)
(* call is unused all the same.                                             *)
BehindInterfacesUsed ==
    walk = Idle =>
        LET reachable == ReachableFrom(index, rootSymbols(index, TRUE))
            behind == interfaceDispatchedMethods(index, TRUE, reachable)
        IN  \A s \in UnusedSymbols(index, TRUE) : \A e \in EdgesTo(index, s.ref) :
                e.type = "calls" => e.from \notin behind

(* Against the comment of Cycle ("the graph contains more distinct cycles   *)
(* than the returned set"): a search that finds as many cycles as its bound *)
(* and no more is marked too.                                               *)
TruncatedMeansMore ==
    walk.op = "cycles" /\ walk.done /\ walk.truncated =>
        Cardinality(SimpleCycles(walk.graph)) > maxCycles
=============================================================================

--------------------------- MODULE ChangedSymbols ---------------------------
(* changed_symbols: what the working tree declares otherwise than a commit  *)
(* does (the second part of query/query.go, with the git calls of vcs.go).  *)
(* The files git lists are taken one after another, as the code does: a     *)
(* name reported for one of them is not looked at for a later one.  The     *)
(* index has been brought up to the files on disk before.                   *)
EXTENDS IndexQueries

CONSTANTS
    PackageOf(_),    \* the package of a file
    NoShape          \* a declaration whose text was not taken down

(* Files, packages and identifiers are texts, a file has finitely many      *)
(* declarations, and what git does not track is on disk.                    *)
ASSUME ChangedSymbolsAssumption ==
    \A ix \in Indexes : \A request \in Requests(ix) : request.op = "changes" =>
        LET delta == request.delta IN
        /\ request.includeTests \in BOOLEAN
        /\ delta.untracked \subseteq DOMAIN delta.disk
        /\ \A tree \in {delta.ref, delta.disk} : \A file \in DOMAIN tree :
              /\ {file, PackageOf(file)} \subseteq Range(TextOrder)
              /\ IsFiniteSet(tree[file])
              /\ \A d \in tree[file] : d.name \in [1 .. 2 -> Range(TextOrder)]

(* A tree maps files to their declarations, each with its name, a receiver  *)
(* or "" and an identifier, and its shape: its text but for that name.      *)
Ref(file, d) == <<PackageOf(file)>> \o d.name
Refs(file, decls) == {Ref(file, d) : d \in decls}
ShapeOf(file, decls, ref) == (CHOOSE d \in decls : Ref(file, d) = ref).shape

-----------------------------------------------------------------------------
(* Git.                                                                     *)

Files(tree) == DOMAIN tree

(* A file gone and a new one may be told as one that moved when they have   *)
(* text in common; a file git does not track is told apart.                 *)
GitFileStatuses(delta) ==
    LET gone == Files(delta.ref) \ Files(delta.disk)
        new == Files(delta.disk) \ (Files(delta.ref) \cup delta.untracked)
        Similar(x) == delta.ref[x[1]] \cap delta.disk[x[2]] # {}
        Moves == {m \in SUBSET {x \in gone \X new : Similar(x)} :
                     \A x, y \in m : x # y => x[1] # y[1] /\ x[2] # y[2]}
        edited == {f \in Files(delta.ref) \cap Files(delta.disk) :
                      delta.ref[f] # delta.disk[f]}
        Status(m, f) ==
            IF f \in edited THEN [status |-> "M", path |-> f, old |-> ""]
            ELSE IF f \in gone THEN [status |-> "D", path |-> f, old |-> ""]
            ELSE IF \E x \in m : x[2] = f
            THEN [status |-> "R", path |-> f,
                  old |-> (CHOOSE x \in m : x[2] = f)[1]]
            ELSE [status |-> "A", path |-> f, old |-> ""]
        List(m, files) == [i \in DOMAIN files |-> Status(m, files[i])]
    IN  {List(m, InOrder(edited \cup new \cup (gone \ {x[1] : x \in m}))) : m \in Moves}

GitUntrackedFiles(delta) ==
    LET files == InOrder(delta.untracked) IN
    [i \in DOMAIN files |-> [status |-> "?", path |-> files[i], old |-> ""]]

-----------------------------------------------------------------------------
(* ChangedSymbols.                                                          *)

Changed(ref, change, shape) ==
    [ref |-> ref, change |-> change, shape |-> shape, from |-> << >>]

BeginChanges(request) ==
    \E statuses \in GitFileStatuses(request.delta) :
        LET todo == statuses \o GitUntrackedFiles(request.delta) IN
        walk' = [op |-> "changes", delta |-> request.delta,
                 includeTests |-> request.includeTests, done |-> FALSE,
                 statuses |-> statuses, todo |-> todo, seen |-> {},
                 symbols |-> << >>, renamed |-> << >>,
                 summary |-> [added |-> 0, modified |-> 0, removed |-> 0, renamed |-> 0,
                              filesChanged |-> Len(todo)]]

PlacesOf(symbols, change) == {i \in 1 .. Len(symbols) : symbols[i].change = change}

Count(symbols, change) == Cardinality(PlacesOf(symbols, change))

(* A name with nothing to tell of it is left out.                           *)
Worth(symbols) == Picked(symbols, {i \in DOMAIN symbols : symbols[i].change # ""})

Counting(summary, symbols, moved) ==
    [summary EXCEPT !.added = @ + Count(symbols, "added"),
                    !.modified = @ + Count(symbols, "modified"),
                    !.removed = @ + Count(symbols, "removed"),
                    !.renamed = @ + Len(moved)]

(* Every reported symbol is counted as it is appended.                      *)
appendChangedSymbols(symbols) ==
    /\ walk' = [walk EXCEPT
          !.todo = Tail(@),
          !.seen = @ \cup {s.ref : s \in Range(symbols)},
          !.symbols = @ \o symbols,
          !.summary = Counting(@, symbols, << >>)]

(* A file that is gone: its declarations are named by the file and their    *)
(* identifier.                                                              *)
processDeletedFile ==
    /\ walk.todo # << >> /\ Head(walk.todo).status = "D"
    /\ LET file == Head(walk.todo).path
           names == {d.name[2] : d \in walk.delta.ref[file]}
           fresh == InOrder({n \in names : <<file, n>> \notin walk.seen})
       IN  appendChangedSymbols([i \in DOMAIN fresh |->
               Changed(<<file, fresh[i]>>, "removed", NoShape)])

(* A name the file did not have before counts as an edit.                   *)
EditedOrSame(ref, file, cur, old) ==
    IF ref \in Refs(file, old) /\ ShapeOf(file, cur, ref) = ShapeOf(file, old, ref)
    THEN "" ELSE "modified"

classifySymbol(ref, file, cur, old) ==
    IF ref \notin Refs(file, old) THEN "added"
    ELSE IF ShapeOf(file, cur, ref) # ShapeOf(file, old, ref) THEN "modified" ELSE ""

(* What is there of a file that is on disk: nothing is looked at when the   *)
(* index has no symbol of it, or none that may be told.                     *)
SymbolsInFile(delta, file, includeTests) ==
    IF file \in TestFiles /\ ~includeTests THEN {} ELSE Refs(file, delta.disk[file])

DeclsAtRef(delta, file) == IF file \in Files(delta.ref) THEN delta.ref[file] ELSE {}

processChangedFile ==
    /\ walk.todo # << >> /\ Head(walk.todo).status # "D"
    /\ LET status == Head(walk.todo)
           file == status.path
           old == DeclsAtRef(walk.delta, file)
           cur == walk.delta.disk[file]
           here == SymbolsInFile(walk.delta, file, walk.includeTests)
           unseen == NamesInOrder(here \ walk.seen)
           classified == [i \in DOMAIN unseen |->
               Changed(unseen[i], classifySymbol(unseen[i], file, cur, old),
                       ShapeOf(file, cur, unseen[i]))]
           gone == NamesInOrder(Refs(file, old) \ (here \cup walk.seen))
           removed == [i \in DOMAIN gone |->
               Changed(gone[i], "removed", ShapeOf(file, old, gone[i]))]
           told == IF here = {} THEN << >> ELSE Worth(classified) \o removed
           moved == IF status.status = "R"
                    THEN <<[from |-> status.old, to |-> file]>> ELSE << >>
       IN  walk' = [walk EXCEPT
              !.todo = Tail(@),
              !.renamed = @ \o moved,
              !.seen = IF here = {} THEN @ ELSE @ \cup here \cup Range(gone),
              !.symbols = @ \o told,
              !.summary = Counting(@, told, moved)]

(* The place of a symbol among those reported as it is with its shape.      *)
PlaceAmong(symbols, i) ==
    Cardinality({j \in 1 .. i : /\ symbols[j].change = symbols[i].change
                                /\ symbols[j].shape = symbols[i].shape})

(* Every new name is taken for the first lost one of its shape.             *)
PairedWithFirst(symbols) ==
    {x \in (DOMAIN symbols) \X (DOMAIN symbols) :
        /\ symbols[x[1]].change = "removed" /\ symbols[x[2]].change = "added"
        /\ symbols[x[1]].shape = symbols[x[2]].shape
        /\ symbols[x[1]].shape # NoShape
        /\ PlaceAmong(symbols, x[1]) = 1}

(* The first new name of a shape takes the first lost one of it, and so on. *)
Paired(symbols) ==
    {x \in (DOMAIN symbols) \X (DOMAIN symbols) :
        /\ symbols[x[1]].change = "removed" /\ symbols[x[2]].change = "added"
        /\ symbols[x[1]].shape = symbols[x[2]].shape
        /\ symbols[x[1]].shape # NoShape
        /\ PlaceAmong(symbols, x[1]) = PlaceAmong(symbols, x[2])}

recountChangedSummary(symbols, summary) ==
    [added |-> Count(symbols, "added"), modified |-> Count(symbols, "modified"),
     removed |-> Count(symbols, "removed"),
     renamed |-> summary.renamed + Count(symbols, "renamed"),
     filesChanged |-> summary.filesChanged]

reportRenames ==
    /\ walk.todo = << >> /\ ~walk.done
    /\ LET pairs == Paired(walk.symbols)
           From(i) == CHOOSE x \in pairs : x[2] = i
           renamed == [i \in DOMAIN walk.symbols |->
               IF \E x \in pairs : x[2] = i
               THEN [walk.symbols[i] EXCEPT !.change = "renamed",
                                            !.from = walk.symbols[From(i)[1]].ref]
               ELSE IF \E x \in pairs : x[1] = i
               THEN [walk.symbols[i] EXCEPT !.change = ""]
               ELSE walk.symbols[i]]
           kept == Worth(renamed)
       IN  walk' = [walk EXCEPT
              !.done = TRUE, !.symbols = kept,
              !.summary = IF pairs = {} THEN @ ELSE recountChangedSummary(kept, @)]

BeginDelta ==
    /\ walk = Idle
    /\ \E request \in Requests(index) : request.op = "changes" /\ BeginChanges(request)
    /\ UNCHANGED index

ChangeStep ==
    /\ walk.op = "changes"
    /\ processDeletedFile \/ processChangedFile \/ reportRenames
    /\ UNCHANGED index

ChangeNext == BeginDelta \/ ChangeStep

ChangeSpec == Init /\ [][ChangeNext]_vars

(* The answers of all members in one; what files were moved is not taken    *)
(* over.                                                                    *)
WorkspaceChangedSymbols(answers) ==
    LET Total(field) == FoldSeq(LAMBDA x, sum : sum + x.summary[field], 0, answers) IN
    [symbols |-> FlattenSeq([i \in DOMAIN answers |-> answers[i].symbols]),
     renamed |-> << >>,
     summary |-> [added |-> Total("added"), modified |-> Total("modified"),
                  removed |-> Total("removed"), renamed |-> 0,
                  filesChanged |-> Total("filesChanged")]]

-----------------------------------------------------------------------------
(* What must hold.                                                          *)

Answered == walk.op = "changes" /\ walk.done

Reported(changes) == {s.ref : s \in {x \in Range(walk.symbols) : x.change \in changes}}

AllRefs(tree) == UNION {Refs(f, tree[f]) : f \in Files(tree)}

(* A name the two trees share is in the same file of both.                  *)
StaysPut(delta) ==
    \A f \in Files(delta.ref), g \in Files(delta.disk) :
        Refs(f, delta.ref[f]) \cap Refs(g, delta.disk[g]) # {} => f = g

(* The files the answer looks into, and those it lists as deleted.          *)
Seen(delta) == {f \in Files(delta.disk) : SymbolsInFile(delta, f, walk.includeTests) # {}}
Deleted == {s.path : s \in {x \in Range(walk.statuses) : x.status = "D"}}

(* When every shared name has stayed in its file, the answer accounts for   *)
(* every difference between the trees in the files it looks into, once: the *)
(* names with another shape are modified, the new ones added or renamed,    *)
(* the lost ones removed or what a renamed one was, each of them at most    *)
(* once, and no lost and new name of one shape are left apart.  The counts  *)
(* are those of the answer, whatever moved (processChangedFile,             *)
(* appendRemovedFromRef, reportRenames, recountChangedSummary).             *)
ChangesAccounted ==
    Answered =>
        LET delta == walk.delta
            seen == Seen(delta)
            renamed == PlacesOf(walk.symbols, "renamed")
            Now == UNION {Refs(f, delta.disk[f]) : f \in seen}
            Then == UNION {Refs(f, DeclsAtRef(delta, f)) : f \in seen}
            single == WorkspaceChangedSymbols(<<walk>>)
        IN  /\ \A change \in {"added", "modified", "removed"} :
                  walk.summary[change] = Count(walk.symbols, change)
            /\ walk.summary.renamed = Cardinality(renamed) + Len(walk.renamed)
            /\ single.symbols = walk.symbols
            /\ \A i, j \in renamed : i # j => walk.symbols[i].from # walk.symbols[j].from
            /\ \A s, t \in Range(walk.symbols) :
                  s.change = "removed" /\ t.change = "added" /\ s.shape = t.shape
                      => s.shape = NoShape
            /\ StaysPut(delta) =>
                  /\ Reported({"modified"}) =
                        UNION {{r \in Refs(f, delta.disk[f]) \cap Refs(f, DeclsAtRef(delta, f)) :
                                  ShapeOf(f, delta.disk[f], r)
                                     # ShapeOf(f, DeclsAtRef(delta, f), r)} : f \in seen}
                  /\ Reported({"added", "renamed"}) = Now \ Then
                  /\ Reported({"removed"}) \cup {walk.symbols[i].from : i \in renamed} =
                        (Then \ Now)
                        \cup UNION {{<<f, d.name[2]>> : d \in delta.ref[f]} : f \in Deleted}

(* Against the comment of appendRemovedFromRef ("existed at ref but not on  *)
(* disk"): a declaration that moved to a file listed later is reported as   *)
(* removed, and not looked for there.                                       *)
RemovedIsGone == Answered => Reported({"removed"}) \cap AllRefs(walk.delta.disk) = {}

(* Against the same comment: a changed file whose last declaration went is  *)
(* passed over.                                                             *)
GoneIsRemoved ==
    Answered /\ StaysPut(walk.delta) =>
        \A f \in Files(walk.delta.ref) \cap Files(walk.delta.disk) :
            f \notin TestFiles =>
                Refs(f, walk.delta.ref[f]) \ AllRefs(walk.delta.disk) \subseteq
                    Reported({"removed"}) \cup {s.from : s \in Range(walk.symbols)}

(* Against the summary's name: a workspace's answer counts no rename.       *)
WorkspaceCountsRenames ==
    Answered =>
        WorkspaceChangedSymbols(<<walk>>).summary.renamed = walk.summary.renamed
=============================================================================

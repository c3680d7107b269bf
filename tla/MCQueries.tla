------------------------------ MODULE MCQueries ------------------------------
(* Small instances of the questions, one family of indexes for each: all    *)
(* choices of some edges between four functions for the paths, of the calls *)
(* between four functions for the cycles, of the edges of a program with an *)
(* interface and its implementation for the unused symbols; all choices of  *)
(* some imports, as they are written and in other spellings; and two trees  *)
(* of up to four files for the changed symbols.                             *)
EXTENDS CallGraph, ImportGraph, ChangedSymbols

Nothing ==
    [symbols |-> {}, edges |-> {}, contracts |-> {}, mains |-> {},
     packages |-> {}, tests |-> {}, imports |-> {}]

TheOrder ==
    <<"", "a", "b", "c", "d", "do", "f", "fmt", "g", "help", "i", "m/a", "m/b", "m/c",
      "m/d_test", "m/log", "m/x/log", "main", "p", "p/a.go", "p/b.go", "p/b_test.go",
      "q", "q/c.go", "t", "Out", "Test">>

TheTestFiles == {"p/b_test.go"}

TheSibling(file) == IF file = "p/b.go" THEN "p/b_test.go" ELSE "none"

-----------------------------------------------------------------------------
(* Symbols and edges.                                                       *)

Symbol(ref, kind, file) ==
    [ref |-> ref, name |-> ref[3], kind |-> kind, file |-> file, exported |-> FALSE,
     generated |-> FALSE, test |-> file \in TheTestFiles]

Edge(from, to, type, repo, file) ==
    [from |-> from, to |-> to, type |-> type, repo |-> repo, file |-> file]

A == <<"p", "", "a">>
B == <<"p", "", "b">>
C == <<"q", "", "c">>
D == <<"q", "", "d">>
Out == <<"fmt", "", "Out">>

Functions4 ==
    {Symbol(A, "function", "p/b_test.go"), Symbol(B, "function", "p/b.go"),
     Symbol(C, "function", "q/c.go"), Symbol(D, "function", "q/c.go")}

PathEdges ==
    {Edge(A, B, "calls", "m", "p/b_test.go"), Edge(A, C, "references", "m", "p/b_test.go"),
     Edge(B, A, "calls", "m", "p/b.go"), Edge(B, C, "calls", "m", "p/b.go"),
     Edge(C, D, "calls", "n", "q/c.go"), Edge(B, D, "calls", "n", "p/b.go"),
     Edge(A, Out, "calls", "m", "p/b_test.go")}

Bridge(suggested) == [from |-> A, to |-> D, repo |-> "m", suggested |-> suggested]

PathIndexes ==
    {[Nothing EXCEPT !.symbols = Functions4, !.edges = es, !.contracts = cs] :
        es \in SUBSET PathEdges, cs \in {{}, {Bridge(TRUE)}, {Bridge(FALSE)}}}

CycleEdges ==
    {Edge(x[1], x[2], "calls", "m", "p/b.go") :
        x \in {<<A, A>>, <<A, B>>, <<B, A>>, <<B, C>>, <<C, B>>, <<C, A>>, <<A, C>>,
               <<C, D>>, <<D, A>>}}

CycleIndexes ==
    {[Nothing EXCEPT !.symbols = Functions4, !.edges = es] : es \in SUBSET CycleEdges}

Main == <<"p", "", "main">>
Face == <<"p", "", "i">>
FaceDo == <<"p", "i", "do">>
Impl == <<"q", "", "t">>
ImplDo == <<"q", "t", "do">>
Test == <<"p", "", "Test">>
Help == <<"p", "", "help">>

ProgramSymbols ==
    {Symbol(Main, "function", "p/a.go"), Symbol(A, "function", "p/a.go"),
     Symbol(C, "function", "q/c.go"), Symbol(Face, "interface", "p/a.go"),
     Symbol(FaceDo, "method", "p/a.go"), Symbol(Impl, "type", "q/c.go"),
     Symbol(ImplDo, "method", "q/c.go"),
     [Symbol(Test, "function", "p/b_test.go") EXCEPT !.exported = TRUE],
     Symbol(Help, "function", "p/b_test.go")}

ProgramEdges ==
    {Edge(Main, A, "calls", "m", "p/a.go"), Edge(Main, FaceDo, "calls", "m", "p/a.go"),
     Edge(Main, Impl, "references", "m", "p/a.go"),
     Edge(Impl, Face, "satisfies", "m", "q/c.go"),
     Edge(ImplDo, C, "calls", "m", "q/c.go"), Edge(A, C, "references", "m", "p/a.go"),
     Edge(Test, A, "calls", "m", "p/b_test.go"), Edge(Test, Help, "calls", "m", "p/b_test.go"),
     Edge(Help, C, "calls", "m", "p/b_test.go")}

ProgramIndexes ==
    {[Nothing EXCEPT
        !.symbols = {[s EXCEPT !.exported = @ \/ s.ref = exported,
                               !.generated = s.ref = generated] : s \in ProgramSymbols},
        !.edges = es, !.mains = mains] :
        es \in SUBSET ProgramEdges, mains \in {{}, {"p"}},
        exported \in {A, ImplDo}, generated \in {Out, A}}

-----------------------------------------------------------------------------
(* Packages and imports.                                                    *)

Import(from, to, testOnly) == [from |-> from, to |-> to, testOnly |-> testOnly]

ExactImports ==
    {Import("m/a", "m/b", FALSE), Import("m/a", "m/c", FALSE), Import("m/b", "m/c", FALSE),
     Import("m/c", "m/d_test", FALSE), Import("m/b", "m/d_test", FALSE),
     Import("m/c", "m/a", TRUE), Import("m/d_test", "m/b", TRUE),
     Import("m/b", "m/a", FALSE), Import("m/c", "fmt", FALSE)}

SpelledImports ==
    {Import("m/log", "log", FALSE), Import("m/log", "m/a", FALSE),
     Import("m/a", "log", FALSE), Import("m/x/log", "m/a", FALSE),
     Import("m/a", "n/b", FALSE), Import("m/x/log", "n/b", TRUE)}

Importing(packages, imports) ==
    [Nothing EXCEPT !.packages = packages, !.tests = packages \cap {"m/d_test"},
                    !.imports = imports]

ImportIndexes ==
    {Importing({"m/a", "m/b", "m/c", "m/d_test"}, is) : is \in SUBSET ExactImports}
    \cup {Importing({"m/log", "m/a", "b"} \cup {e.from : e \in is}, is) :
             is \in SUBSET SpelledImports}

TheEnding(path, ref) == ref = "log" /\ path \in {"m/log", "m/x/log"}

TheBare(path) == IF path = "n/b" THEN "b" ELSE ""

TheModules(path) == IF path = "n/b" THEN {"n"} ELSE {}

-----------------------------------------------------------------------------
(* Trees.                                                                   *)

ThePackageOf(file) == IF file = "q/c.go" THEN "q" ELSE "p"

Decl(recv, name, shape) == [name |-> <<recv, name>>, shape |-> shape]

F(shape) == Decl("", "f", shape)
G(shape) == Decl("", "g", shape)

NoDuplicates(tree) ==
    \A x, y \in DOMAIN tree : x # y => Refs(x, tree[x]) \cap Refs(y, tree[y]) = {}

TreesOver(files, contents) ==
    {tree \in UNION {[fs -> contents] : fs \in SUBSET files} : NoDuplicates(tree)}

PlainTrees ==
    TreesOver({"p/a.go", "p/b.go"}, {{}, {F(1)}, {F(2)}, {G(1)}, {F(1), G(2)}})

OtherTrees ==
    TreesOver({"p/b_test.go", "q/c.go"},
              {{F(1)}, {F(1), G(1)}, {Decl("t", "f", 1), F(2)}})

TheDeltas ==
    UNION {{[ref |-> x, disk |-> y, untracked |-> u] :
               u \in {{}, {"p/b.go"} \cap (DOMAIN y \ DOMAIN x)}} :
                   x \in PlainTrees, y \in PlainTrees}
    \cup {[ref |-> x, disk |-> y, untracked |-> {}] : x \in OtherTrees, y \in OtherTrees}

-----------------------------------------------------------------------------
TheIndexes ==
    PathIndexes \cup CycleIndexes \cup ProgramIndexes \cup ImportIndexes \cup {Nothing}

TheRequests(ix) ==
    IF ix = Nothing
    THEN {[op |-> "changes", delta |-> delta, includeTests |-> tests] :
             delta \in TheDeltas, tests \in BOOLEAN}
    ELSE IF ix \in PathIndexes
    THEN {[op |-> "path", from |-> from, to |-> to, depth |-> depth, repo |-> repo] :
             from \in {A, B}, to \in {A, C, D}, depth \in 1 .. 3, repo \in {"", "m"}}
    ELSE IF ix \in CycleIndexes THEN {[op |-> "cycles", type |-> "calls"]} ELSE {}

Next == CallNext \/ ImportNext \/ ChangeNext

Looping == FindPath \/ DetectCycles \/ ImportFrontierBFS \/ Layering \/ ChangeStep
=============================================================================

---------------------------- MODULE IndexQueries ----------------------------
(* What the queries of query/query.go have in common: an index, which does  *)
(* not change while it is asked, and one question at a time, whose loop is  *)
(* taken a step at a time where the order of its steps may matter.  The     *)
(* questions themselves are in CallGraph, ImportGraph and ChangedSymbols.   *)
EXTENDS Integers, Sequences, FiniteSets, FiniteSetsExt, SequencesExt

CONSTANTS
    Indexes,      \* the indexes asked
    Requests(_),  \* the questions asked of an index
    TextOrder,    \* the texts of paths and names, in their order
    TestFiles     \* the files named _test.go

(* An index has symbols, each with its name, its kind and its file; edges   *)
(* between names, the second not always one of a symbol; links between      *)
(* names (contracts); the packages that are main programs; packages, some   *)
(* of them tests; and import rows between paths, one for two of them, which *)
(* are testOnly when every file that has the import is a test.  Each        *)
(* question is asked of an index that has what the question is about.       *)
ASSUME IndexQueriesAssumption ==
    /\ TextOrder \in Seq(Range(TextOrder))
    /\ \A i, j \in DOMAIN TextOrder : TextOrder[i] = TextOrder[j] => i = j
    /\ \A ix \in Indexes :
          /\ \A s, t \in ix.symbols : s.ref = t.ref => s = t
          /\ \A e, f \in ix.imports : e.from = f.from /\ e.to = f.to => e = f
          /\ \A e \in ix.imports : e.from \in ix.packages
          /\ IsFiniteSet(ix.imports) /\ IsFiniteSet(ix.edges)
          /\ ix.tests \subseteq ix.packages
          /\ ix.packages \subseteq Range(TextOrder)

VARIABLES
    index,    \* the index asked
    walk      \* the question under way, or its answer

vars == <<index, walk>>

Idle == [op |-> "none"]

Rank(text) == CHOOSE i \in DOMAIN TextOrder : TextOrder[i] = text

(* What stands at some places of a sequence, in its order.                  *)
Nth(places, i) == CHOOSE p \in places : Cardinality({q \in places : q < p}) = i - 1

Picked(seq, places) == [i \in 1 .. Cardinality(places) |-> seq[Nth(places, i)]]

InOrder(texts) == Picked(TextOrder, {i \in DOMAIN TextOrder : TextOrder[i] \in texts})

(* A symbol's name is its package, its receiver or "" and its identifier.   *)
QualifiedNames == [1 .. 3 -> Range(TextOrder)]

Precedes(r, s) ==
    \E i \in DOMAIN r : /\ Rank(r[i]) < Rank(s[i])
                        /\ \A j \in 1 .. i - 1 : r[j] = s[j]

(* Each name stands behind as many as precede it.                           *)
NamesInOrder(refs) ==
    [i \in 1 .. Cardinality(refs) |->
        CHOOSE r \in refs : Cardinality({s \in refs : Precedes(s, r)}) = i - 1]

Init ==
    /\ index \in Indexes
    /\ walk = Idle
=============================================================================

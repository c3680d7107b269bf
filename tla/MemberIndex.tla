---------------------------- MODULE MemberIndex ----------------------------
(***************************************************************************)
(* What an index of several modules promises: it holds, for each module,   *)
(* exactly the declarations of the source that module had when it was last *)
(* written; rebuilding one module leaves the others as they were.  How     *)
(* rows are keyed, attributed to repos and replaced is IndexTables's.      *)
(***************************************************************************)
CONSTANTS Members, Packages, Module, Version

VARIABLES source,   \* source[p]: the version of package p on disk, 0 if none
          index     \* the <<package, version>> pairs the index holds

Current(members) == {<<p, source[p]>> : p \in
                       {q \in Packages : Module[q] \in members /\ source[q] # 0}}

Init == source \in [Packages -> Version] /\ index = {}

Edit == /\ \E p \in Packages, v \in Version :
              source' = [source EXCEPT ![p] = v]
        /\ UNCHANGED index

(* A full index is of the members listed; a rebuild is of one.             *)
Replace(members) == /\ index' = Current(members)
                    /\ UNCHANGED source
Rebuild(m) == /\ index' = {i \in index : Module[i[1]] # m} \cup Current({m})
              /\ UNCHANGED source

Next == \/ Edit
        \/ \E members \in SUBSET Members : Replace(members)
        \/ \E m \in Members : Rebuild(m)

Spec == Init /\ [][Next]_<<source, index>>
=============================================================================

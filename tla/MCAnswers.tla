------------------------------ MODULE MCAnswers ------------------------------
(* What is computed from an index that stands still: the contract analysis *)
(* and the graph queries.  Neither reads what the other does, so while one *)
(* of them is at work the other has nothing before it.                     *)
EXTENDS MCContractAnalysis, MCQueries

answers == <<index, walk, ruleVars, source, runtime>>

NothingAsked == index = Nothing /\ walk = Idle

NothingDeclared == declared = [p \in Packages |-> Holds(None, None, << >>)]

AnswersInit ==
    \/ MCInit /\ NothingAsked
    \/ Init /\ source = NoSource /\ NothingDeclared
       /\ contracts = {} /\ drifts = {} /\ suppressed = SuppressPairs /\ runtime = {}

Analysing == NothingAsked /\ AnalysisNext /\ UNCHANGED vars

Answering ==
    /\ source = NoSource /\ NothingDeclared
    /\ Next
    /\ UNCHANGED <<ruleVars, source, runtime>>

AnswersNext == Analysing \/ Answering

(* A loop goes on as long as it has something to do.                       *)
AnswersSpec == AnswersInit /\ [][AnswersNext]_answers /\ WF_vars(Looping)
=============================================================================

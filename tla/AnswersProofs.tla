---------------------------- MODULE AnswersProofs ----------------------------
(***************************************************************************)
(* Proofs about what is computed from an index that stands still.          *)
(*                                                                         *)
(* The contract analysis, for any packages, repositories and declarations, *)
(* whatever order the maps it iterates over come in: the links it writes   *)
(* hold, each is written once, and what was dismissed stays out of every   *)
(* answer.                                                                 *)
(*                                                                         *)
(* The questions on imports, for any index and whatever order the rows of  *)
(* a step come in: the readers of the import rows agree.                   *)
(*                                                                         *)
(* The questions on symbols, for any index: what is reported unused is     *)
(* used by nothing that stays, and a path is found exactly when there is   *)
(* one, a shortest one, whatever order the edges of a step come in; and a  *)
(* search for cycles below its bound leaves none out.                      *)
(*                                                                         *)
(* The question on a change, for any two trees and whatever git takes for  *)
(* moved: what is told of the files is so, and all there is to tell.       *)
(***************************************************************************)
EXTENDS ContractAnalysis, ImportGraph, CallGraph, ChangedSymbols,
        FiniteSetTheorems, SequenceTheorems, WellFoundedInduction, TLAPS

analysisVars == <<ruleVars, source, runtime>>

-----------------------------------------------------------------------------
(* Comparing two structs.                                                  *)

IsStruct(s) == s \in Seq({s[i] : i \in DOMAIN s})

(* A struct has no more wire names than fields.                            *)
LEMMA WiresFinite ==
  ASSUME NEW s, IsStruct(s)
  PROVE  IsFiniteSet(Wires(s)) /\ Cardinality(Wires(s)) <= Len(s)
<1> DEFINE f == [i \in 1 .. Len(s) |-> s[i].wire]
<1>1. Len(s) \in Nat /\ DOMAIN s = 1 .. Len(s)
  BY DEF IsStruct
<1>2. Wires(s) = {s[i].wire : i \in 1 .. Len(s)}
  BY <1>1 DEF Wires, Fields
<1>3. f \in Surjection(1 .. Len(s), Wires(s))
  BY <1>2 DEF Surjection
<1>4. IsFiniteSet(1 .. Len(s)) /\ Cardinality(1 .. Len(s)) = Len(s)
  <2>1. 1 \in Int /\ Len(s) \in Int
    BY <1>1
  <2>2. /\ IsFiniteSet(1 .. Len(s))
        /\ Cardinality(1 .. Len(s)) = IF 1 > Len(s) THEN 0 ELSE Len(s) - 1 + 1
    BY <2>1, FS_Interval
  <2> QED
    BY <1>1, <2>2
<1> HIDE DEF f
<1> QED
  BY <1>3, <1>4, FS_Surjection

(* Structs that are alike have the same wire names.                        *)
LEMMA IdenticalWires ==
  ASSUME NEW a, NEW b, IsStruct(a), IsStruct(b), Identical(a, b)
  PROVE  Compare(a, b).changed = {} /\ Wires(b) \subseteq Wires(a)
<1> DEFINE both == Wires(a) \cap Wires(b)
<1>1. /\ Compare(a, b).changed = {}
      /\ Cardinality(both) = Len(b)
  BY DEF Identical, Compare
<1>2. /\ IsFiniteSet(Wires(b)) /\ Cardinality(Wires(b)) <= Len(b)
      /\ Len(b) \in Nat /\ both \in SUBSET Wires(b)
  BY WiresFinite DEF IsStruct
<1>3. /\ Cardinality(Wires(b)) \in Nat
      /\ Cardinality(both) <= Cardinality(Wires(b))
      /\ Cardinality(Wires(b)) = Cardinality(both) => Wires(b) = both
  BY <1>2, FS_CardinalityType, FS_Subset
<1> HIDE DEF both
<1>4. Wires(b) = both
  BY <1>1, <1>2, <1>3
<1> QED
  BY <1>1, <1>4 DEF both

(* A severity of "compatible" says that the second side decodes the first. *)
LEMMA CompatibleIsDecodable ==
  ASSUME NEW a, NEW b, IsStruct(a), IsStruct(b), Severity(a, b) = "compatible"
  PROVE  Decodes(b, a)
<1>1. Compare(a, b).changed = {} /\ Wires(b) \subseteq Wires(a)
  <2>1. CASE Identical(a, b)
    BY <2>1, IdenticalWires
  <2>2. CASE ~Identical(a, b)
    <3>1. Compare(a, b).changed = {} /\ Compare(a, b).onlyB = {}
      BY <2>2 DEF Severity
    <3> QED
      BY <3>1 DEF Compare
  <2> QED
    BY <2>1, <2>2
<1>2. ASSUME NEW w \in Wires(b)
      PROVE  w \in Wires(a) /\ TypeUnder(a, w) = TypeUnder(b, w)
  BY <1>1 DEF Compare
<1> QED
  BY <1>2 DEF Decodes

-----------------------------------------------------------------------------
(* The constants and the structs of an index.                              *)

IsIndex(ix) == ix \in [Packages -> Contents]

LEMMA OfConstants ==
  ASSUME NEW ix, IsIndex(ix), NEW c \in Constants(ix)
  PROVE  /\ c.pkg \in Packages /\ c.name \in Names
         /\ c.ref = <<c.pkg, "MsgType", c.name>>
         /\ c.value = ix[c.pkg].consts[c.name]
         /\ c = [pkg |-> c.pkg, name |-> c.name, value |-> c.value, ref |-> c.ref]
         /\ c.name \in DOMAIN ix[c.pkg].consts
<1>0. PICK p \in Packages : \E n \in DOMAIN ix[p].consts :
        c = [pkg |-> p, name |-> n, value |-> ix[p].consts[n], ref |-> Constant(p, n)]
  BY DEF Constants
<1>1. PICK n \in DOMAIN ix[p].consts :
        c = [pkg |-> p, name |-> n, value |-> ix[p].consts[n], ref |-> Constant(p, n)]
  BY <1>0
<1>2. n \in Names
  BY RulesAssumption DEF IsIndex
<1> QED
  BY <1>1, <1>2 DEF Constant

LEMMA OfStructs ==
  ASSUME NEW ix, IsIndex(ix), NEW s \in Structs(ix)
  PROVE  /\ s.pkg \in Packages
         /\ \E n \in Names : s.ref = <<s.pkg, "", n>>
<1>0. PICK p \in Packages : \E n \in DOMAIN ix[p].structs :
        s = [pkg |-> p, fields |-> ix[p].structs[n], ref |-> Struct(p, n)]
  BY DEF Structs
<1>1. PICK n \in DOMAIN ix[p].structs :
        s = [pkg |-> p, fields |-> ix[p].structs[n], ref |-> Struct(p, n)]
  BY <1>0
<1>2. n \in Names
  BY RulesAssumption DEF IsIndex
<1> QED
  BY <1>1, <1>2 DEF Struct

(* A reference names one constant.                                         *)
LEMMA ConstantByRef ==
  ASSUME NEW ix, IsIndex(ix), NEW c \in Constants(ix), NEW d \in Constants(ix),
         c.ref = d.ref
  PROVE  c = d
<1>1. c.pkg = d.pkg /\ c.name = d.name
  BY OfConstants
<1>2. c.value = d.value
  BY <1>1, OfConstants
<1> QED
  BY <1>1, <1>2, OfConstants

LEMMA AssociatedAreStructs ==
  ASSUME NEW ix, IsIndex(ix), NEW c \in Constants(ix),
         NEW s \in AssociatedStructs(ix, c)
  PROVE  IsStruct(s)
<1>1. PICK n \in DOMAIN ix[c.pkg].structs : s = ix[c.pkg].structs[n]
  BY DEF AssociatedStructs
<1>2. ix[c.pkg] \in Contents
  BY OfConstants DEF IsIndex
<1> QED
  BY <1>1, <1>2, RulesAssumption DEF IsStruct

(* A verdict of "compatible" was found comparing two of the structs.       *)
LEMMA CompatibleVerdict ==
  ASSUME NEW ix, IsIndex(ix), NEW x \in Constants(ix), NEW y \in Constants(ix),
         NEW verdict \in Verdicts(ix, <<x, y>>), verdict.severity = "compatible"
  PROVE  \E a \in AssociatedStructs(ix, x), b \in AssociatedStructs(ix, y) :
            Decodes(b, a)
<1> DEFINE sides == AssociatedStructs(ix, x) \X AssociatedStructs(ix, y)
<1>1. sides # {}
  BY DEF Verdicts, Verdict
<1>2. PICK s \in sides : verdict.severity = Severity(s[1], s[2])
  BY <1>1 DEF Verdicts, Verdict
<1>3. s[1] \in AssociatedStructs(ix, x) /\ s[2] \in AssociatedStructs(ix, y)
  BY <1>2
<1>4. Decodes(s[2], s[1])
  BY <1>2, <1>3, AssociatedAreStructs, CompatibleIsDecodable
<1> QED
  BY <1>3, <1>4

LEMMA VerdictSeverity ==
  ASSUME NEW ix, NEW pair, NEW verdict \in Verdicts(ix, pair)
  PROVE  verdict.severity \in {"compatible", "breaking", "unknown"}
<1> DEFINE sides == AssociatedStructs(ix, pair[1]) \X AssociatedStructs(ix, pair[2])
<1>1. CASE sides = {}
  BY <1>1 DEF Verdicts, Verdict
<1>2. CASE sides # {}
  <2>1. PICK s \in sides : verdict.severity = Severity(s[1], s[2])
    BY <1>2 DEF Verdicts, Verdict
  <2> QED
    BY <2>1 DEF Severity
<1> QED
  BY <1>1, <1>2

-----------------------------------------------------------------------------
(* What an analysis writes.                                                *)

LEMMA LinkFields ==
  ASSUME NEW ix, NEW pair, NEW verdict, NEW order
  PROVE  LET row == LinkOf(ix, pair, verdict, order) IN
         /\ row.from = pair[1].ref /\ row.to = pair[2].ref
         /\ row.severity = verdict.severity
         /\ row.direction = InferContractDirection(ix, pair[1], pair[2], order)
         /\ row.confidence \in {6, 10} /\ row.suggested \in BOOLEAN
BY DEF LinkOf, Link, ConfidenceScore

(* The two sides of a pair are constants of two repositories.              *)
LEMMA OfSharedPairs ==
  ASSUME NEW ix, NEW pair \in SharedPairs(ix)
  PROVE  /\ pair[1] \in Constants(ix) /\ pair[2] \in Constants(ix)
         /\ pair = <<pair[1], pair[2]>> /\ pair[1].value = pair[2].value
         /\ RepoOf(pair[1].pkg) < RepoOf(pair[2].pkg)
BY DEF SharedPairs

(* A row suggested for two structs by their shape.                         *)
Suggests(ix, row, s, t) ==
  /\ row = Link(s.ref, t.ref, "shared", ConfidenceScore(FALSE, TRUE),
                "compatible", TRUE)
  /\ RepoOf(s.pkg) < RepoOf(t.pkg)
  /\ ~HaveSharedConstant(ix, s.pkg, t.pkg)

LEMMA OfSuggested ==
  ASSUME NEW ix, NEW row \in SuggestedShapePairs(ix)
  PROVE  \E s, t \in Structs(ix) : Suggests(ix, row, s, t)
<1>1. PICK x \in Structs(ix) \X Structs(ix) :
        /\ row = Link(x[1].ref, x[2].ref, "shared", ConfidenceScore(FALSE, TRUE),
                      "compatible", TRUE)
        /\ RepoOf(x[1].pkg) < RepoOf(x[2].pkg)
        /\ ~HaveSharedConstant(ix, x[1].pkg, x[2].pkg)
  BY DEF SuggestedShapePairs
<1> QED
  BY <1>1 DEF Suggests

(* The rows of an analysis with some order and some verdicts.              *)
LinkedRows(ix, chosen, order) ==
  {LinkOf(ix, pair, chosen[pair], order) : pair \in SharedPairs(ix)}

LEMMA Analyzed ==
  ASSUME Analyze
  PROVE  \E order, chosen :
           /\ \A pair \in SharedPairs(declared) :
                 chosen[pair] \in Verdicts(declared, pair)
           /\ contracts' = Kept(LinkedRows(declared, chosen, order)
                                   \cup SuggestedShapePairs(declared),
                                SuppressPairs)
           /\ drifts' = Kept(ConstantDrifts(declared)
                                \cup UNION {ReportsOf(pair, chosen[pair]) :
                                               pair \in SharedPairs(declared)},
                             SuppressPairs)
           /\ declared' = declared /\ suppressed' = suppressed
BY DEF Analyze, LinkedRows

-----------------------------------------------------------------------------
(* The invariant.                                                          *)

PairsOnly == \A pair \in suppressed : pair = <<pair[1], pair[2]>>

RulesInv == TypeOK /\ PairsOnly /\ CompatibleDecodes

(* What an analysis writes is between references of the index.             *)
LEMMA AnalysisType ==
  ASSUME declared \in [Packages -> Contents], Analyze PROVE TypeOK'
<1>0. IsIndex(declared)
  BY DEF IsIndex
<1>1. PICK order, chosen :
        /\ \A pair \in SharedPairs(declared) :
              chosen[pair] \in Verdicts(declared, pair)
        /\ contracts' = Kept(LinkedRows(declared, chosen, order)
                                \cup SuggestedShapePairs(declared), SuppressPairs)
        /\ drifts' = Kept(ConstantDrifts(declared)
                             \cup UNION {ReportsOf(pair, chosen[pair]) :
                                            pair \in SharedPairs(declared)},
                          SuppressPairs)
        /\ declared' = declared
  BY Analyzed
<1> DEFINE Declarable ==
             {Constant(p, n) : p \in Packages, n \in Names}
               \cup {Struct(p, n) : p \in Packages, n \in Names}
<1>2. ASSUME NEW c \in Constants(declared) PROVE c.ref \in Declarable
  <2>1. c.pkg \in Packages /\ c.name \in Names /\ c.ref = Constant(c.pkg, c.name)
    BY <1>0, OfConstants DEF Constant
  <2> QED
    BY <2>1
<1>3. ASSUME NEW s \in Structs(declared) PROVE s.ref \in Declarable
  <2>1. PICK n \in Names : s.pkg \in Packages /\ s.ref = Struct(s.pkg, n)
    BY <1>0, OfStructs DEF Struct
  <2> QED
    BY <2>1
<1> HIDE DEF Declarable
<1>4. ASSUME NEW row \in SuggestedShapePairs(declared)
      PROVE  /\ row.from \in Declarable /\ row.to \in Declarable
             /\ row.direction = "shared" /\ row.severity = "compatible"
             /\ row.confidence = 4 /\ row.suggested = TRUE
  <2>1. PICK s, t \in Structs(declared) : Suggests(declared, row, s, t)
    BY OfSuggested
  <2> QED
    BY <1>3, <2>1 DEF Suggests, Link, ConfidenceScore
<1>5. ASSUME NEW row \in LinkedRows(declared, chosen, order)
      PROVE  /\ row.from \in Declarable /\ row.to \in Declarable
             /\ row.direction \in {"producer", "consumer", "shared"}
             /\ row.severity \in {"compatible", "breaking", "unknown"}
             /\ row.confidence \in {6, 10} /\ row.suggested \in BOOLEAN
  <2>1. PICK pair \in SharedPairs(declared) :
          row = LinkOf(declared, pair, chosen[pair], order)
    BY DEF LinkedRows
  <2>2. /\ row.from = pair[1].ref /\ row.to = pair[2].ref
        /\ row.severity = chosen[pair].severity
        /\ row.direction
              = InferContractDirection(declared, pair[1], pair[2], order)
        /\ row.confidence \in {6, 10} /\ row.suggested \in BOOLEAN
    BY <2>1, LinkFields
  <2>3. row.direction \in {"producer", "consumer", "shared"}
    BY <2>2 DEF InferContractDirection, InferDirection
  <2>4. row.severity \in {"compatible", "breaking", "unknown"}
    BY <1>1, <2>2, VerdictSeverity
  <2> QED
    BY <1>2, <2>2, <2>3, <2>4, OfSharedPairs
<1>6. ASSUME NEW row \in drifts' PROVE row.from \in Declarable /\ row.to \in Declarable
  <2>1. PICK x, y \in Constants(declared) : row.from = x.ref /\ row.to = y.ref
    <3>1. CASE row \in ConstantDrifts(declared)
      BY <3>1 DEF ConstantDrifts, Drift
    <3> DEFINE all == {ReportsOf(pair, chosen[pair]) : pair \in SharedPairs(declared)}
    <3>2. ASSUME NEW reports \in all, row \in reports
          PROVE  \E x, y \in Constants(declared) : row.from = x.ref /\ row.to = y.ref
      <4>1. PICK pair \in SharedPairs(declared) :
              reports = ReportsOf(pair, chosen[pair])
        OBVIOUS
      <4>2. row.from = pair[1].ref /\ row.to = pair[2].ref
        BY <3>2, <4>1 DEF ReportsOf, Drift
      <4> QED
        BY <4>2, OfSharedPairs
    <3>3. row \in ConstantDrifts(declared) \cup UNION all
      BY <1>1 DEF Kept
    <3> HIDE DEF all
    <3> QED
      BY <3>1, <3>2, <3>3
  <2> QED
    BY <1>2, <2>1
<1>7. \A row \in contracts' : \/ row \in SuggestedShapePairs(declared)
                             \/ row \in LinkedRows(declared, chosen, order)
  BY <1>1 DEF Kept
<1>8. \A row \in contracts' \cup drifts' :
        [from |-> row.from, to |-> row.to] \in Rows
  <2>1. Rows = [from : Declarable, to : Declarable]
    BY DEF Rows, Declarable
  <2> QED
    BY <1>4, <1>5, <1>6, <1>7, <2>1
<1>9. \A row \in contracts' :
        /\ row.direction \in {"producer", "consumer", "shared"}
        /\ row.severity \in {"compatible", "breaking", "unknown"}
        /\ row.confidence \in {4, 6, 10}
        /\ row.suggested \in BOOLEAN
  BY <1>4, <1>5, <1>7
<1> QED
  BY <1>1, <1>8, <1>9 DEF TypeOK

(* The links that an analysis calls compatible are: those between          *)
(* constants, for the suggested ones are between structs.                  *)
LEMMA AnalysisHolds ==
  ASSUME IsIndex(declared), Analyze PROVE CompatibleDecodes'
<1>1. PICK order, chosen :
        /\ \A pair \in SharedPairs(declared) :
              chosen[pair] \in Verdicts(declared, pair)
        /\ contracts' = Kept(LinkedRows(declared, chosen, order)
                                \cup SuggestedShapePairs(declared), SuppressPairs)
        /\ declared' = declared
  BY Analyzed
<1> SUFFICES ASSUME NEW row \in contracts', row.severity = "compatible",
                    row.from[2] = "MsgType"
             PROVE  \E a \in AssociatedStructs(declared, ConstantOf(row.from)'),
                       b \in AssociatedStructs(declared, ConstantOf(row.to)') :
                       Decodes(b, a)
  BY <1>1 DEF CompatibleDecodes
<1>2. row \in LinkedRows(declared, chosen, order)
  <2>1. ASSUME row \in SuggestedShapePairs(declared) PROVE FALSE
    <3>1. PICK s, t \in Structs(declared) : Suggests(declared, row, s, t)
      BY <2>1, OfSuggested
    <3>2. PICK n : s.ref = <<s.pkg, "", n>>
      BY OfStructs
    <3>3. row.from = <<s.pkg, "", n>>
      BY <3>1, <3>2 DEF Suggests, Link
    <3>4. <<s.pkg, "", n>>[2] = ""
      OBVIOUS
    <3> QED
      BY <3>3, <3>4
  <2> QED
    BY <1>1, <2>1 DEF Kept
<1>3. PICK pair \in SharedPairs(declared) :
        row = LinkOf(declared, pair, chosen[pair], order)
  BY <1>2 DEF LinkedRows
<1> DEFINE x == pair[1]
           y == pair[2]
<1>4. /\ x \in Constants(declared) /\ y \in Constants(declared)
      /\ pair = <<x, y>>
  BY OfSharedPairs
<1>5. /\ row.from = x.ref /\ row.to = y.ref
      /\ chosen[pair].severity = "compatible"
  BY <1>3, LinkFields
<1>6. ConstantOf(row.from)' = x /\ ConstantOf(row.to)' = y
  BY <1>1, <1>4, <1>5, ConstantByRef DEF ConstantOf
<1>7. \E a \in AssociatedStructs(declared, x), b \in AssociatedStructs(declared, y) :
        Decodes(b, a)
  <2>1. chosen[pair] \in Verdicts(declared, <<x, y>>)
    BY <1>1, <1>4
  <2> HIDE DEF x, y
  <2> QED
    BY <1>4, <1>5, <2>1, CompatibleVerdict
<1> QED
  BY <1>6, <1>7

(* No query answers with a row whose two sides were dismissed as a pair.   *)
LEMMA Hidden == PairsOnly => SuppressedHidden
<1> SUFFICES ASSUME PairsOnly, NEW pair \in suppressed
             PROVE  /\ LinksOf(QueryContracts \cup QueryDrift, pair[1], pair[2]) = {}
                    /\ \A ref : LinksOf(ContractConsumers(ref), pair[1], pair[2]) = {}
  BY DEF SuppressedHidden
<1>1. pair = <<pair[1], pair[2]>>
  BY DEF PairsOnly
<1>2. \A row : {row.from, row.to} = {pair[1], pair[2]} =>
                 IsSuppressed(row, suppressed)
  BY <1>1 DEF IsSuppressed
<1>3. LinksOf(QueryContracts \cup QueryDrift, pair[1], pair[2]) = {}
  BY <1>2 DEF LinksOf, QueryContracts, QueryDrift, Kept
<1>4. \A ref : ContractConsumers(ref) \subseteq QueryContracts
  BY DEF ContractConsumers
<1> QED
  BY <1>3, <1>4 DEF LinksOf

LEMMA RulesInitially == AnalysisInit => RulesInv
<1> SUFFICES ASSUME AnalysisInit PROVE RulesInv
  OBVIOUS
<1>1. /\ declared \in [Packages -> Contents]
      /\ contracts = {} /\ drifts = {} /\ suppressed = SuppressPairs
  BY DEF AnalysisInit, RulesInit
<1> QED
  BY <1>1, RulesAssumption DEF RulesInv, TypeOK, PairsOnly, CompatibleDecodes

LEMMA RulesStep == RulesInv /\ [AnalysisNext]_analysisVars => RulesInv'
<1> SUFFICES ASSUME RulesInv, [AnalysisNext]_analysisVars PROVE RulesInv'
  OBVIOUS
<1>1. CASE RunAnalysis
  <2>1. Analyze /\ declared \in [Packages -> Contents]
    BY <1>1 DEF RunAnalysis, RulesInv, TypeOK
  <2>2. suppressed' = suppressed
    BY <2>1, Analyzed
  <2>3. IsIndex(declared)
    BY <2>1 DEF IsIndex
  <2> QED
    BY <2>1, <2>2, <2>3, AnalysisType, AnalysisHolds DEF RulesInv, PairsOnly
<1>2. CASE Dismiss
  <2>1. PICK from, to : Suppress(from, to)
    BY <1>2 DEF Dismiss
  <2>2. /\ suppressed' = suppressed \cup {<<from, to>>}
        /\ UNCHANGED <<declared, contracts, drifts>>
    BY <2>1 DEF Suppress
  <2>3. PairsOnly'
    BY <2>2 DEF RulesInv, PairsOnly
  <2> QED
    BY <2>2, <2>3 DEF RulesInv, TypeOK, CompatibleDecodes, ConstantOf
<1>3. CASE UNCHANGED analysisVars
  BY <1>3 DEF analysisVars, ruleVars, RulesInv, TypeOK, PairsOnly,
              CompatibleDecodes, ConstantOf
<1> QED
  BY <1>1, <1>2, <1>3 DEF AnalysisNext

(* The tables hold links and reports between references of the index,      *)
(* whatever was declared and in which order the maps were walked           *)
(* (WriteContractsAll).                                                    *)
THEOREM ContractsTyped == AnalysisSpec => []TypeOK
<1>1. RulesInv => TypeOK
  BY DEF RulesInv
<1> QED
  BY <1>1, RulesInitially, RulesStep, PTL DEF AnalysisSpec, analysisVars

(* A link shown as compatible is between two constants whose structs the   *)
(* second side can decode, and no pair that was dismissed, in either       *)
(* direction and before or after an analysis, is ever shown                *)
(* (ClassifyDriftSeverity, suppress_contract).                             *)
THEOREM LinksAreSound == AnalysisSpec => []LinksHold
<1>1. RulesInv => LinksHold
  BY Hidden DEF RulesInv, LinksHold
<1> QED
  BY <1>1, RulesInitially, RulesStep, PTL DEF AnalysisSpec, analysisVars

-----------------------------------------------------------------------------
(* What is linked is linked once.                                          *)

(* Two constants are linked by the tables rows.                            *)
Linkable(x, y) ==
  /\ RepoOf(x.pkg) # RepoOf(y.pkg) /\ x.value = y.value
  /\ {<<x.ref, y.ref>>, <<y.ref, x.ref>>} \cap SuppressPairs = {}

OneLinkEach(ix, rows) ==
  \A x, y \in Constants(ix) :
     Cardinality(LinksOf(rows, x.ref, y.ref)) = IF Linkable(x, y) THEN 1 ELSE 0

NoneByShape(ix, rows) ==
  \A x, y \in Structs(ix) :
     LinksOf(rows, x.ref, y.ref) # {} =>
        \A m, n \in Constants(ix) :
           m.pkg = x.pkg /\ n.pkg = y.pkg => m.value # n.value

(* No constant goes by the reference of a struct.                          *)
LEMMA ConstantOrStruct ==
  ASSUME NEW ix, IsIndex(ix), NEW c \in Constants(ix), NEW s \in Structs(ix)
  PROVE  c.ref # s.ref
<1>1. c.ref = <<c.pkg, "MsgType", c.name>>
  BY OfConstants
<1>2. PICK n : s.ref = <<s.pkg, "", n>>
  BY OfStructs
<1>3. <<c.pkg, "MsgType", c.name>>[2] = "MsgType" /\ <<s.pkg, "", n>>[2] = ""
  OBVIOUS
<1> QED
  BY <1>1, <1>2, <1>3

(* A row written between two constants links them as a pair.               *)
LEMMA RowBetweenConstants ==
  ASSUME NEW ix, IsIndex(ix), NEW x \in Constants(ix), NEW y \in Constants(ix),
         NEW chosen, NEW order,
         NEW row \in LinkedRows(ix, chosen, order) \cup SuggestedShapePairs(ix),
         {row.from, row.to} = {x.ref, y.ref}
  PROVE  \E pair \in SharedPairs(ix) \cap {<<x, y>>, <<y, x>>} :
            row = LinkOf(ix, pair, chosen[pair], order)
<1>1. row \notin SuggestedShapePairs(ix)
  <2>1. ASSUME NEW s \in Structs(ix), NEW t \in Structs(ix), Suggests(ix, row, s, t)
        PROVE  FALSE
    <3>1. row.from = s.ref
      BY <2>1 DEF Suggests, Link
    <3>2. s.ref # x.ref /\ s.ref # y.ref
      BY ConstantOrStruct
    <3> QED
      BY <3>1, <3>2
  <2> QED
    BY <2>1, OfSuggested
<1>2. PICK pair \in SharedPairs(ix) : row = LinkOf(ix, pair, chosen[pair], order)
  BY <1>1 DEF LinkedRows
<1>3. row.from = pair[1].ref /\ row.to = pair[2].ref
  BY <1>2, LinkFields
<1>4. /\ pair[1] \in Constants(ix) /\ pair[2] \in Constants(ix)
      /\ pair = <<pair[1], pair[2]>> /\ pair[1].pkg # pair[2].pkg
  <2>1. /\ pair[1] \in Constants(ix) /\ pair[2] \in Constants(ix)
        /\ pair = <<pair[1], pair[2]>>
        /\ RepoOf(pair[1].pkg) < RepoOf(pair[2].pkg)
    BY OfSharedPairs
  <2>2. pair[1].pkg \in Packages /\ pair[2].pkg \in Packages
    BY <2>1, OfConstants
  <2>3. RepoOf(pair[1].pkg) \in Nat
    BY <2>2, RulesAssumption
  <2> QED
    BY <2>1, <2>3
<1>5. pair[1].ref # pair[2].ref
  BY <1>4, ConstantByRef
<1>6. \/ pair[1].ref = x.ref /\ pair[2].ref = y.ref
      \/ pair[1].ref = y.ref /\ pair[2].ref = x.ref
  BY <1>3, <1>5
<1>7. \/ pair[1] = x /\ pair[2] = y
      \/ pair[1] = y /\ pair[2] = x
  BY <1>4, <1>6, ConstantByRef
<1>8. pair \in {<<x, y>>, <<y, x>>}
  BY <1>4, <1>7
<1> QED
  BY <1>2, <1>8

LEMMA AnalysisLinksOnce ==
  ASSUME NEW ix, IsIndex(ix), NEW chosen, NEW order
  PROVE  OneLinkEach(ix, Kept(LinkedRows(ix, chosen, order)
                                \cup SuggestedShapePairs(ix), SuppressPairs))
<1> DEFINE all == LinkedRows(ix, chosen, order) \cup SuggestedShapePairs(ix)
           rows == Kept(all, SuppressPairs)
<1> SUFFICES ASSUME NEW x \in Constants(ix), NEW y \in Constants(ix)
             PROVE  Cardinality(LinksOf(rows, x.ref, y.ref))
                      = IF Linkable(x, y) THEN 1 ELSE 0
  BY DEF OneLinkEach
<1> DEFINE links == LinksOf(rows, x.ref, y.ref)
<1>1. \A row \in links : /\ row \in all /\ {row.from, row.to} = {x.ref, y.ref}
                         /\ ~IsSuppressed(row, SuppressPairs)
  BY DEF LinksOf, Kept
<1>2. ASSUME NEW row \in links
      PROVE  \E pair \in SharedPairs(ix) \cap {<<x, y>>, <<y, x>>} :
                row = LinkOf(ix, pair, chosen[pair], order)
  <2>1. /\ row \in LinkedRows(ix, chosen, order) \cup SuggestedShapePairs(ix)
        /\ {row.from, row.to} = {x.ref, y.ref}
    BY <1>1
  <2> HIDE DEF links, rows, all
  <2> QED
    BY <2>1, RowBetweenConstants
<1>3. RepoOf(x.pkg) \in Nat /\ RepoOf(y.pkg) \in Nat
  BY OfConstants, RulesAssumption
<1>4. \A pair \in SharedPairs(ix) \cap {<<x, y>>, <<y, x>>} :
        /\ RepoOf(x.pkg) # RepoOf(y.pkg) /\ x.value = y.value
        /\ pair = IF RepoOf(x.pkg) < RepoOf(y.pkg) THEN <<x, y>> ELSE <<y, x>>
  <2>1. ASSUME <<x, y>> \in SharedPairs(ix)
        PROVE  RepoOf(x.pkg) < RepoOf(y.pkg) /\ x.value = y.value
    BY <2>1, OfSharedPairs
  <2>2. ASSUME <<y, x>> \in SharedPairs(ix)
        PROVE  RepoOf(y.pkg) < RepoOf(x.pkg) /\ y.value = x.value
    BY <2>2, OfSharedPairs
  <2> QED
    BY <1>3, <2>1, <2>2
<1> DEFINE only == IF RepoOf(x.pkg) < RepoOf(y.pkg) THEN <<x, y>> ELSE <<y, x>>
           link == LinkOf(ix, only, chosen[only], order)
<1>5. links \subseteq {link}
  BY <1>2, <1>4
<1>6. /\ link.from = only[1].ref /\ link.to = only[2].ref
  BY LinkFields
<1>7. /\ {link.from, link.to} = {x.ref, y.ref}
      /\ IsSuppressed(link, SuppressPairs)
            <=> {<<x.ref, y.ref>>, <<y.ref, x.ref>>} \cap SuppressPairs # {}
  <2> HIDE DEF link
  <2> QED
    BY <1>6 DEF IsSuppressed
<1>8. CASE Linkable(x, y)
  <2>1. only \in SharedPairs(ix)
    BY <1>3, <1>8 DEF Linkable, SharedPairs
  <2>2. link \in all
    BY <2>1 DEF LinkedRows
  <2> HIDE DEF link, all
  <2>3. link \in links
    BY <1>7, <1>8, <2>2 DEF Linkable, LinksOf, Kept
  <2>4. links = {link}
    BY <1>5, <2>3
  <2>5. Cardinality({link}) = 1
    BY FS_Singleton
  <2>6. Cardinality(links) = 1
    BY <2>4, <2>5
  <2> QED
    BY <1>8, <2>6
<1>9. CASE ~Linkable(x, y)
  <2>1. ASSUME NEW row \in links PROVE FALSE
    <3>1. row = link
      BY <1>5
    <3>2. RepoOf(x.pkg) # RepoOf(y.pkg) /\ x.value = y.value
      BY <1>2, <1>4
    <3>3. ~IsSuppressed(link, SuppressPairs)
      BY <1>1, <3>1
    <3> QED
      BY <1>7, <1>9, <3>2, <3>3 DEF Linkable
  <2>2. links = {}
    BY <2>1
  <2>3. Cardinality({}) = 0
    BY FS_EmptySet
  <2>4. Cardinality(links) = 0
    BY <2>2, <2>3
  <2> QED
    BY <1>9, <2>4
<1> QED
  BY <1>8, <1>9

LEMMA AnalysisSuggestsElse ==
  ASSUME NEW ix, IsIndex(ix), NEW chosen, NEW order
  PROVE  NoneByShape(ix, Kept(LinkedRows(ix, chosen, order)
                                \cup SuggestedShapePairs(ix), SuppressPairs))
<1> DEFINE all == LinkedRows(ix, chosen, order) \cup SuggestedShapePairs(ix)
<1> SUFFICES ASSUME NEW x \in Structs(ix), NEW y \in Structs(ix),
                    NEW row \in all, {row.from, row.to} = {x.ref, y.ref},
                    NEW m \in Constants(ix), NEW n \in Constants(ix),
                    m.pkg = x.pkg, n.pkg = y.pkg
             PROVE  m.value # n.value
  BY DEF NoneByShape, LinksOf, Kept
<1>1. row \notin LinkedRows(ix, chosen, order)
  <2>1. ASSUME NEW pair \in SharedPairs(ix),
               row = LinkOf(ix, pair, chosen[pair], order)
        PROVE  FALSE
    <3>1. row.from = pair[1].ref /\ pair[1] \in Constants(ix)
      BY <2>1, LinkFields, OfSharedPairs
    <3> QED
      BY <3>1, ConstantOrStruct
  <2> QED
    BY <2>1 DEF LinkedRows
<1>2. PICK s \in Structs(ix), t \in Structs(ix) : Suggests(ix, row, s, t)
  BY <1>1, OfSuggested
<1>3. {s.ref, t.ref} = {x.ref, y.ref}
  BY <1>2 DEF Suggests, Link
<1>4. \A u, v \in Structs(ix) : u.ref = v.ref => u.pkg = v.pkg
  <2> SUFFICES ASSUME NEW u \in Structs(ix), NEW v \in Structs(ix), u.ref = v.ref
               PROVE  u.pkg = v.pkg
    OBVIOUS
  <2>1. PICK k : u.ref = <<u.pkg, "", k>>
    BY OfStructs
  <2>2. PICK l : v.ref = <<v.pkg, "", l>>
    BY OfStructs
  <2>3. <<u.pkg, "", k>>[1] = u.pkg /\ <<v.pkg, "", l>>[1] = v.pkg
    OBVIOUS
  <2> QED
    BY <2>1, <2>2, <2>3
<1>5. \/ s.pkg = x.pkg /\ t.pkg = y.pkg
      \/ s.pkg = y.pkg /\ t.pkg = x.pkg
  BY <1>3, <1>4
<1>6. /\ m.name \in DOMAIN ix[m.pkg].consts /\ m.value = ix[m.pkg].consts[m.name]
      /\ n.name \in DOMAIN ix[n.pkg].consts /\ n.value = ix[n.pkg].consts[n.name]
  BY OfConstants
<1> QED
  BY <1>2, <1>5, <1>6 DEF Suggests, HaveSharedConstant

(* An analysis links two constants of different repositories that share a  *)
(* value exactly once, and no others, and suggests no link by shape        *)
(* between packages it links by a constant (findPairsAcrossRepos,          *)
(* shapeOnlyContract).                                                     *)
THEOREM LinksAreOnce == AnalysisSpec => LinkedOnce
<1> DEFINE Once == contracts' # contracts =>
                     OneLinkEach(declared, contracts') /\ NoneByShape(declared, contracts')
<1>1. ASSUME RulesInv, [AnalysisNext]_analysisVars PROVE Once
  <2>1. CASE RunAnalysis
    <3>1. Analyze /\ IsIndex(declared)
      BY <1>1, <2>1 DEF RunAnalysis, RulesInv, TypeOK, IsIndex
    <3>2. PICK order, chosen :
            contracts' = Kept(LinkedRows(declared, chosen, order)
                                \cup SuggestedShapePairs(declared), SuppressPairs)
      BY <3>1, Analyzed
    <3> QED
      BY <3>1, <3>2, AnalysisLinksOnce, AnalysisSuggestsElse
  <2>2. CASE Dismiss
    BY <2>2 DEF Dismiss, Suppress
  <2>3. CASE UNCHANGED analysisVars
    BY <2>3 DEF analysisVars, ruleVars
  <2> QED
    BY <1>1, <2>1, <2>2, <2>3 DEF AnalysisNext
<1>2. Once => (contracts' # contracts =>
        /\ \A x, y \in Constants(declared) :
              Cardinality(LinksOf(contracts', x.ref, y.ref)) =
                  IF /\ RepoOf(x.pkg) # RepoOf(y.pkg)
                     /\ x.value = y.value
                     /\ {<<x.ref, y.ref>>, <<y.ref, x.ref>>} \cap SuppressPairs = {}
                  THEN 1 ELSE 0
        /\ \A x, y \in Structs(declared) :
              LinksOf(contracts', x.ref, y.ref) # {} =>
                  \A m, n \in Constants(declared) :
                      m.pkg = x.pkg /\ n.pkg = y.pkg => m.value # n.value)
  BY DEF OneLinkEach, NoneByShape, Linkable
<1> QED
  BY <1>1, <1>2, RulesInitially, RulesStep, PTL
  DEF AnalysisSpec, analysisVars, LinkedOnce

-----------------------------------------------------------------------------
(* The readers that take no steps.                                          *)

(* What every reader but imports_of begins with.                            *)
LEMMA RuntimeRows ==
  ASSUME NEW ix, NEW e
  PROVE  e \in runtimeImportEdges(ix) <=> e \in ix.imports /\ ~e.testOnly
BY DEF runtimeImportEdges, dropTestOnlyImports

(* imports_of lists the runtime rows of a package.                          *)
Imported(ix, p) == {i.to : i \in ImportsOf(ix, p)}

HasRow(ix, p, to) == \E e \in runtimeImportEdges(ix) : e.from = p /\ e.to = to

LEMMA ImportedPaths ==
  ASSUME NEW ix, NEW p, NEW to
  PROVE  to \in Imported(ix, p) <=> HasRow(ix, p, to)
<1> DEFINE rows == dropTestOnlyImports({x \in ix.imports : x.from = p})
           Shown(e) == [to |-> e.to,
                        state |-> IF e.to \notin ix.packages /\ KnownModules(e.to) # {}
                                  THEN "not indexed" ELSE ""]
<1>1. \A e : e \in rows <=> e \in runtimeImportEdges(ix) /\ e.from = p
  BY DEF runtimeImportEdges, dropTestOnlyImports
<1>2. ImportsOf(ix, p) = {Shown(e) : e \in rows}
  BY DEF ImportsOf
<1>3. \A e : Shown(e).to = e.to
  OBVIOUS
<1> HIDE DEF rows, Shown
<1>4. \A i : i \in ImportsOf(ix, p) <=> \E e \in rows : i = Shown(e)
  BY <1>2
<1>5. to \in Imported(ix, p) <=> \E e \in rows : e.to = to
  BY <1>3, <1>4 DEF Imported
<1> QED
  BY <1>1, <1>5 DEF HasRow

(* Where imports are spelled as paths, a package is meant by its own path.  *)
LEMMA MeantByItsPath ==
  ASSUME NEW ix, Exact(ix), NEW e \in ix.imports, NEW p \in ix.packages
  PROVE  p \in resolveProjectTarget(e.to, ix.packages) <=> e.to = p
<1>1. resolveProjectTarget(e.to, ix.packages) \subseteq {e.to}
  BY DEF Exact
<1>2. e.to = p => p \in resolveProjectTarget(e.to, ix.packages)
  BY DEF resolveProjectTarget
<1> QED
  BY <1>1, <1>2

LEMMA MeantByNoOther ==
  ASSUME NEW ix, Exact(ix), NEW p \in ix.packages
  PROVE  ImportPathsFor(ix, p) = {}
<1>1. ASSUME NEW x \in runtimeImportEdges(ix), x.to # p,
             p \in resolveProjectTarget(x.to, ix.packages)
      PROVE  FALSE
  <2>1. x \in ix.imports
    BY RuntimeRows
  <2> QED
    BY <1>1, <2>1, MeantByItsPath
<1> QED
  BY <1>1 DEF ImportPathsFor

(* The packages whose runtime rows name p.                                  *)
Importing(ix, p) == {e.from : e \in {x \in runtimeImportEdges(ix) : x.to = p}}

LEMMA ImportersAre ==
  ASSUME NEW ix, Exact(ix), NEW p \in ix.packages
  PROVE  /\ ImportersOf(ix, p) = {Importing(ix, p)}
         /\ directImporters(ix, p) = {Importing(ix, p)}
<1>1. ImportPathsFor(ix, p) = {}
  BY MeantByNoOther
<1>2. dropTestOnlyImports({e \in ix.imports : e.to = p})
        = {x \in runtimeImportEdges(ix) : x.to = p}
  BY DEF dropTestOnlyImports, runtimeImportEdges
<1>3. ImportersOf(ix, p) = {Importing(ix, p)}
  BY <1>1, <1>2 DEF ImportersOf, Importing
<1>4. directImporters(ix, p) = {Importing(ix, p)}
  BY <1>1 DEF directImporters, Importing
<1> QED
  BY <1>3, <1>4

LEMMA FlowAgreesOf ==
  ASSUME NEW ix \in Indexes, Exact(ix), NEW p \in ix.packages
  PROVE  /\ directImports(ix, p) = Imported(ix, p) \cap ix.packages
         /\ directImporters(ix, p) = ImportersOf(ix, p)
         /\ ImportersOf(ix, p)
               = {{q \in ix.packages : p \in Imported(ix, q)}}
<1>1. ASSUME NEW to
      PROVE  to \in directImports(ix, p)
               <=> to \in Imported(ix, p) \cap ix.packages
  <2>1. to \in directImports(ix, p)
          <=> \E e \in runtimeImportEdges(ix) :
                /\ e.from = p /\ e.to = to
                /\ resolveProjectTarget(e.to, ix.packages) # {}
    BY DEF directImports
  <2>2. ASSUME NEW e \in runtimeImportEdges(ix)
        PROVE  resolveProjectTarget(e.to, ix.packages) # {} <=> e.to \in ix.packages
    <3>1. e \in ix.imports
      BY RuntimeRows
    <3>2. resolveProjectTarget(e.to, ix.packages) \subseteq {e.to} \cap ix.packages
      BY <3>1 DEF Exact, resolveProjectTarget
    <3>3. e.to \in ix.packages => e.to \in resolveProjectTarget(e.to, ix.packages)
      BY DEF resolveProjectTarget
    <3> QED
      BY <3>2, <3>3
  <2>3. to \in Imported(ix, p)
          <=> HasRow(ix, p, to)
    BY ImportedPaths
  <2> QED
    BY <2>1, <2>2, <2>3 DEF HasRow
<1>2. ASSUME NEW q
      PROVE  q \in Importing(ix, p)
               <=> q \in ix.packages /\ p \in Imported(ix, q)
  <2>1. q \in Importing(ix, p)
          <=> HasRow(ix, q, p)
    BY DEF Importing, HasRow
  <2>2. p \in Imported(ix, q)
          <=> HasRow(ix, q, p)
    BY ImportedPaths
  <2>3. \A e \in runtimeImportEdges(ix) : e.from \in ix.packages
    BY RuntimeRows, IndexQueriesAssumption
  <2> QED
    BY <2>1, <2>2, <2>3 DEF HasRow
<1>3. Importing(ix, p) = {q \in ix.packages : p \in Imported(ix, q)}
  BY <1>2
<1>4. directImports(ix, p) = Imported(ix, p) \cap ix.packages
  BY <1>1
<1> QED
  BY <1>3, <1>4, ImportersAre

(* The readers that take no steps agree on an index of exact imports.       *)
LEMMA FlowHolds ==
  ASSUME index \in Indexes PROVE FlowAgrees
BY FlowAgreesOf DEF FlowAgrees, Imported

-----------------------------------------------------------------------------
(* The hubs: a package has one row from each that imports it.               *)

ProjectRows(ix, project) ==
  {e \in runtimeImportEdges(ix) :
     e.from \in project /\ resolveProjectTarget(e.to, project) # {}}

FanIn(ix, project, f) ==
  [p \in project |-> Cardinality({e \in ProjectRows(ix, project) : f[e] = p})]

LEMMA OneRowEach ==
  ASSUME NEW ix \in Indexes, Exact(ix),
         NEW project \in {ix.packages, ix.packages \ ix.tests},
         NEW p \in project, NEW f \in Targets(ProjectRows(ix, project), project)
  PROVE  FanIn(ix, project, f)[p] = Cardinality(Importing(ix, p) \cap project)
<1> DEFINE rows == {e \in ProjectRows(ix, project) : f[e] = p}
           from == Importing(ix, p) \cap project
           g == [e \in rows |-> e.from]
<1>1. ASSUME NEW e \in ProjectRows(ix, project)
      PROVE  e \in ix.imports /\ e.from \in project /\ f[e] = e.to
  <2>1. e \in ix.imports /\ e.from \in project
        /\ f[e] \in resolveProjectTarget(e.to, project)
    BY RuntimeRows DEF ProjectRows, Targets
  <2>2. resolveProjectTarget(e.to, project) \subseteq {e.to}
    BY <2>1 DEF Exact
  <2> QED
    BY <2>1, <2>2
<1>2. rows = {e \in runtimeImportEdges(ix) : e.from \in project /\ e.to = p}
  <2>1. ASSUME NEW e \in runtimeImportEdges(ix), e.from \in project, e.to = p
        PROVE  e \in ProjectRows(ix, project)
    BY <2>1 DEF ProjectRows, resolveProjectTarget
  <2> QED
    BY <1>1, <2>1 DEF ProjectRows
<1>3. IsFiniteSet(rows)
  <2>1. IsFiniteSet(ix.imports) /\ rows \subseteq ix.imports
    BY <1>1, IndexQueriesAssumption
  <2> QED
    BY <2>1, FS_Subset
<1>4. \A q : q \in from <=> \E e \in rows : e.from = q
  BY <1>2 DEF Importing
<1>5. \A e, d \in rows : e.from = d.from => e = d
  BY <1>1, IndexQueriesAssumption
<1> HIDE DEF rows, from
<1>6. g \in Bijection(rows, from)
  <2>1. g \in [rows -> from]
    BY <1>4
  <2>2. \A q \in from : \E e \in rows : g[e] = q
    BY <1>4
  <2>3. \A e, d \in rows : g[e] = g[d] => e = d
    BY <1>5
  <2> HIDE DEF g
  <2>4. g \in Injection(rows, from)
    BY <2>1, <2>3 DEF Injection, IsInjective
  <2>5. g \in Surjection(rows, from)
    BY <2>1, <2>2 DEF Surjection
  <2> QED
    BY <2>4, <2>5 DEF Bijection
<1>7. ExistsBijection(rows, from)
  BY <1>6 DEF ExistsBijection
<1>8. Cardinality(from) = Cardinality(rows)
  BY <1>3, <1>7, FS_Bijection
<1>9. FanIn(ix, project, f)[p] = Cardinality(rows)
  BY DEF FanIn, rows
<1> QED
  BY <1>8, <1>9 DEF from

-----------------------------------------------------------------------------
(* The walk over the imports.                                               *)

Row(ix) == [row : ix.imports, target : ix.packages]

IsTransitive(w, ix) ==
  w \in [op : {"transitive"}, start : ix.packages, done : BOOLEAN,
         visited : SUBSET ix.packages, queue : Seq(ix.packages),
         out : Seq(Row(ix)), rows : SUBSET runtimeImportEdges(ix)]

(* The answer has each package visited but the first, once.                 *)
AnsweredOnce(w) ==
  /\ \A i \in DOMAIN w.out : w.out[i].target \in w.visited \ {w.start}
  /\ \A p \in w.visited : p # w.start => \E i \in DOMAIN w.out : w.out[i].target = p
  /\ \A i, j \in DOMAIN w.out : w.out[i].target = w.out[j].target => i = j

(* Only what is reached is visited, and a row of a package visited has been *)
(* looked at, is among those at hand or belongs to a package in the queue.  *)
Followed(w, ix) ==
  /\ w.start \in w.visited /\ w.visited \subseteq ReachedFrom(ix, w.start)
  /\ \A i \in DOMAIN w.queue : w.queue[i] \in w.visited
  /\ \A e \in w.rows : e.from \in w.visited
  /\ \A e \in runtimeImportEdges(ix) : e.from \in w.visited =>
        LET targets == resolveProjectTarget(e.to, ix.packages) IN
        \/ e \in w.rows
        \/ \E i \in DOMAIN w.queue : w.queue[i] = e.from
        \/ targets = {} \/ targets \cap w.visited # {}
  /\ w.done => w.rows = {} /\ w.queue = << >>

TransitiveInv ==
  walk.op = "transitive" =>
    /\ IsTransitive(walk, index) /\ AnsweredOnce(walk) /\ Followed(walk, index)

(* What a reached package imports is reached.                               *)
LEMMA ReachedFurther ==
  ASSUME NEW ix \in Indexes, NEW start, NEW e \in runtimeImportEdges(ix),
         e.from \in ReachedFrom(ix, start),
         NEW t \in resolveProjectTarget(e.to, ix.packages)
  PROVE  t \in ReachedFrom(ix, start)
<1>1. t \in ix.packages
  BY DEF resolveProjectTarget
<1>2. ASSUME NEW reached \in SUBSET ix.packages, start \in reached,
             ImportsClosed(ix, reached)
      PROVE  t \in reached
  <2>1. e.from \in reached
    BY <1>2 DEF ReachedFrom
  <2>2. e.to \in Imported(ix, e.from)
    BY ImportedPaths DEF HasRow
  <2>3. PICK i \in ImportsOf(ix, e.from) : i.to = e.to
    BY <2>2 DEF Imported
  <2>4. resolveProjectTarget(i.to, ix.packages) \subseteq reached
    BY <1>2, <2>1 DEF ImportsClosed
  <2> QED
    BY <2>3, <2>4
<1> QED
  BY <1>1, <1>2 DEF ReachedFrom

LEMMA TransitiveBegins ==
  ASSUME NEW path \in index.packages, BeginTransitive(path), UNCHANGED index
  PROVE  TransitiveInv'
<1>1. /\ walk'.op = "transitive" /\ walk'.start = path /\ walk'.done = FALSE
      /\ walk'.visited = {path} /\ walk'.queue = << >> /\ walk'.out = << >>
      /\ walk'.rows = {e \in runtimeImportEdges(index) : e.from = path}
  BY DEF BeginTransitive
<1>2. IsTransitive(walk', index)
  BY DEF BeginTransitive, IsTransitive
<1>3. AnsweredOnce(walk')
  BY <1>1 DEF AnsweredOnce
<1>4. path \in ReachedFrom(index, path)
  BY DEF ReachedFrom
<1>5. Followed(walk', index)
  BY <1>1, <1>4 DEF Followed
<1> QED
  BY <1>2, <1>3, <1>5 DEF TransitiveInv

LEMMA TransitiveSkips ==
  ASSUME TransitiveInv, Walking, NEW e \in walk.rows, SkipRow(e), UNCHANGED index
  PROVE  TransitiveInv'
<1>1. IsTransitive(walk, index) /\ AnsweredOnce(walk) /\ Followed(walk, index)
  BY DEF TransitiveInv, Walking
<1>2. walk' = [walk EXCEPT !.rows = @ \ {e}]
  BY DEF SkipRow
<1>3. IsTransitive(walk', index)
  BY <1>1, <1>2 DEF IsTransitive
<1>4. /\ walk'.op = walk.op /\ walk'.start = walk.start /\ walk'.done = walk.done
      /\ walk'.visited = walk.visited /\ walk'.queue = walk.queue
      /\ walk'.out = walk.out /\ walk'.rows = walk.rows \ {e}
  BY <1>1, <1>2 DEF IsTransitive
<1>5. AnsweredOnce(walk')
  BY <1>1, <1>4 DEF AnsweredOnce
<1>6. Followed(walk', index)
  BY <1>1, <1>4 DEF Followed, SkipRow
<1> QED
  BY <1>3, <1>5, <1>6 DEF TransitiveInv

LEMMA Appended ==
  ASSUME NEW S, NEW s \in Seq(S), NEW x \in S
  PROVE  Append(s, x) \in Seq(S)
OBVIOUS

LEMMA TransitiveFollows ==
  ASSUME index \in Indexes, TransitiveInv, Walking, NEW e \in walk.rows,
         NEW t \in resolveProjectTarget(e.to, index.packages), FollowRow(e, t),
         UNCHANGED index
  PROVE  TransitiveInv'
<1> DEFINE added == [row |-> e, target |-> t]
<1>1. IsTransitive(walk, index) /\ AnsweredOnce(walk) /\ Followed(walk, index)
  BY DEF TransitiveInv, Walking
<1>2. /\ t \notin walk.visited
      /\ walk' = [walk EXCEPT !.rows = @ \ {e}, !.visited = @ \cup {t},
                              !.queue = Append(@, t), !.out = Append(@, added)]
  BY DEF FollowRow
<1>3. t \in index.packages /\ e \in runtimeImportEdges(index) /\ added \in Row(index)
  <2>1. t \in index.packages
    BY DEF resolveProjectTarget
  <2>2. e \in runtimeImportEdges(index)
    BY <1>1 DEF IsTransitive
  <2>3. e \in index.imports
    BY <2>2, RuntimeRows
  <2> QED
    BY <2>1, <2>2, <2>3 DEF Row
<1>4. /\ walk'.op = walk.op /\ walk'.start = walk.start /\ walk'.done = walk.done
      /\ walk'.visited = walk.visited \cup {t} /\ walk'.queue = Append(walk.queue, t)
      /\ walk'.out = Append(walk.out, added) /\ walk'.rows = walk.rows \ {e}
  BY <1>1, <1>2 DEF IsTransitive
<1>5. IsTransitive(walk', index)
  <2>1. /\ walk.queue \in Seq(index.packages) /\ walk.out \in Seq(Row(index))
        /\ walk.visited \subseteq index.packages
        /\ walk.rows \subseteq runtimeImportEdges(index)
    BY <1>1 DEF IsTransitive
  <2> HIDE DEF added
  <2>2. Append(walk.queue, t) \in Seq(index.packages)
    <3>1. t \in index.packages /\ walk.queue \in Seq(index.packages)
      BY <1>3, <2>1
    <3> QED
      BY <3>1, Appended
  <2>3. Append(walk.out, added) \in Seq(Row(index))
    <3>1. added \in Row(index) /\ walk.out \in Seq(Row(index))
      BY <1>3, <2>1
    <3> QED
      BY <3>1
  <2> QED
    BY <1>1, <1>2, <1>3, <2>1, <2>2, <2>3 DEF IsTransitive
<1>6. /\ walk.out \in Seq(Row(index)) /\ Len(walk.out) \in Nat
      /\ DOMAIN walk.out = 1 .. Len(walk.out)
      /\ DOMAIN walk'.out = 1 .. Len(walk.out) + 1
      /\ \A i \in DOMAIN walk.out : walk'.out[i] = walk.out[i]
      /\ walk'.out[Len(walk.out) + 1] = added
  <2>1. walk.out \in Seq(Row(index))
    BY <1>1 DEF IsTransitive
  <2> HIDE DEF added
  <2> QED
    BY <1>3, <1>4, <2>1
<1>7. walk.start # t
  BY <1>1, <1>2 DEF Followed
<1>8. AnsweredOnce(walk')
  <2>1. \A i \in DOMAIN walk'.out : i \in DOMAIN walk.out \/ i = Len(walk.out) + 1
    BY <1>6
  <2>2. walk'.out[Len(walk.out) + 1].target = t /\ Len(walk.out) + 1 \in DOMAIN walk'.out
    BY <1>6
  <2>3. DOMAIN walk.out \subseteq DOMAIN walk'.out
    BY <1>6
  <2>4. \A i \in DOMAIN walk'.out : walk'.out[i].target \in walk'.visited \ {walk'.start}
    BY <1>1, <1>4, <1>6, <1>7, <2>1, <2>2 DEF AnsweredOnce
  <2>5. \A p \in walk'.visited :
          p # walk'.start => \E i \in DOMAIN walk'.out : walk'.out[i].target = p
    BY <1>1, <1>4, <1>6, <2>2, <2>3 DEF AnsweredOnce
  <2>6. \A i, j \in DOMAIN walk'.out :
          walk'.out[i].target = walk'.out[j].target => i = j
    BY <1>1, <1>2, <1>6, <2>1, <2>2 DEF AnsweredOnce
  <2> QED
    BY <2>4, <2>5, <2>6 DEF AnsweredOnce
<1>9. /\ walk.queue \in Seq(index.packages) /\ Len(walk.queue) \in Nat
      /\ DOMAIN walk.queue = 1 .. Len(walk.queue)
      /\ DOMAIN walk'.queue = 1 .. Len(walk.queue) + 1
      /\ \A i \in DOMAIN walk.queue : walk'.queue[i] = walk.queue[i]
      /\ walk'.queue[Len(walk.queue) + 1] = t
  <2>1. walk.queue \in Seq(index.packages)
    BY <1>1 DEF IsTransitive
  <2> QED
    BY <1>3, <1>4, <2>1
<1>10. Followed(walk', index)
  <2>1. t \in ReachedFrom(index, walk.start)
    <3>1. e.from \in ReachedFrom(index, walk.start)
      BY <1>1 DEF Followed
    <3> QED
      BY <1>3, <3>1, ReachedFurther
  <2>2. \A i \in DOMAIN walk'.queue : walk'.queue[i] \in walk'.visited
    BY <1>1, <1>4, <1>9 DEF Followed
  <2>3. /\ walk'.start \in walk'.visited
        /\ walk'.visited \subseteq ReachedFrom(index, walk'.start)
        /\ \A d \in walk'.rows : d.from \in walk'.visited
    BY <1>1, <1>4, <2>1 DEF Followed
  <2>4. ASSUME NEW d \in runtimeImportEdges(index), d.from \in walk'.visited
        PROVE  LET targets == resolveProjectTarget(d.to, index.packages) IN
               \/ d \in walk'.rows
               \/ \E i \in DOMAIN walk'.queue : walk'.queue[i] = d.from
               \/ targets = {} \/ targets \cap walk'.visited # {}
    <3>1. CASE d.from = t
      BY <1>9, <3>1
    <3>2. CASE d = e
      BY <1>4, <3>2
    <3>3. CASE d # e /\ d.from \in walk.visited
      <4> DEFINE targets == resolveProjectTarget(d.to, index.packages)
      <4>1. DOMAIN walk.queue \subseteq DOMAIN walk'.queue
        BY <1>9
      <4>2. \/ d \in walk.rows
            \/ \E i \in DOMAIN walk.queue : walk.queue[i] = d.from
            \/ targets = {} \/ targets \cap walk.visited # {}
        BY <1>1, <3>3 DEF Followed
      <4>3. CASE \E i \in DOMAIN walk.queue : walk.queue[i] = d.from
        BY <1>9, <4>1, <4>3
      <4>4. CASE d \in walk.rows \/ targets = {} \/ targets \cap walk.visited # {}
        <5>1. walk.rows \ {e} = walk'.rows /\ walk.visited \subseteq walk'.visited
          BY <1>4
        <5> QED
          BY <3>3, <4>4, <5>1
      <4> QED
        BY <4>2, <4>3, <4>4
    <3> QED
      BY <1>4, <2>4, <3>1, <3>2, <3>3
  <2>5. walk'.done = FALSE
    BY <1>1, <1>4 DEF Walking, IsTransitive
  <2> QED
    BY <2>2, <2>3, <2>4, <2>5 DEF Followed
<1> QED
  BY <1>5, <1>8, <1>10 DEF TransitiveInv

LEMMA TransitiveMovesOn ==
  ASSUME TransitiveInv, Walking, NextPackage, UNCHANGED index
  PROVE  TransitiveInv'
<1>1. IsTransitive(walk, index) /\ AnsweredOnce(walk) /\ Followed(walk, index)
  BY DEF TransitiveInv, Walking
<1>2. CASE walk.queue = << >>
  <2>1. walk' = [walk EXCEPT !.done = TRUE] /\ walk.rows = {}
    BY <1>2 DEF NextPackage
  <2>2. IsTransitive(walk', index)
    BY <1>1, <2>1 DEF IsTransitive
  <2>3. /\ walk'.op = walk.op /\ walk'.start = walk.start /\ walk'.done = TRUE
        /\ walk'.visited = walk.visited /\ walk'.queue = walk.queue
        /\ walk'.out = walk.out /\ walk'.rows = walk.rows
    BY <1>1, <2>1 DEF IsTransitive
  <2>4. AnsweredOnce(walk')
    BY <1>1, <2>3 DEF AnsweredOnce
  <2>5. Followed(walk', index)
    BY <1>1, <1>2, <2>1, <2>3 DEF Followed
  <2> QED
    BY <2>2, <2>4, <2>5 DEF TransitiveInv
<1>3. CASE walk.queue # << >>
  <2> DEFINE first == Head(walk.queue)
             rows == {e \in runtimeImportEdges(index) : e.from = first}
  <2>1. /\ walk' = [walk EXCEPT !.queue = Tail(@), !.rows = rows]
        /\ walk.rows = {}
    BY <1>3 DEF NextPackage
  <2>2. /\ walk.queue \in Seq(index.packages)
        /\ Tail(walk.queue) \in Seq(index.packages)
    BY <1>1, <1>3 DEF IsTransitive
  <2>3. /\ Len(walk.queue) \in Nat \ {0} /\ first = walk.queue[1]
        /\ DOMAIN walk.queue = 1 .. Len(walk.queue)
        /\ DOMAIN Tail(walk.queue) = 1 .. Len(walk.queue) - 1
        /\ \A i \in DOMAIN Tail(walk.queue) : Tail(walk.queue)[i] = walk.queue[i + 1]
    BY <1>3, <2>2
  <2>4. IsTransitive(walk', index)
    <3>1. rows \subseteq runtimeImportEdges(index)
      OBVIOUS
    <3> HIDE DEF rows
    <3> QED
      BY <1>1, <2>1, <2>2, <3>1 DEF IsTransitive
  <2>5. /\ walk'.op = walk.op /\ walk'.start = walk.start /\ walk'.done = walk.done
        /\ walk'.visited = walk.visited /\ walk'.queue = Tail(walk.queue)
        /\ walk'.out = walk.out /\ walk'.rows = rows
    BY <1>1, <2>1 DEF IsTransitive
  <2>6. AnsweredOnce(walk')
    BY <1>1, <2>5 DEF AnsweredOnce
  <2>7. ASSUME NEW i \in DOMAIN walk.queue
        PROVE  walk.queue[i] = first
                 \/ \E j \in DOMAIN walk'.queue : walk'.queue[j] = walk.queue[i]
    <3>1. CASE i = 1
      BY <2>3, <3>1
    <3>2. CASE i # 1
      <4>1. i - 1 \in DOMAIN Tail(walk.queue) /\ i - 1 + 1 = i
        BY <2>3, <3>2
      <4> QED
        BY <2>3, <2>5, <4>1
    <3> QED
      BY <3>1, <3>2
  <2>8. \A j \in DOMAIN walk'.queue : walk'.queue[j] \in walk.visited
    <3>1. \A j \in DOMAIN walk'.queue : j + 1 \in DOMAIN walk.queue
      BY <2>3, <2>5
    <3> QED
      BY <1>1, <2>3, <2>5, <3>1 DEF Followed
  <2>9. first \in walk.visited
    BY <1>1, <2>3 DEF Followed
  <2>10. ASSUME NEW d \in runtimeImportEdges(index), d.from \in walk.visited
         PROVE  LET targets == resolveProjectTarget(d.to, index.packages) IN
                \/ d \in rows
                \/ \E i \in DOMAIN walk'.queue : walk'.queue[i] = d.from
                \/ targets = {} \/ targets \cap walk.visited # {}
    <3> DEFINE targets == resolveProjectTarget(d.to, index.packages)
    <3>1. \/ \E i \in DOMAIN walk.queue : walk.queue[i] = d.from
          \/ targets = {} \/ targets \cap walk.visited # {}
      BY <1>1, <2>1, <2>10 DEF Followed
    <3> QED
      BY <2>7, <3>1
  <2>11. Followed(walk', index)
    <3>1. walk'.done = FALSE
      BY <1>1, <2>5 DEF Walking, IsTransitive
    <3>2. /\ walk'.start \in walk'.visited
          /\ walk'.visited \subseteq ReachedFrom(index, walk'.start)
          /\ \A e \in walk'.rows : e.from \in walk'.visited
      BY <1>1, <2>5, <2>9 DEF Followed
    <3> HIDE DEF rows
    <3> QED
      BY <2>5, <2>8, <2>10, <3>1, <3>2 DEF Followed
  <2> QED
    BY <2>4, <2>6, <2>11 DEF TransitiveInv
<1> QED
  BY <1>2, <1>3

(* When the walk is over it has been wherever the imports lead.             *)
LEMMA TransitiveHolds ==
  ASSUME index \in Indexes, TransitiveInv PROVE TransitiveAgrees
<1> SUFFICES ASSUME walk.op = "transitive", walk.done, Unambiguous(index)
             PROVE  LET targets == [i \in DOMAIN walk.out |-> walk.out[i].target] IN
                    /\ Range(targets) = ReachedFrom(index, walk.start) \ {walk.start}
                    /\ Cardinality(Range(targets)) = Len(targets)
  BY DEF TransitiveAgrees
<1> DEFINE targets == [i \in DOMAIN walk.out |-> walk.out[i].target]
<1>1. IsTransitive(walk, index) /\ AnsweredOnce(walk) /\ Followed(walk, index)
  BY DEF TransitiveInv
<1>2. ImportsClosed(index, walk.visited)
  <2>1. ASSUME NEW p \in walk.visited, NEW i \in ImportsOf(index, p)
        PROVE  resolveProjectTarget(i.to, index.packages) \subseteq walk.visited
    <3>1. i.to \in Imported(index, p)
      BY DEF Imported
    <3>2. PICK e \in runtimeImportEdges(index) : e.from = p /\ e.to = i.to
      BY <3>1, ImportedPaths DEF HasRow
    <3> DEFINE meant == resolveProjectTarget(e.to, index.packages)
    <3>3. walk.rows = {} /\ walk.queue = << >> /\ DOMAIN walk.queue = {}
      BY <1>1 DEF Followed
    <3>4. meant = {} \/ meant \cap walk.visited # {}
      BY <1>1, <3>2, <3>3 DEF Followed
    <3>5. e \in index.imports
      BY RuntimeRows
    <3>6. \A p1, q1 \in meant : p1 = q1
      BY <3>5 DEF Unambiguous
    <3> QED
      BY <3>2, <3>4, <3>6
  <2> QED
    BY <2>1 DEF ImportsClosed
<1>3. ReachedFrom(index, walk.start) = walk.visited
  <2>1. walk.visited \subseteq index.packages /\ walk.start \in walk.visited
        /\ walk.visited \subseteq ReachedFrom(index, walk.start)
    BY <1>1 DEF IsTransitive, Followed
  <2> QED
    BY <1>2, <2>1 DEF ReachedFrom
<1>4. /\ Len(walk.out) \in Nat /\ DOMAIN walk.out = 1 .. Len(walk.out)
  BY <1>1 DEF IsTransitive
<1>5. /\ DOMAIN targets = 1 .. Len(walk.out) /\ Len(targets) = Len(walk.out)
      /\ \A i \in 1 .. Len(walk.out) : targets[i] = walk.out[i].target
  BY <1>4
<1> HIDE DEF targets
<1>6. Range(targets) = {targets[i] : i \in 1 .. Len(walk.out)}
  BY <1>5 DEF Range
<1>7. Range(targets) = walk.visited \ {walk.start}
  <2>1. \A p : p \in Range(targets) <=> \E i \in 1 .. Len(walk.out) : targets[i] = p
    BY <1>6
  <2>2. \A i \in 1 .. Len(walk.out) : targets[i] \in walk.visited \ {walk.start}
    BY <1>1, <1>4, <1>5 DEF AnsweredOnce
  <2>3. \A p \in walk.visited \ {walk.start} : \E i \in 1 .. Len(walk.out) : targets[i] = p
    BY <1>1, <1>4, <1>5 DEF AnsweredOnce
  <2> QED
    BY <2>1, <2>2, <2>3
<1>8. Cardinality(Range(targets)) = Len(targets)
  <2>1. \A i, j \in 1 .. Len(walk.out) : targets[i] = targets[j] => i = j
    BY <1>1, <1>4, <1>5 DEF AnsweredOnce
  <2>2. targets \in [1 .. Len(walk.out) -> Range(targets)]
    <3>1. targets = [i \in 1 .. Len(walk.out) |-> targets[i]]
      BY <1>4 DEF targets
    <3> QED
      BY <1>6, <3>1
  <2>3. targets \in Injection(1 .. Len(walk.out), Range(targets))
    BY <2>1, <2>2, <1>5 DEF Injection, IsInjective
  <2>4. targets \in Surjection(1 .. Len(walk.out), Range(targets))
    BY <2>2, <1>6 DEF Surjection
  <2>5. ExistsBijection(1 .. Len(walk.out), Range(targets))
    BY <2>3, <2>4 DEF Bijection, ExistsBijection
  <2>6. IsFiniteSet(1 .. Len(walk.out)) /\ Cardinality(1 .. Len(walk.out)) = Len(walk.out)
    <3>1. 1 \in Int /\ Len(walk.out) \in Int
      BY <1>4
    <3>2. /\ IsFiniteSet(1 .. Len(walk.out))
          /\ Cardinality(1 .. Len(walk.out))
               = IF 1 > Len(walk.out) THEN 0 ELSE Len(walk.out) - 1 + 1
      BY <3>1, FS_Interval
    <3> QED
      BY <1>4, <3>2
  <2>7. Cardinality(Range(targets)) = Cardinality(1 .. Len(walk.out))
    BY <2>5, <2>6, FS_Bijection
  <2> QED
    BY <1>5, <2>6, <2>7
<1> QED
  BY <1>3, <1>7, <1>8 DEF targets

-----------------------------------------------------------------------------
(* The layers: the hubs and the counts stay those of the rows.              *)

IsLayers(w) ==
  \E done, graph, fanIn, hubs, queue, level :
     w = [op |-> "layers", done |-> done, graph |-> graph, fanIn |-> fanIn,
          hubs |-> hubs, queue |-> queue, level |-> level]

CountedIn(w, ix, project) ==
  /\ DOMAIN w.level = project /\ w.hubs \subseteq project
  /\ \E f \in Targets(ProjectRows(ix, project), project) : w.fanIn = FanIn(ix, project, f)

LayersInv ==
  walk.op = "layers" =>
    /\ IsLayers(walk)
    /\ \E project \in {index.packages, index.packages \ index.tests} :
          CountedIn(walk, index, project)

LEMMA LayersBegin ==
  ASSUME NEW includeTests \in BOOLEAN, BeginLayers(includeTests), UNCHANGED index
  PROVE  LayersInv' /\ walk'.op = "layers"
<1> DEFINE project == IF includeTests THEN index.packages
                      ELSE index.packages \ index.tests
<1>1. PICK graph \in buildProjectGraph(project) :
        LET leaves == {p \in project : ~\E x \in graph.edges : x[1] = p} IN
            walk' = [op |-> "layers", done |-> FALSE, graph |-> graph.edges,
                     fanIn |-> graph.fanIn, hubs |-> topHubEntries(project, graph.fanIn),
                     queue |-> InOrder(leaves),
                     level |-> [p \in project |-> IF p \in leaves THEN 0 ELSE Unset]]
  BY DEF BeginLayers
<1>2. PICK f \in Targets(ProjectRows(index, project), project) :
        graph.fanIn = FanIn(index, project, f)
  <2> DEFINE rows == {e \in runtimeImportEdges(index) :
                        e.from \in project /\ resolveProjectTarget(e.to, project) # {}}
             Edges(f) == {<<e.from, f[e]>> : e \in rows}
             Counts(f) == [p \in project |-> Cardinality({e \in rows : f[e] = p})]
  <2>1. buildProjectGraph(project)
          = {[edges |-> Edges(f), fanIn |-> Counts(f)] : f \in Targets(rows, project)}
    BY DEF buildProjectGraph
  <2>2. rows = ProjectRows(index, project)
    BY DEF ProjectRows
  <2>3. \A f : Counts(f) = FanIn(index, project, f)
    BY DEF FanIn, ProjectRows
  <2> HIDE DEF rows, Edges, Counts, project
  <2> QED
    BY <1>1, <2>1, <2>2, <2>3
<1>3. project \in {index.packages, index.packages \ index.tests}
  OBVIOUS
<1> HIDE DEF project
<1>4. topHubEntries(project, graph.fanIn) \subseteq project
  BY DEF topHubEntries
<1>5. /\ IsLayers(walk') /\ walk'.op = "layers" /\ DOMAIN walk'.level = project
      /\ walk'.hubs = topHubEntries(project, graph.fanIn) /\ walk'.fanIn = graph.fanIn
  BY <1>1 DEF IsLayers
<1>6. CountedIn(walk', index, project)
  BY <1>2, <1>4, <1>5 DEF CountedIn
<1> QED
  BY <1>3, <1>5, <1>6 DEF LayersInv

LEMMA LayersStep ==
  ASSUME LayersInv, Layering
  PROVE  LayersInv' /\ walk'.op = "layers"
<1>1. walk.op = "layers" /\ UNCHANGED index
  BY DEF Layering, kahnStep, kahnEnd
<1>2. PICK done, graph, fanIn, hubs, queue, level :
        walk = [op |-> "layers", done |-> done, graph |-> graph, fanIn |-> fanIn,
                hubs |-> hubs, queue |-> queue, level |-> level]
  BY <1>1 DEF LayersInv, IsLayers
<1>3. PICK project \in {index.packages, index.packages \ index.tests} :
        CountedIn(walk, index, project)
  BY <1>1 DEF LayersInv
<1>4. PICK ended, todo, raised :
        /\ walk' = [op |-> "layers", done |-> ended, graph |-> graph, fanIn |-> fanIn,
                    hubs |-> hubs, queue |-> todo, level |-> raised]
        /\ DOMAIN raised = DOMAIN level
  <2>1. CASE kahnStep
    <3> DEFINE current == Head(walk.queue)
               importers == {x[1] : x \in {y \in walk.graph : y[2] = current}}
               candidate == walk.level[current] + 1
               new == [p \in DOMAIN walk.level |->
                           IF p \in importers THEN Raised(walk.level[p], candidate)
                           ELSE walk.level[p]]
    <3>1. DOMAIN new = DOMAIN level
      BY <1>2
    <3>2. \E order : walk' = [walk EXCEPT !.level = new, !.queue = Tail(@) \o order]
      BY <2>1 DEF kahnStep
    <3> HIDE DEF new
    <3>3. PICK order : walk' = [walk EXCEPT !.level = new, !.queue = Tail(@) \o order]
      BY <3>2
    <3>4. walk' = [op |-> "layers", done |-> done, graph |-> graph, fanIn |-> fanIn,
                   hubs |-> hubs, queue |-> Tail(queue) \o order, level |-> new]
      BY <1>2, <3>3
    <3> QED
      BY <3>1, <3>4
  <2>2. CASE kahnEnd
    <3> DEFINE new == [p \in DOMAIN walk.level |-> Max({walk.level[p], 0})]
    <3>1. DOMAIN new = DOMAIN level
      BY <1>2
    <3>2. walk' = [walk EXCEPT !.done = TRUE, !.level = new]
      BY <2>2 DEF kahnEnd
    <3> HIDE DEF new
    <3>3. walk' = [op |-> "layers", done |-> TRUE, graph |-> graph, fanIn |-> fanIn,
                   hubs |-> hubs, queue |-> queue, level |-> new]
      BY <1>2, <3>2
    <3> QED
      BY <3>1, <3>3
  <2> QED
    BY <2>1, <2>2 DEF Layering
<1>5. /\ IsLayers(walk') /\ walk'.op = "layers" /\ DOMAIN walk'.level = DOMAIN walk.level
      /\ walk'.hubs = walk.hubs /\ walk'.fanIn = walk.fanIn
  BY <1>2, <1>4 DEF IsLayers
<1>6. CountedIn(walk', index, project)
  BY <1>3, <1>5 DEF CountedIn
<1> QED
  BY <1>1, <1>5, <1>6 DEF LayersInv

(* A hub is counted as many importers as importers_of lists.                *)
LEMMA HubsHold ==
  ASSUME index \in Indexes, LayersInv PROVE HubsAgree
<1> SUFFICES ASSUME walk.op = "layers", Exact(index), NEW p \in walk.hubs
             PROVE  {walk.fanIn[p]} = {Cardinality(x \cap DOMAIN walk.level) :
                                          x \in ImportersOf(index, p)}
  BY DEF HubsAgree
<1>1. PICK project \in {index.packages, index.packages \ index.tests} :
        CountedIn(walk, index, project)
  BY DEF LayersInv
<1>2. PICK f \in Targets(ProjectRows(index, project), project) :
        walk.fanIn = FanIn(index, project, f)
  BY <1>1 DEF CountedIn
<1>3. DOMAIN walk.level = project /\ p \in project
  BY <1>1 DEF CountedIn
<1>4. p \in index.packages
  BY <1>3
<1>5. walk.fanIn[p] = Cardinality(Importing(index, p) \cap project)
  <2>1. p \in project
    BY <1>3
  <2>2. FanIn(index, project, f)[p] = Cardinality(Importing(index, p) \cap project)
    BY <2>1, OneRowEach
  <2> QED
    BY <1>2, <2>2
<1>6. ImportersOf(index, p) = {Importing(index, p)}
  BY <1>4, ImportersAre
<1> QED
  BY <1>3, <1>5, <1>6

-----------------------------------------------------------------------------
ImportInv == index \in Indexes /\ TransitiveInv /\ LayersInv

LEMMA ImportsInitially == Init => ImportInv
BY DEF Init, Idle, ImportInv, TransitiveInv, LayersInv

LEMMA ImportsStep == ImportInv /\ [ImportNext]_vars => ImportInv'
<1> SUFFICES ASSUME ImportInv, [ImportNext]_vars PROVE ImportInv'
  OBVIOUS
<1>1. index \in Indexes /\ TransitiveInv /\ LayersInv
  BY DEF ImportInv
<1>2. CASE BeginImports
  <2>1. index' = index
    BY <1>2 DEF BeginImports
  <2>2. ASSUME NEW p \in index.packages, BeginTransitive(p) PROVE ImportInv'
    <3>1. walk'.op = "transitive"
      BY <2>2 DEF BeginTransitive
    <3>2. TransitiveInv'
      BY <2>1, <2>2, TransitiveBegins
    <3> QED
      BY <1>1, <2>1, <3>1, <3>2 DEF ImportInv, LayersInv
  <2>3. ASSUME NEW includeTests \in BOOLEAN, BeginLayers(includeTests) PROVE ImportInv'
    <3>1. LayersInv' /\ walk'.op = "layers"
      BY <2>1, <2>3, LayersBegin
    <3> QED
      BY <1>1, <2>1, <3>1 DEF ImportInv, TransitiveInv
  <2> QED
    BY <1>2, <2>2, <2>3 DEF BeginImports
<1>3. CASE ImportFrontierBFS
  <2>1. index' = index /\ Walking
    BY <1>3 DEF ImportFrontierBFS
  <2>2. TransitiveInv'
    <3>1. ASSUME NEW e \in walk.rows, SkipRow(e) PROVE TransitiveInv'
      BY <1>1, <2>1, <3>1, TransitiveSkips
    <3>2. ASSUME NEW e \in walk.rows,
                 NEW t \in resolveProjectTarget(e.to, index.packages), FollowRow(e, t)
          PROVE  TransitiveInv'
      BY <1>1, <2>1, <3>2, TransitiveFollows
    <3>3. ASSUME NextPackage PROVE TransitiveInv'
      BY <1>1, <2>1, <3>3, TransitiveMovesOn
    <3> QED
      BY <1>3, <3>1, <3>2, <3>3 DEF ImportFrontierBFS
  <2>3. walk'.op = "transitive"
    <3>1. IsTransitive(walk, index)
      BY <1>1, <2>1 DEF TransitiveInv, Walking
    <3> QED
      BY <1>3, <3>1 DEF ImportFrontierBFS, SkipRow, FollowRow, NextPackage, IsTransitive
  <2> QED
    BY <1>1, <2>1, <2>2, <2>3 DEF ImportInv, LayersInv
<1>4. CASE Layering
  <2>1. index' = index
    BY <1>4 DEF Layering, kahnStep, kahnEnd
  <2>2. LayersInv' /\ walk'.op = "layers"
    BY <1>1, <1>4, LayersStep
  <2> QED
    BY <1>1, <2>1, <2>2 DEF ImportInv, TransitiveInv
<1>5. CASE UNCHANGED vars
  BY <1>1, <1>5 DEF vars, ImportInv, TransitiveInv, LayersInv
<1> QED
  BY <1>2, <1>3, <1>4, <1>5 DEF ImportNext

(* Whatever the index and in whichever order rows are read and maps are     *)
(* walked, imports_of, importers_of, dependency_flow, the hubs of the       *)
(* layers and the transitive imports tell one story (runtimeImportEdges,    *)
(* ImportFrontierBFS, topHubEntries).                                       *)
THEOREM ImportsAgree == ImportSpec => []ImportReadersAgree
<1>1. ImportInv => ImportReadersAgree
  BY FlowHolds, TransitiveHolds, HubsHold DEF ImportInv, ImportReadersAgree
<1> QED
  BY <1>1, ImportsInitially, ImportsStep, PTL DEF ImportSpec

-----------------------------------------------------------------------------
(* The questions on symbols that take no steps.                             *)

(* A set of naturals has a least element.                                   *)
LEMMA NatLeast ==
  ASSUME NEW T, T \subseteq Nat, T # {}
  PROVE  \E x \in T : \A y \in T : x <= y
<1> DEFINE Less == {x \in Nat \X Nat : x[1] < x[2]}
<1>1. IsWellFoundedOn(Less, Nat)
  <2>1. IsWellFoundedOn(OpToRel(<, Nat), Nat)
    BY NatLessThanWellFounded
  <2>2. OpToRel(<, Nat) = Less
    BY DEF OpToRel
  <2> QED
    BY <2>1, <2>2
<1>2. \A x, y \in Nat : <<x, y>> \in Less <=> x < y
  OBVIOUS
<1> HIDE DEF Less
<1>3. PICK x \in T : \A y \in T : ~ (<<y, x>> \in Less)
  BY <1>1, WFMin
<1>4. ASSUME NEW y \in T PROVE x <= y
  <2>1. x \in Nat /\ y \in Nat
    OBVIOUS
  <2>2. ~(y < x)
    BY <1>2, <1>3, <2>1
  <2> QED
    BY <2>1, <2>2
<1> QED
  BY <1>4

(* Induction up to n.                                                       *)
LEMMA UpTo ==
  ASSUME NEW n \in Nat, NEW T, 0 \in T,
         \A i \in 0 .. n - 1 : i \in T => i + 1 \in T
  PROVE  \A i \in 0 .. n : i \in T
<1> DEFINE U == {i \in 0 .. n : i \notin T}
<1> SUFFICES ASSUME U # {} PROVE FALSE
  OBVIOUS
<1>1. U \subseteq Nat
  OBVIOUS
<1>2. PICK x \in U : \A y \in U : x <= y
  <2> HIDE DEF U
  <2> QED
    BY <1>1, NatLeast
<1>3. x # 0 /\ x - 1 \in 0 .. n - 1
  BY <1>2
<1>4. x - 1 \in T
  BY <1>2, <1>3
<1> QED
  BY <1>2, <1>3, <1>4

(* A function defined by recursion on 0 .. n is there, and takes its steps. *)
Recurs(g, R, b, n, Step) ==
  /\ g \in [0 .. n -> R]
  /\ g[0] = b
  /\ \A i \in 1 .. n : g[i] = Step[g[i - 1]]

LEMMA Recursion ==
  ASSUME NEW n \in Nat, NEW R, NEW b \in R, NEW Step \in [R -> R]
  PROVE  \E g : Recurs(g, R, b, n, Step)
<1> DEFINE T == {m \in 0 .. n : \E g : Recurs(g, R, b, m, Step)}
<1>1. 0 \in T
  <2> DEFINE g == [i \in 0 .. 0 |-> b]
  <2>1. g \in [0 .. 0 -> R] /\ g[0] = b
    OBVIOUS
  <2>2. \A i \in 1 .. 0 : FALSE
    OBVIOUS
  <2>3. Recurs(g, R, b, 0, Step)
    BY <2>1, <2>2 DEF Recurs
  <2> QED
    BY <2>3
<1>2. ASSUME NEW m \in 0 .. n - 1, m \in T PROVE m + 1 \in T
  <2>1. PICK f : Recurs(f, R, b, m, Step)
    BY <1>2
  <2> DEFINE g == [i \in 0 .. m + 1 |-> IF i = m + 1 THEN Step[f[m]] ELSE f[i]]
  <2>2. f \in [0 .. m -> R] /\ f[0] = b /\ \A i \in 1 .. m : f[i] = Step[f[i - 1]]
    BY <2>1 DEF Recurs
  <2>3. f[m] \in R
    BY <2>2
  <2>4. g \in [0 .. m + 1 -> R] /\ g[0] = b
    BY <2>2, <2>3
  <2>5. ASSUME NEW i \in 1 .. m + 1 PROVE g[i] = Step[g[i - 1]]
    <3>1. CASE i = m + 1
      BY <3>1
    <3>2. CASE i # m + 1
      <4>1. i \in 1 .. m /\ i - 1 \in 0 .. m
        BY <3>2
      <4> QED
        BY <2>2, <3>2, <4>1
    <3> QED
      BY <3>1, <3>2
  <2> HIDE DEF g
  <2>6. Recurs(g, R, b, m + 1, Step)
    BY <2>4, <2>5 DEF Recurs
  <2> QED
    BY <2>6
<1> HIDE DEF T
<1>3. \A m \in 0 .. n : m \in T
  BY <1>1, <1>2, UpTo
<1> QED
  BY <1>3 DEF T

(* What is reached from the roots: they are, and so is what a live edge     *)
(* leads to from there.                                                     *)
Grown(ix, names) ==
  names \cup {e.to : e \in {x \in ix.edges : x.from \in names /\ x.type \in liveEdgeTypes}}

Closed(ix, names) ==
  \A e \in ix.edges : (e.type \in liveEdgeTypes /\ e.from \in names) => e.to \in names

LEMMA ReachTrace ==
  ASSUME NEW ix, IsFiniteSet(ix.edges), NEW roots
  PROVE  \E g : /\ \A i \in 0 .. Cardinality(ix.edges) :
                      roots \subseteq g[i] /\ g[i] \subseteq roots \cup {e.to : e \in ix.edges}
                /\ \A i \in 1 .. Cardinality(ix.edges) : g[i] = Grown(ix, g[i - 1])
                /\ ReachableFrom(ix, roots) = g[Cardinality(ix.edges)]
<1> DEFINE n == Cardinality(ix.edges)
           all == roots \cup {e.to : e \in ix.edges}
           R == {s \in SUBSET all : roots \subseteq s}
           Step == [s \in R |-> Grown(ix, s)]
           Body(f) == [i \in 0 .. n |->
              IF i = 0 THEN roots
              ELSE f[i - 1] \cup {e.to : e \in {x \in ix.edges :
                                     x.from \in f[i - 1] /\ x.type \in liveEdgeTypes}}]
           reach == CHOOSE f : f = Body(f)
<1>1. ReachableFrom(ix, roots) = reach[n]
  BY DEF ReachableFrom
<1>2. n \in Nat
  BY FS_CardinalityType
<1>3. \A s \in R : Step[s] = Grown(ix, s) /\ Grown(ix, s) \in R
  BY DEF Grown
<1>4. roots \in R /\ Step \in [R -> R]
  BY <1>3
<1>5. \A s \in R : roots \subseteq s /\ s \subseteq all
  OBVIOUS
<1> HIDE DEF n, R, Step, all
<1>6. PICK g : Recurs(g, R, roots, n, Step)
  BY <1>2, <1>4, Recursion
<1>7. g \in [0 .. n -> R] /\ g[0] = roots /\ \A i \in 1 .. n : g[i] = Step[g[i - 1]]
  BY <1>6 DEF Recurs
<1>8. ASSUME NEW i \in 1 .. n PROVE g[i] = Grown(ix, g[i - 1])
  <2>1. i - 1 \in 0 .. n
    BY <1>2
  <2> QED
    BY <1>3, <1>7, <2>1
<1>9. g = Body(g)
  <2>1. ASSUME NEW i \in 0 .. n PROVE g[i] = Body(g)[i]
    <3>1. CASE i = 0
      BY <1>7, <3>1
    <3>2. CASE i # 0
      BY <1>2, <1>8, <3>2 DEF Grown
    <3> QED
      BY <3>1, <3>2
  <2> QED
    BY <1>7, <2>1
<1>10. reach = Body(reach)
  BY <1>9
<1> HIDE DEF reach
<1> DEFINE T == {i \in 0 .. n : reach[i] = g[i]}
<1>11. 0 \in T
  BY <1>2, <1>7, <1>10
<1>12. ASSUME NEW i \in 0 .. n - 1, i \in T PROVE i + 1 \in T
  <2>1. i + 1 \in 1 .. n /\ (i + 1) - 1 = i /\ i + 1 # 0 /\ i + 1 \in 0 .. n
    BY <1>2
  <2>2. reach[i + 1] = Grown(ix, reach[i])
    BY <1>10, <2>1 DEF Grown
  <2>3. g[i + 1] = Grown(ix, g[i])
    BY <1>8, <2>1
  <2> QED
    BY <1>12, <2>1, <2>2, <2>3
<1>13. n \in T
  <2> HIDE DEF T
  <2> QED
    BY <1>2, <1>11, <1>12, UpTo
<1>14. \A i \in 0 .. n : roots \subseteq g[i] /\ g[i] \subseteq all
  BY <1>5, <1>7
<1> QED
  BY <1>1, <1>8, <1>13, <1>14 DEF n, all

(* As many rounds as there are edges leave nothing to reach: a round that   *)
(* adds something adds a name an edge leads to.                             *)
LEMMA ReachableCloses ==
  ASSUME NEW ix, IsFiniteSet(ix.edges), NEW roots
  PROVE  roots \subseteq ReachableFrom(ix, roots) /\ Closed(ix, ReachableFrom(ix, roots))
<1> DEFINE n == Cardinality(ix.edges)
           heads == {e.to : e \in ix.edges}
<1>1. PICK g : /\ \A i \in 0 .. n : roots \subseteq g[i] /\ g[i] \subseteq roots \cup heads
               /\ \A i \in 1 .. n : g[i] = Grown(ix, g[i - 1])
               /\ ReachableFrom(ix, roots) = g[n]
  BY ReachTrace
<1>2. n \in Nat
  BY FS_CardinalityType
<1>3. IsFiniteSet(heads) /\ Cardinality(heads) <= n
  <2> DEFINE f == [e \in ix.edges |-> e.to]
  <2>1. f \in Surjection(ix.edges, heads)
    BY DEF Surjection
  <2> QED
    BY <2>1, FS_Surjection
<1> HIDE DEF n
<1>4. \A i \in 0 .. n - 1 : g[i + 1] = Grown(ix, g[i])
  <2>1. ASSUME NEW i \in 0 .. n - 1 PROVE g[i + 1] = Grown(ix, g[i])
    <3>1. i + 1 \in 1 .. n /\ (i + 1) - 1 = i
      BY <1>2
    <3> QED
      BY <1>1, <3>1
  <2> QED
    BY <2>1
<1>5. \A names : Closed(ix, names) => Grown(ix, names) = names
  BY DEF Closed, Grown
<1>6. SUFFICES ASSUME ~Closed(ix, g[n]) PROVE FALSE
  BY <1>1, <1>2
<1>7. \A i \in 0 .. n : ~Closed(ix, g[i])
  <2> DEFINE T == {i \in 0 .. n : ~Closed(ix, g[n - i])}
  <2>1. 0 \in T
    BY <1>2, <1>6
  <2>2. ASSUME NEW i \in 0 .. n - 1, i \in T PROVE i + 1 \in T
    <3>1. n - i - 1 \in 0 .. n - 1 /\ (n - i - 1) + 1 = n - i /\ n - (i + 1) = n - i - 1
          /\ i + 1 \in 0 .. n
      BY <1>2
    <3>2. g[n - i] = Grown(ix, g[n - i - 1])
      BY <1>4, <3>1
    <3>3. ~Closed(ix, g[n - i])
      BY <2>2
    <3>4. ~Closed(ix, g[n - i - 1])
      BY <1>5, <3>2, <3>3
    <3> QED
      BY <3>1, <3>4
  <2>3. \A i \in 0 .. n : i \in T
    <3> HIDE DEF T
    <3> QED
      BY <1>2, <2>1, <2>2, UpTo
  <2>4. ASSUME NEW i \in 0 .. n PROVE ~Closed(ix, g[i])
    <3>1. n - i \in 0 .. n /\ n - (n - i) = i
      BY <1>2
    <3>2. n - i \in T
      BY <2>3, <3>1
    <3> QED
      BY <3>1, <3>2
  <2> QED
    BY <2>4
<1> DEFINE New(i) == g[i] \ roots
<1>8. ASSUME NEW i \in 0 .. n
      PROVE  /\ IsFiniteSet(New(i)) /\ New(i) \subseteq heads
             /\ Cardinality(New(i)) \in Nat
  <2>1. New(i) \subseteq heads
    BY <1>1
  <2> QED
    BY <1>3, <2>1, FS_Subset, FS_CardinalityType
<1>9. ASSUME NEW i \in 0 .. n - 1 PROVE Cardinality(New(i)) + 1 <= Cardinality(New(i + 1))
  <2>1. i \in 0 .. n /\ i + 1 \in 0 .. n
    BY <1>2
  <2>2. PICK e \in ix.edges : e.type \in liveEdgeTypes /\ e.from \in g[i] /\ e.to \notin g[i]
    BY <1>7, <2>1 DEF Closed
  <2>3. e.to \in Grown(ix, g[i]) /\ g[i] \subseteq Grown(ix, g[i])
    BY <2>2 DEF Grown
  <2>4. e.to \in g[i + 1] /\ g[i] \subseteq g[i + 1] /\ roots \subseteq g[i]
    BY <1>1, <1>4, <2>1, <2>3
  <2>5. New(i) \subseteq New(i + 1) /\ e.to \in New(i + 1) /\ e.to \notin New(i)
    BY <2>2, <2>4
  <2>6. IsFiniteSet(New(i)) /\ IsFiniteSet(New(i + 1))
        /\ Cardinality(New(i)) \in Nat /\ Cardinality(New(i + 1)) \in Nat
    BY <1>8, <2>1
  <2> DEFINE a == New(i)
             b == New(i + 1)
  <2>7. a \subseteq b /\ a # b /\ IsFiniteSet(b)
    BY <2>5, <2>6
  <2> HIDE DEF a, b
  <2>8. Cardinality(a) < Cardinality(b)
    <3>1. Cardinality(a) <= Cardinality(b) /\ Cardinality(a) # Cardinality(b)
      BY <2>7, FS_Subset
    <3>2. Cardinality(a) \in Nat /\ Cardinality(b) \in Nat
      BY <2>6 DEF a, b
    <3> QED
      BY <3>1, <3>2
  <2> QED
    BY <2>6, <2>8 DEF a, b
<1>10. n \in {i \in 0 .. n : i <= Cardinality(New(i))}
  <2> DEFINE T == {i \in 0 .. n : i <= Cardinality(New(i))}
  <2>1. 0 \in T
    <3>1. 0 \in 0 .. n
      BY <1>2
    <3>2. Cardinality(New(0)) \in Nat
      BY <1>8, <3>1
    <3> HIDE DEF New
    <3>3. 0 <= Cardinality(New(0))
      BY <3>2
    <3> QED
      BY <3>1, <3>3
  <2>2. ASSUME NEW i \in 0 .. n - 1, i \in T PROVE i + 1 \in T
    <3>1. i \in 0 .. n /\ i + 1 \in 0 .. n
      BY <1>2
    <3>2. Cardinality(New(i)) \in Nat /\ Cardinality(New(i + 1)) \in Nat
      BY <1>8, <3>1
    <3> HIDE DEF New
    <3> QED
      BY <1>9, <2>2, <3>1, <3>2
  <2> HIDE DEF T
  <2>3. n \in 0 .. n
    BY <1>2
  <2>4. n \in T
    BY <1>2, <2>1, <2>2, <2>3, UpTo
  <2> QED
    BY <2>4 DEF T
<1>11. n \in 0 .. n
  BY <1>2
<1>12. PICK e \in ix.edges : e.type \in liveEdgeTypes /\ e.from \in g[n] /\ e.to \notin g[n]
  BY <1>6 DEF Closed
<1> DEFINE c == New(n)
<1>13. /\ IsFiniteSet(c) /\ c \subseteq heads /\ Cardinality(c) \in Nat /\ n <= Cardinality(c)
       /\ e.to \in heads /\ e.to \notin c
  BY <1>8, <1>10, <1>11, <1>12
<1> HIDE DEF c, heads
<1>14. Cardinality(c) < Cardinality(heads)
  <2>1. c # heads
    BY <1>13
  <2>2. Cardinality(c) <= Cardinality(heads) /\ Cardinality(c) # Cardinality(heads)
    BY <1>3, <1>13, <2>1, FS_Subset
  <2> QED
    BY <1>3, <1>13, <2>2, FS_CardinalityType
<1>15. Cardinality(heads) \in Nat
  BY <1>3, FS_CardinalityType
<1> QED
  BY <1>2, <1>3, <1>13, <1>14, <1>15

(* One depth of traverse.                                                   *)
RowsAt(ix, outgoing, types, before) ==
  {e \in ix.edges : /\ e.type \in types
                    /\ Near(e, outgoing) \in before.queue \ before.visited}

Deeper(ix, outgoing, types, before) ==
  [queue   |-> {Far(e, outgoing) : e \in RowsAt(ix, outgoing, types, before)},
   visited |-> before.visited \cup (before.queue \ before.visited),
   rows    |-> before.rows \cup RowsAt(ix, outgoing, types, before)]

Surface(starts) == [queue |-> starts, visited |-> {}, rows |-> {}]

(* The walk of traverse, depth by depth.                                    *)
Walked(g, ix, starts, outgoing, depth, types) ==
  /\ g[0] = Surface(starts)
  /\ \A d \in 1 .. depth : g[d] = Deeper(ix, outgoing, types, g[d - 1])
  /\ traverse(ix, starts, outgoing, depth, types) = g[depth].rows

(* The walk of traverse is there.                                           *)
LEMMA TraverseTrace ==
  ASSUME NEW ix, NEW starts, NEW outgoing \in BOOLEAN, NEW depth \in Nat, NEW types
  PROVE  \E g : Walked(g, ix, starts, outgoing, depth, types)
<1> DEFINE names == starts \cup {Far(e, outgoing) : e \in ix.edges}
           R == [queue : SUBSET names, visited : SUBSET names, rows : SUBSET ix.edges]
           Step == [r \in R |-> Deeper(ix, outgoing, types, r)]
           Body(f) == [d \in 0 .. depth |->
              IF d = 0 THEN [queue |-> starts, visited |-> {}, rows |-> {}]
              ELSE LET before == f[d - 1]
                       frontier == before.queue \ before.visited
                       rows == {e \in ix.edges : /\ e.type \in types
                                                 /\ Near(e, outgoing) \in frontier}
                   IN  [queue   |-> {Far(e, outgoing) : e \in rows},
                        visited |-> before.visited \cup frontier,
                        rows    |-> before.rows \cup rows]]
           level == CHOOSE f : f = Body(f)
<1>1. traverse(ix, starts, outgoing, depth, types) = level[depth].rows
  BY DEF traverse
<1>2. ASSUME NEW r \in R PROVE Deeper(ix, outgoing, types, r) \in R
  <2>1. r.queue \subseteq names /\ r.visited \subseteq names /\ r.rows \subseteq ix.edges
    OBVIOUS
  <2>2. RowsAt(ix, outgoing, types, r) \subseteq ix.edges
    BY DEF RowsAt
  <2>3. {Far(e, outgoing) : e \in RowsAt(ix, outgoing, types, r)} \subseteq names
    BY <2>2
  <2> HIDE DEF names
  <2> QED
    BY <2>1, <2>2, <2>3 DEF Deeper
<1>3. Surface(starts) \in R
  BY DEF Surface
<1>4. Step \in [R -> R] /\ \A r \in R : Step[r] = Deeper(ix, outgoing, types, r)
  BY <1>2
<1>5. \A f, d : d \in 0 .. depth =>
         Body(f)[d] = IF d = 0 THEN Surface(starts) ELSE Deeper(ix, outgoing, types, f[d - 1])
  BY DEF Surface, Deeper, RowsAt
<1>6. \A f : DOMAIN Body(f) = 0 .. depth /\ Body(f) = [d \in 0 .. depth |-> Body(f)[d]]
  OBVIOUS
<1> HIDE DEF R, Step
<1>7. PICK g : Recurs(g, R, Surface(starts), depth, Step)
  BY <1>3, <1>4, Recursion
<1>8. /\ g \in [0 .. depth -> R] /\ g[0] = Surface(starts)
      /\ \A d \in 1 .. depth : g[d] = Step[g[d - 1]]
  BY <1>7 DEF Recurs
<1>9. ASSUME NEW d \in 1 .. depth PROVE g[d] = Deeper(ix, outgoing, types, g[d - 1])
  <2>1. d - 1 \in 0 .. depth
    OBVIOUS
  <2> QED
    BY <1>4, <1>8, <2>1
<1> HIDE DEF Body
<1>10. g = Body(g)
  <2>1. ASSUME NEW d \in 0 .. depth PROVE g[d] = Body(g)[d]
    <3>1. CASE d = 0
      BY <1>5, <1>8, <3>1
    <3>2. CASE d # 0
      <4>1. d \in 1 .. depth
        BY <3>2
      <4> QED
        BY <1>5, <1>9, <3>2, <4>1
    <3> QED
      BY <3>1, <3>2
  <2> QED
    BY <1>6, <1>8, <2>1
<1>11. level = Body(level)
  BY <1>10
<1> HIDE DEF level
<1> DEFINE T == {d \in 0 .. depth : level[d] = g[d]}
<1>12. 0 \in T
  BY <1>5, <1>8, <1>11
<1>13. ASSUME NEW d \in 0 .. depth - 1, d \in T PROVE d + 1 \in T
  <2>1. d + 1 \in 1 .. depth /\ (d + 1) - 1 = d /\ d + 1 # 0 /\ d + 1 \in 0 .. depth
    OBVIOUS
  <2>2. level[d + 1] = Deeper(ix, outgoing, types, level[d])
    BY <1>5, <1>11, <2>1
  <2>3. g[d + 1] = Deeper(ix, outgoing, types, g[d])
    BY <1>9, <2>1
  <2> QED
    BY <1>13, <2>1, <2>2, <2>3
<1>14. depth \in T
  <2>1. depth \in 0 .. depth
    OBVIOUS
  <2> HIDE DEF T
  <2> QED
    BY <1>12, <1>13, <2>1, UpTo
<1>15. Walked(g, ix, starts, outgoing, depth, types)
  BY <1>1, <1>8, <1>9, <1>14 DEF Walked
<1> QED
  BY <1>15

(* What a depth adds.                                                       *)
LEMMA DeeperRows ==
  ASSUME NEW ix, NEW outgoing, NEW types, NEW before
  PROVE  Deeper(ix, outgoing, types, before).rows = before.rows \cup RowsAt(ix, outgoing, types, before)
BY DEF Deeper

(* The rows of the first depth are among those of any.                      *)
LaidFirst(ix, ref, depth, types) ==
  {e \in EdgesTo(ix, ref) : e.type \in types}
      \subseteq traverse(ix, {ref}, FALSE, depth, types)

LEMMA FirstRows ==
  ASSUME NEW ix, NEW ref, NEW depth \in Nat \ {0}, NEW types
  PROVE  LaidFirst(ix, ref, depth, types)
<1> DEFINE starts == {ref}
<1>0. \E g : Walked(g, ix, starts, FALSE, depth, types)
  <2>1. depth \in Nat /\ FALSE \in BOOLEAN
    OBVIOUS
  <2> HIDE DEF starts
  <2> QED
    BY <2>1, TraverseTrace
<1>1. PICK g : /\ g[0] = Surface({ref})
               /\ \A d \in 1 .. depth : g[d] = Deeper(ix, FALSE, types, g[d - 1])
               /\ traverse(ix, {ref}, FALSE, depth, types) = g[depth].rows
  BY <1>0 DEF Walked
<1> DEFINE rows == {e \in EdgesTo(ix, ref) : e.type \in types}
           T == {d \in 0 .. depth - 1 : rows \subseteq g[d + 1].rows}
<1>2. 0 \in T
  <2>1. 0 \in 0 .. depth - 1 /\ 1 \in 1 .. depth /\ 1 - 1 = 0 /\ 0 + 1 = 1
    OBVIOUS
  <2>2. g[1] = Deeper(ix, FALSE, types, Surface({ref}))
    BY <1>1, <2>1
  <2>3. rows \subseteq RowsAt(ix, FALSE, types, Surface({ref}))
    <3>1. Surface({ref}).queue = {ref} /\ Surface({ref}).visited = {}
      BY DEF Surface
    <3> QED
      BY <3>1 DEF EdgesTo, RowsAt, Near
  <2>4. g[1].rows = Surface({ref}).rows \cup RowsAt(ix, FALSE, types, Surface({ref}))
    BY <2>2 DEF Deeper
  <2> HIDE DEF rows
  <2> QED
    BY <2>1, <2>3, <2>4
<1>3. ASSUME NEW d \in 0 .. depth - 1 - 1, d \in T PROVE d + 1 \in T
  <2>1. d + 2 \in 1 .. depth /\ (d + 2) - 1 = d + 1 /\ (d + 1) + 1 = d + 2
        /\ d + 1 \in 0 .. depth - 1
    OBVIOUS
  <2>2. g[d + 2] = Deeper(ix, FALSE, types, g[d + 1])
    BY <1>1, <2>1
  <2>3. rows \subseteq g[d + 1].rows
    BY <1>3
  <2>4. g[d + 2].rows = g[d + 1].rows \cup RowsAt(ix, FALSE, types, g[d + 1])
    BY <2>2 DEF Deeper
  <2> HIDE DEF rows
  <2> QED
    BY <2>1, <2>3, <2>4
<1>4. depth - 1 \in T
  <2>1. depth - 1 \in Nat /\ depth - 1 \in 0 .. depth - 1
    OBVIOUS
  <2> HIDE DEF T
  <2> QED
    BY <1>2, <1>3, <2>1, UpTo
<1>5. (depth - 1) + 1 = depth
  OBVIOUS
<1>6. rows \subseteq g[depth].rows
  BY <1>4, <1>5
<1> QED
  BY <1>1, <1>6 DEF LaidFirst

(* What blast_radius counts is there when callers_of is asked.              *)
LEMMA RadiusCounted ==
  ASSUME NEW ix, IsFiniteSet(ix.edges), NEW s \in ix.symbols
  PROVE  LET radius == GetBlastRadius(ix, s.ref, 2, "") IN
         radius.directCallers + radius.implementations + radius.embedders
             <= radius.transitiveCallers
<1> DEFINE direct == EdgesTo(ix, s.ref)
           calls == {e \in direct : e.type \in {"calls", "references"}}
           impls == {e \in direct : e.type \in {"satisfies"}}
           embeds == {e \in direct : e.type \in {"embeds"}}
           callers == CallersOf(ix, s.ref, 2, allEdgeTypes, "")
           radius == GetBlastRadius(ix, s.ref, 2, "")
<1>1. \A rows : filterEdges(rows, "") = rows
  BY DEF filterEdges, repoMismatch
<1>2. /\ radius.directCallers = Cardinality(calls)
      /\ radius.implementations = Cardinality(impls)
      /\ radius.embedders = Cardinality(embeds)
      /\ radius.transitiveCallers = Cardinality(callers)
  BY <1>1 DEF GetBlastRadius
<1>3. /\ IsFiniteSet(calls) /\ IsFiniteSet(impls) /\ IsFiniteSet(embeds)
      /\ Cardinality(calls) \in Nat /\ Cardinality(impls) \in Nat /\ Cardinality(embeds) \in Nat
  <2>1. calls \subseteq ix.edges /\ impls \subseteq ix.edges /\ embeds \subseteq ix.edges
    BY DEF EdgesTo
  <2> HIDE DEF calls, impls, embeds
  <2> QED
    BY <2>1, FS_Subset, FS_CardinalityType
<1>4. callers = traverse(ix, {s.ref}, FALSE, 2, allEdgeTypes) \cup dispatchRows(ix, s.ref)
  <2>1. Named(ix, s.ref) # {}
    BY DEF Named
  <2> QED
    BY <1>1, <2>1 DEF CallersOf
<1>5. calls \cup impls \cup embeds \subseteq callers
  <2>1. {e \in direct : e.type \in allEdgeTypes}
            \subseteq traverse(ix, {s.ref}, FALSE, 2, allEdgeTypes)
    <3>1. 2 \in Nat \ {0}
      OBVIOUS
    <3>2. LaidFirst(ix, s.ref, 2, allEdgeTypes)
      BY <3>1, FirstRows
    <3> QED
      BY <3>2 DEF LaidFirst
  <2>2. calls \cup impls \cup embeds \subseteq {e \in direct : e.type \in allEdgeTypes}
    BY DEF allEdgeTypes, liveEdgeTypes
  <2> HIDE DEF direct, calls, impls, embeds, callers
  <2> QED
    BY <1>4, <2>1, <2>2
<1>6. IsFiniteSet(callers)
  <2> DEFINE starts == {s.ref}
  <2>0. \E g : Walked(g, ix, starts, FALSE, 2, allEdgeTypes)
    <3>1. 2 \in Nat /\ FALSE \in BOOLEAN
      OBVIOUS
    <3> HIDE DEF starts
    <3> QED
      BY <3>1, TraverseTrace
  <2>1. PICK g : Walked(g, ix, starts, FALSE, 2, allEdgeTypes)
    BY <2>0
  <2>2. /\ g[0] = Surface(starts)
        /\ g[1] = Deeper(ix, FALSE, allEdgeTypes, g[0])
        /\ g[2] = Deeper(ix, FALSE, allEdgeTypes, g[1])
        /\ traverse(ix, starts, FALSE, 2, allEdgeTypes) = g[2].rows
    <3>1. 1 \in 1 .. 2 /\ 2 \in 1 .. 2 /\ 1 - 1 = 0 /\ 2 - 1 = 1
      OBVIOUS
    <3> HIDE DEF starts
    <3> QED
      BY <2>1, <3>1 DEF Walked
  <2>3. g[2].rows \subseteq ix.edges
    <3>1. g[0].rows = {}
      BY <2>2 DEF Surface
    <3>2. \A before : RowsAt(ix, FALSE, allEdgeTypes, before) \subseteq ix.edges
      BY DEF RowsAt
    <3>3. /\ g[1].rows = g[0].rows \cup RowsAt(ix, FALSE, allEdgeTypes, g[0])
          /\ g[2].rows = g[1].rows \cup RowsAt(ix, FALSE, allEdgeTypes, g[1])
      BY <2>2 DEF Deeper
    <3> QED
      BY <3>1, <3>2, <3>3
  <2>4. dispatchRows(ix, s.ref) \subseteq ix.edges
    BY DEF dispatchRows
  <2>5. callers \subseteq ix.edges
    BY <1>4, <2>2, <2>3, <2>4
  <2> HIDE DEF callers
  <2> QED
    BY <2>5, FS_Subset
<1>7. calls \cap impls = {} /\ (calls \cup impls) \cap embeds = {}
  OBVIOUS
<1> HIDE DEF calls, impls, embeds, callers, radius
<1> DEFINE both == calls \cup impls
           three == both \cup embeds
<1>8. /\ IsFiniteSet(both) /\ Cardinality(both) = Cardinality(calls) + Cardinality(impls)
  <2>1. IsFiniteSet(calls \cap impls) /\ Cardinality(calls \cap impls) = 0
    BY <1>7, FS_EmptySet
  <2>2. IsFiniteSet(both)
        /\ Cardinality(both) = Cardinality(calls) + Cardinality(impls) - Cardinality(calls \cap impls)
    BY <1>3, FS_Union
  <2> QED
    BY <1>3, <2>1, <2>2
<1>9. /\ IsFiniteSet(three) /\ Cardinality(three) = Cardinality(both) + Cardinality(embeds)
  <2> HIDE DEF both
  <2>1. IsFiniteSet(both \cap embeds) /\ Cardinality(both \cap embeds) = 0
    BY <1>7, FS_EmptySet DEF both
  <2>2. IsFiniteSet(three)
        /\ Cardinality(three) = Cardinality(both) + Cardinality(embeds) - Cardinality(both \cap embeds)
    BY <1>3, <1>8, FS_Union
  <2>3. Cardinality(both) \in Nat
    BY <1>8, FS_CardinalityType
  <2> QED
    BY <1>3, <2>1, <2>2, <2>3
<1>10. three \subseteq callers
  BY <1>5
<1> HIDE DEF three, both
<1>11. Cardinality(three) <= Cardinality(callers)
  BY <1>6, <1>10, FS_Subset
<1> QED
  BY <1>2, <1>8, <1>9, <1>11 DEF radius

(* No entry point is unused: a test's name is exported, and a main is live  *)
(* by design.                                                               *)
LEMMA EntryPointsUsed ==
  ASSUME NEW ix \in Indexes, NEW includeTests \in BOOLEAN
  PROVE  UnusedSymbols(ix, includeTests) \cap EntryPoints(ix, includeTests) = {}
<1> SUFFICES ASSUME NEW s \in UnusedSymbols(ix, includeTests),
                    s \in EntryPoints(ix, includeTests)
             PROVE  FALSE
  OBVIOUS
<1>1. /\ s \in ix.symbols /\ ~s.exported /\ ~liveByDesign(ix, s)
  BY DEF UnusedSymbols, AllSymbols
<1>2. \/ s.name \in TestEntries
      \/ s.kind = "function" /\ s.name = "main" /\ s.ref[1] \in ix.mains
      \/ s.exported
  BY DEF EntryPoints, IsTestEntry
<1>3. s.name \in TestEntries => s.exported
  BY <1>1, CallGraphAssumption
<1> QED
  BY <1>1, <1>2, <1>3 DEF liveByDesign

(* What names an unused symbol is unused too, unless the report leaves it   *)
(* out: a root among them would have made the symbol reachable.             *)
LEMMA NamedByUnused ==
  ASSUME NEW ix \in Indexes, NEW includeTests \in BOOLEAN,
         NEW s \in UnusedSymbols(ix, includeTests),
         NEW e \in EdgesTo(ix, s.ref), e.type \in liveEdgeTypes,
         NEW c \in Named(ix, e.from)
  PROVE  \/ c \in UnusedSymbols(ix, includeTests)
         \/ c.generated
         \/ c.test /\ ~includeTests
         \/ c.ref \in interfaceDispatchedMethods(ix, includeTests,
                          ReachableFrom(ix, rootSymbols(ix, includeTests)))
<1> DEFINE roots == rootSymbols(ix, includeTests)
           reachable == ReachableFrom(ix, roots)
           behind == interfaceDispatchedMethods(ix, includeTests, reachable)
<1> SUFFICES ASSUME ~c.generated, ~c.test \/ includeTests, c.ref \notin behind
             PROVE  c \in UnusedSymbols(ix, includeTests)
  OBVIOUS
<1>1. /\ e \in ix.edges /\ e.to = s.ref /\ c \in ix.symbols /\ c.ref = e.from
  BY DEF EdgesTo, Named
<1>2. c \in AllSymbols(ix, includeTests)
  BY <1>1 DEF AllSymbols
<1>3. s.ref \notin reachable
  BY DEF UnusedSymbols
<1>4. roots \subseteq reachable /\ Closed(ix, reachable)
  <2>1. IsFiniteSet(ix.edges)
    BY IndexQueriesAssumption
  <2> HIDE DEF roots
  <2> QED
    BY <2>1, ReachableCloses
<1> HIDE DEF reachable, behind
<1>5. c.ref \notin reachable
  BY <1>1, <1>3, <1>4 DEF Closed
<1>6. ~c.exported /\ ~liveByDesign(ix, c)
  <2>1. c.exported \/ liveByDesign(ix, c) => c.ref \in roots
    BY <1>2 DEF rootSymbols
  <2> QED
    BY <1>4, <1>5, <2>1
<1>7. ~InterfaceMethod(ix, includeTests, c)
  <2> SUFFICES ASSUME c.kind = "method",
                      NEW t \in ix.symbols, t.kind = "interface", t.ref = receiverType(c)
               PROVE  FALSE
    BY DEF InterfaceMethod, AllSymbols
  <2>1. t.ref = <<c.ref[1], "", c.ref[2]>>
    BY DEF receiverType
  <2> QED
    BY <1>1, <2>1, CallGraphAssumption
<1> QED
  BY <1>2, <1>5, <1>6, <1>7 DEF UnusedSymbols, reachable, behind

(* The index asked is one of them.                                          *)
LEMMA CallAsked == CallSpec => [](index \in Indexes)
<1>1. Init => index \in Indexes
  BY DEF Init
<1>2. index \in Indexes /\ [CallNext]_vars => (index \in Indexes)'
  BY DEF vars, CallNext, BeginCall, FindPath, DetectCycles
<1> QED
  BY <1>1, <1>2, PTL DEF CallSpec

(* Nothing that is used by what stays is reported unused, no entry point    *)
(* is, and blast_radius counts only what callers_of lists, whatever the     *)
(* index (UnusedSymbols, interfaceDispatchedMethods, EntryPoints,           *)
(* GetBlastRadius).                                                         *)
THEOREM DeletionIsSafe == CallSpec => []DeletionSafe
<1>1. index \in Indexes => DeletionSafe
  <2> SUFFICES ASSUME index \in Indexes PROVE DeletionSafe
    OBVIOUS
  <2>1. IsFiniteSet(index.edges)
    BY IndexQueriesAssumption
  <2>2. ASSUME NEW includeTests \in BOOLEAN,
               NEW s \in UnusedSymbols(index, includeTests),
               NEW e \in Show(index, s.ref).incoming, e.type \in liveEdgeTypes,
               NEW c \in Named(index, e.from)
        PROVE  \/ c \in UnusedSymbols(index, includeTests)
               \/ c.generated
               \/ c.test /\ ~includeTests
               \/ c.ref \in interfaceDispatchedMethods(index, includeTests,
                                ReachableFrom(index, rootSymbols(index, includeTests)))
    <3>1. e \in EdgesTo(index, s.ref)
      BY DEF Show
    <3> QED
      BY <2>2, <3>1, NamedByUnused
  <2> QED
    BY <2>1, <2>2, EntryPointsUsed, RadiusCounted DEF DeletionSafe
<1> QED
  BY <1>1, CallAsked, PTL

-----------------------------------------------------------------------------
(* FindPath.                                                                *)

(* The edges and links a walk scoped to a repository may take.              *)
Steps(ix, repo) ==
  {e \in ix.edges : ~repoMismatch(e.repo, repo)}
  \cup {contractToEdge(c) : c \in {x \in ix.contracts : /\ ~x.suggested
                                                        /\ ~repoMismatch(x.repo, repo)}}

(* The edges out of a name are the steps from it.                           *)
LEMMA OutSteps ==
  ASSUME NEW ix, NEW ref, NEW repo
  PROVE  OutEdges(ix, ref, repo) = {e \in Steps(ix, repo) : e.from = ref}
<1>1. \A c : contractToEdge(c).from = c.from
  BY DEF contractToEdge
<1>2. ASSUME NEW e \in OutEdges(ix, ref, repo) PROVE e \in Steps(ix, repo) /\ e.from = ref
  BY <1>1 DEF OutEdges, Steps, EdgesFrom
<1>3. ASSUME NEW e \in Steps(ix, repo), e.from = ref PROVE e \in OutEdges(ix, ref, repo)
  <2>1. CASE e \in ix.edges /\ ~repoMismatch(e.repo, repo)
    BY <1>3, <2>1 DEF OutEdges, EdgesFrom
  <2>2. CASE \E c \in ix.contracts : /\ ~c.suggested /\ ~repoMismatch(c.repo, repo)
                                     /\ e = contractToEdge(c)
    <3>1. PICK c \in ix.contracts : /\ ~c.suggested /\ ~repoMismatch(c.repo, repo)
                                    /\ e = contractToEdge(c)
      BY <2>2
    <3>2. c.from = ref
      BY <1>1, <1>3, <3>1
    <3> QED
      BY <3>1, <3>2 DEF OutEdges
  <2> QED
    BY <2>1, <2>2 DEF Steps
<1> QED
  BY <1>2, <1>3

(* No step is of another repository than the one asked for.                 *)
LEMMA StepsPass ==
  ASSUME NEW ix, NEW repo, NEW e \in Steps(ix, repo)
  PROVE  ~repoMismatch(e.repo, repo)
<1>1. \A c : contractToEdge(c).repo = c.repo
  BY DEF contractToEdge
<1> QED
  BY <1>1 DEF Steps

(* They are finitely many.                                                  *)
LEMMA OutFinite ==
  ASSUME NEW ix \in Indexes, NEW ref, NEW repo
  PROVE  IsFiniteSet(OutEdges(ix, ref, repo))
<1> DEFINE links == {x \in ix.contracts : /\ x.from = ref
                                          /\ ~x.suggested
                                          /\ ~repoMismatch(x.repo, repo)}
           f == [c \in links |-> contractToEdge(c)]
           linked == {contractToEdge(c) : c \in links}
           out == {e \in EdgesFrom(ix, ref) : ~repoMismatch(e.repo, repo)}
<1>1. IsFiniteSet(ix.edges) /\ IsFiniteSet(ix.contracts)
  BY IndexQueriesAssumption, CallGraphAssumption
<1>2. IsFiniteSet(links)
  <2>1. links \subseteq ix.contracts
    OBVIOUS
  <2> HIDE DEF links
  <2> QED
    BY <1>1, <2>1, FS_Subset
<1>3. IsFiniteSet(linked)
  <2>1. f \in Surjection(links, linked)
    BY DEF Surjection
  <2> HIDE DEF f, links, linked
  <2> QED
    BY <1>2, <2>1, FS_Surjection
<1>4. IsFiniteSet(out)
  <2>1. out \subseteq ix.edges
    BY DEF EdgesFrom
  <2> HIDE DEF out
  <2> QED
    BY <1>1, <2>1, FS_Subset
<1>5. OutEdges(ix, ref, repo) = out \cup linked
  BY DEF OutEdges
<1> HIDE DEF out, linked
<1> QED
  BY <1>3, <1>4, <1>5, FS_Union

(* One more step from each of a set of names.                               *)
Onward(ix, repo, names) == {e.to : e \in {x \in Steps(ix, repo) : x.from \in names}}

(* What is ahead in a number of steps, step by step.                        *)
LEMMA AheadSteps ==
  ASSUME NEW ix, NEW request, request.depth \in Nat
  PROVE  /\ Ahead(ix, request)[0] = {request.from}
         /\ \A n \in 1 .. request.depth :
               Ahead(ix, request)[n] = Onward(ix, request.repo, Ahead(ix, request)[n - 1])
<1> DEFINE depth == request.depth
           repo == request.repo
           Body(f) == [n \in 0 .. depth |->
              IF n = 0 THEN {request.from}
              ELSE {e.to : e \in UNION {OutEdges(ix, ref, repo) : ref \in f[n - 1]}}]
           names == CHOOSE f : f = Body(f)
           all == {request.from} \cup {e.to : e \in Steps(ix, repo)}
           R == SUBSET all
           Step == [s \in R |-> Onward(ix, repo, s)]
<1>1. Ahead(ix, request) = names
  BY DEF Ahead
<1>2. \A s : {e.to : e \in UNION {OutEdges(ix, ref, repo) : ref \in s}} = Onward(ix, repo, s)
  <2> SUFFICES ASSUME NEW s
               PROVE  {e.to : e \in UNION {OutEdges(ix, ref, repo) : ref \in s}}
                         = Onward(ix, repo, s)
    OBVIOUS
  <2>1. UNION {OutEdges(ix, ref, repo) : ref \in s} = {x \in Steps(ix, repo) : x.from \in s}
    BY OutSteps
  <2> QED
    BY <2>1 DEF Onward
<1>3. ASSUME NEW s \in R PROVE Onward(ix, repo, s) \in R
  BY DEF Onward
<1>4. {request.from} \in R /\ Step \in [R -> R] /\ \A s \in R : Step[s] = Onward(ix, repo, s)
  BY <1>3
<1>5. \A f, n : n \in 0 .. depth =>
         Body(f)[n] = IF n = 0 THEN {request.from} ELSE Onward(ix, repo, f[n - 1])
  BY <1>2
<1>6. \A f : DOMAIN Body(f) = 0 .. depth /\ Body(f) = [n \in 0 .. depth |-> Body(f)[n]]
  OBVIOUS
<1> HIDE DEF R, Step, all
<1>7. PICK g : Recurs(g, R, {request.from}, depth, Step)
  BY <1>4, Recursion
<1>8. /\ g \in [0 .. depth -> R] /\ g[0] = {request.from}
      /\ \A n \in 1 .. depth : g[n] = Step[g[n - 1]]
  BY <1>7 DEF Recurs
<1> HIDE DEF Body
<1>9. g = Body(g)
  <2>1. ASSUME NEW n \in 0 .. depth PROVE g[n] = Body(g)[n]
    <3>1. CASE n = 0
      BY <1>5, <1>8, <3>1
    <3>2. CASE n # 0
      <4>1. n \in 1 .. depth /\ n - 1 \in 0 .. depth
        BY <3>2
      <4>2. g[n] = Step[g[n - 1]] /\ g[n - 1] \in R
        BY <1>8, <4>1
      <4> QED
        BY <1>4, <1>5, <3>2, <4>2
    <3> QED
      BY <3>1, <3>2
  <2> QED
    BY <1>6, <1>8, <2>1
<1>10. names = Body(names)
  BY <1>9
<1> HIDE DEF names
<1>11. ASSUME NEW n \in 1 .. depth PROVE names[n] = Onward(ix, repo, names[n - 1])
  <2>1. n \in 0 .. depth /\ n # 0
    OBVIOUS
  <2> QED
    BY <1>5, <1>10, <2>1
<1>12. names[0] = {request.from}
  BY <1>5, <1>10
<1> QED
  BY <1>1, <1>11, <1>12

(* A path none of whose steps is of another repository is answered whole.   *)
LEMMA FilterKeeps ==
  ASSUME NEW repo, NEW S, \A e \in S : ~repoMismatch(e.repo, repo), NEW path \in Seq(S)
  PROVE  filterPathSteps(path, repo) = path
<1> DEFINE Body(f) == [n \in 0 .. Len(path) |->
              IF n = 0 THEN << >>
              ELSE IF repoMismatch(path[n].repo, repo) THEN f[n - 1]
              ELSE Append(f[n - 1], path[n])]
           kept == CHOOSE f : f = Body(f)
           g == [n \in 0 .. Len(path) |-> SubSeq(path, 1, n)]
<1>1. filterPathSteps(path, repo) = kept[Len(path)]
  BY DEF filterPathSteps
<1>2. Len(path) \in Nat /\ \A n \in 1 .. Len(path) : ~repoMismatch(path[n].repo, repo)
  OBVIOUS
<1>3. SubSeq(path, 1, 0) = << >> /\ SubSeq(path, 1, Len(path)) = path
  OBVIOUS
<1>4. \A n \in 1 .. Len(path) : SubSeq(path, 1, n) = Append(SubSeq(path, 1, n - 1), path[n])
  OBVIOUS
<1>5. \A f, n : n \in 0 .. Len(path) =>
         Body(f)[n] = IF n = 0 THEN << >>
                      ELSE IF repoMismatch(path[n].repo, repo) THEN f[n - 1]
                      ELSE Append(f[n - 1], path[n])
  OBVIOUS
<1>6. \A f : DOMAIN Body(f) = 0 .. Len(path) /\ Body(f) = [n \in 0 .. Len(path) |-> Body(f)[n]]
  OBVIOUS
<1>7. /\ g = [n \in 0 .. Len(path) |-> g[n]] /\ DOMAIN g = 0 .. Len(path)
      /\ g[0] = << >> /\ g[Len(path)] = path
      /\ \A n \in 1 .. Len(path) : g[n] = Append(g[n - 1], path[n])
  BY <1>2, <1>3, <1>4
<1> HIDE DEF Body, g
<1>8. g = Body(g)
  <2>1. ASSUME NEW n \in 0 .. Len(path) PROVE g[n] = Body(g)[n]
    <3>1. CASE n = 0
      BY <1>5, <1>7, <3>1
    <3>2. CASE n # 0
      <4>1. n \in 1 .. Len(path)
        BY <1>2, <3>2
      <4> QED
        BY <1>2, <1>5, <1>7, <3>2, <4>1
    <3> QED
      BY <3>1, <3>2
  <2> QED
    BY <1>6, <1>7, <2>1
<1>9. kept = Body(kept)
  BY <1>8
<1> HIDE DEF kept
<1> DEFINE T == {n \in 0 .. Len(path) : kept[n] = g[n]}
<1>10. 0 \in T
  BY <1>2, <1>5, <1>7, <1>9
<1>11. ASSUME NEW n \in 0 .. Len(path) - 1, n \in T PROVE n + 1 \in T
  <2>1. n + 1 \in 1 .. Len(path) /\ (n + 1) - 1 = n /\ n + 1 # 0 /\ n + 1 \in 0 .. Len(path)
    BY <1>2
  <2>2. kept[n + 1] = Append(kept[n], path[n + 1])
    BY <1>2, <1>5, <1>9, <2>1
  <2>3. g[n + 1] = Append(g[n], path[n + 1])
    BY <1>7, <2>1
  <2> QED
    BY <1>11, <2>1, <2>2, <2>3
<1>12. Len(path) \in T
  <2>1. Len(path) \in 0 .. Len(path)
    BY <1>2
  <2> HIDE DEF T
  <2> QED
    BY <1>2, <1>10, <1>11, <2>1, UpTo
<1> QED
  BY <1>1, <1>7, <1>12

(* An order of a finite set has every member of it.                         *)
LEMMA OrderCovers ==
  ASSUME NEW S, IsFiniteSet(S), NEW order \in SetToSeqs(S)
  PROVE  /\ order \in Seq(S)
         /\ \A x \in S : \E i \in DOMAIN order : order[i] = x
<1> DEFINE D == 1 .. Cardinality(S)
<1>1. order \in [D -> S] /\ \A i, j \in D : i # j => order[i] # order[j]
  BY DEF SetToSeqs
<1>2. Cardinality(S) \in Nat
  BY FS_CardinalityType
<1>3. order \in Seq(S)
  BY <1>1, <1>2
<1>4. order \in Injection(D, S)
  BY <1>1 DEF Injection, IsInjective
<1>5. IsFiniteSet(D) /\ Cardinality(D) = Cardinality(S)
  <2>1. 1 \in Int /\ Cardinality(S) \in Int
    BY <1>2
  <2>2. IsFiniteSet(D) /\ Cardinality(D) = IF 1 > Cardinality(S) THEN 0 ELSE Cardinality(S) - 1 + 1
    BY <2>1, FS_Interval
  <2> QED
    BY <1>2, <2>2
<1> HIDE DEF D
<1>6. order \in Surjection(D, S)
  BY <1>4, <1>5, FS_Injection
<1> QED
  BY <1>1, <1>3, <1>6 DEF Surjection

(* A path of steps from one name to another.                                *)
Trail(path, from, to, S) ==
  /\ path \in Seq(S)
  /\ path = << >> => to = from
  /\ path # << >> => /\ path[1].from = from
                     /\ path[Len(path)].to = to
                     /\ \A i \in 1 .. Len(path) - 1 : path[i].to = path[i + 1].from

(* A trail goes on by a step from where it ends.                            *)
LEMMA TrailExtends ==
  ASSUME NEW S, NEW path, NEW from, NEW to, Trail(path, from, to, S),
         NEW e \in S, e.from = to
  PROVE  /\ Trail(Append(path, e), from, e.to, S)
         /\ Len(Append(path, e)) = Len(path) + 1 /\ Len(path) \in Nat
<1> DEFINE more == Append(path, e)
<1>1. path \in Seq(S)
  BY DEF Trail
<1>2. /\ more \in Seq(S) /\ Len(more) = Len(path) + 1 /\ Len(path) \in Nat
      /\ \A i \in 1 .. Len(path) : more[i] = path[i]
      /\ more[Len(path) + 1] = e
      /\ path = << >> <=> Len(path) = 0
  BY <1>1
<1> HIDE DEF more
<1>3. more # << >>
  BY <1>2
<1>4. more[1].from = from
  <2>1. CASE path = << >>
    BY <1>2, <2>1 DEF Trail
  <2>2. CASE path # << >>
    <3>1. 1 \in 1 .. Len(path)
      BY <1>2, <2>2
    <3> QED
      BY <1>2, <2>2, <3>1 DEF Trail
  <2> QED
    BY <2>1, <2>2
<1>5. ASSUME NEW i \in 1 .. Len(more) - 1 PROVE more[i].to = more[i + 1].from
  <2>1. i \in 1 .. Len(path) /\ path # << >>
    BY <1>2
  <2>2. CASE i = Len(path)
    BY <1>2, <2>1, <2>2 DEF Trail
  <2>3. CASE i # Len(path)
    <3>1. i \in 1 .. Len(path) - 1 /\ i + 1 \in 1 .. Len(path)
      BY <1>2, <2>1, <2>3
    <3>2. path[i].to = path[i + 1].from
      BY <2>1, <3>1 DEF Trail
    <3> QED
      BY <1>2, <2>1, <3>1, <3>2
  <2> QED
    BY <2>2, <2>3
<1>6. more[Len(more)].to = e.to
  BY <1>2
<1> QED
  BY <1>2, <1>3, <1>4, <1>5, <1>6 DEF Trail, more

(* What may wait in the queue: a name and the path that leads there.        *)
Places(ix, request) == {request.from} \cup {e.to : e \in Steps(ix, request.repo)}

Node(ix, request) ==
  {q \in [name : Places(ix, request), path : Seq(Steps(ix, request.repo))] :
      /\ Trail(q.path, request.from, q.name, Steps(ix, request.repo))
      /\ Len(q.path) <= request.depth
      /\ q.name \in Ahead(ix, request)[Len(q.path)]}

LevelNames(queue, level) ==
  {queue[i].name : i \in {j \in DOMAIN queue : Len(queue[j].path) = level}}

Waiting(queue) == {queue[i].name : i \in DOMAIN queue}

(* The walk is at a level: what waits is one level apart and in order, what *)
(* is nearer has been visited, what is as near waits or has been, and what  *)
(* lies ahead of the visited waits.                                         *)
Phase(ix, request, visited, queue, level) ==
  /\ level \in 0 .. request.depth
  /\ \A i \in DOMAIN queue : Len(queue[i].path) \in {level, level + 1}
  /\ \A i, j \in DOMAIN queue : i < j => Len(queue[i].path) <= Len(queue[j].path)
  /\ \A n \in 0 .. level - 1 : Ahead(ix, request)[n] \subseteq visited
  /\ Ahead(ix, request)[level] \subseteq visited \cup LevelNames(queue, level)
  /\ level < request.depth =>
        Onward(ix, request.repo, visited) \subseteq visited \cup Waiting(queue)
  /\ request.to \in visited => request.to = request.from

(* More names lead to more.                                                 *)
LEMMA OnwardMono ==
  ASSUME NEW ix, NEW repo, NEW S, NEW T, S \subseteq T
  PROVE  Onward(ix, repo, S) \subseteq Onward(ix, repo, T)
BY DEF Onward

(* What is known of a name that waits.                                      *)
LEMMA NodeFields ==
  ASSUME NEW ix, NEW request, NEW q \in Node(ix, request)
  PROVE  /\ Len(q.path) \in Nat /\ Len(q.path) <= request.depth
         /\ q.name \in Ahead(ix, request)[Len(q.path)]
         /\ Trail(q.path, request.from, q.name, Steps(ix, request.repo))
<1>1. q.path \in Seq(Steps(ix, request.repo))
  BY DEF Node
<1>2. Len(q.path) \in Nat
  BY <1>1
<1> QED
  BY <1>2 DEF Node

(* The walk begins at level 0.                                              *)
LEMMA PhaseBegins ==
  ASSUME NEW ix, NEW request, request.depth \in Nat \ {0}
  PROVE  LET queue == <<[name |-> request.from, path |-> << >>]>> IN
         /\ queue \in Seq(Node(ix, request))
         /\ Phase(ix, request, {}, queue, 0)
<1> DEFINE node == [name |-> request.from, path |-> << >>]
           queue == <<node>>
<1>1. Ahead(ix, request)[0] = {request.from}
  BY AheadSteps
<1>2. node.path = << >> /\ node.name = request.from /\ Len(node.path) = 0
  OBVIOUS
<1>3. node \in Node(ix, request)
  <2>1. << >> \in Seq(Steps(ix, request.repo)) /\ request.from \in Places(ix, request)
    BY DEF Places
  <2>2. Trail(<< >>, request.from, request.from, Steps(ix, request.repo))
    BY <2>1 DEF Trail
  <2>3. node \in [name : Places(ix, request), path : Seq(Steps(ix, request.repo))]
    BY <2>1
  <2> HIDE DEF node
  <2>4. request.from \in Ahead(ix, request)[0]
    BY <1>1
  <2> QED
    BY <1>2, <2>2, <2>3, <2>4 DEF Node
<1> HIDE DEF node
<1>4. DOMAIN queue = {1} /\ queue[1] = node /\ queue \in Seq(Node(ix, request))
  BY <1>3
<1> HIDE DEF queue
<1>5. LevelNames(queue, 0) = {request.from}
  BY <1>2, <1>4 DEF LevelNames
<1>6. Onward(ix, request.repo, {}) = {}
  BY DEF Onward
<1>7. Phase(ix, request, {}, queue, 0)
  <2>1. 0 \in 0 .. request.depth /\ 0 .. 0 - 1 = {}
    OBVIOUS
  <2>2. \A i \in DOMAIN queue : Len(queue[i].path) \in {0, 0 + 1}
    BY <1>2, <1>4
  <2>3. \A i, j \in DOMAIN queue : i < j => Len(queue[i].path) <= Len(queue[j].path)
    BY <1>2, <1>4
  <2> QED
    BY <1>1, <1>5, <1>6, <2>1, <2>2, <2>3 DEF Phase
<1> QED
  BY <1>4, <1>7 DEF queue, node

(* The level of the walk is that of the first name in the queue.            *)
LEMMA PhaseHead ==
  ASSUME NEW ix, NEW request, request.depth \in Nat \ {0}, NEW visited,
         NEW queue \in Seq(Node(ix, request)), queue # << >>,
         NEW level, Phase(ix, request, visited, queue, level)
  PROVE  Phase(ix, request, visited, queue, Len(queue[1].path))
<1>1. 1 \in DOMAIN queue /\ Len(queue) \in Nat /\ DOMAIN queue = 1 .. Len(queue)
  OBVIOUS
<1>2. level \in Nat /\ level <= request.depth
  BY DEF Phase
<1>3. \A i \in DOMAIN queue : /\ queue[i] \in Node(ix, request)
                              /\ Len(queue[i].path) \in Nat
                              /\ Len(queue[i].path) <= request.depth
  BY NodeFields
<1>4. Len(queue[1].path) \in {level, level + 1}
  BY <1>1 DEF Phase
<1>5. CASE Len(queue[1].path) = level
  BY <1>5
<1>6. CASE Len(queue[1].path) = level + 1
  <2> DEFINE next == level + 1
  <2>1. next \in 0 .. request.depth /\ level < request.depth /\ next \in 1 .. request.depth
        /\ next - 1 = level
    BY <1>1, <1>2, <1>3, <1>6
  <2>2. ASSUME NEW i \in DOMAIN queue PROVE Len(queue[i].path) = next
    <3>1. Len(queue[i].path) \in {level, level + 1} /\ Len(queue[i].path) \in Nat
      BY <1>3 DEF Phase
    <3>2. i = 1 \/ 1 < i
      BY <1>1
    <3>3. Len(queue[1].path) <= Len(queue[i].path)
      BY <1>1, <1>3, <3>2 DEF Phase
    <3> QED
      BY <1>2, <1>6, <3>1, <3>3
  <2>3. LevelNames(queue, level) = {} /\ LevelNames(queue, next) = Waiting(queue)
    BY <1>2, <2>2 DEF LevelNames, Waiting
  <2>4. Ahead(ix, request)[level] \subseteq visited
    BY <2>3 DEF Phase
  <2>5. Ahead(ix, request)[next] \subseteq visited \cup LevelNames(queue, next)
    <3>1. Ahead(ix, request)[next] = Onward(ix, request.repo, Ahead(ix, request)[level])
      BY <2>1, AheadSteps
    <3>2. Onward(ix, request.repo, visited) \subseteq visited \cup Waiting(queue)
      BY <2>1 DEF Phase
    <3> QED
      BY <2>3, <2>4, <3>1, <3>2, OnwardMono
  <2>6. Onward(ix, request.repo, visited) \subseteq visited \cup Waiting(queue)
    BY <2>1 DEF Phase
  <2>7. \A n \in 0 .. next - 1 : Ahead(ix, request)[n] \subseteq visited
    <3>1. \A n \in 0 .. next - 1 : n = level \/ n \in 0 .. level - 1
      BY <1>2
    <3> QED
      BY <2>4, <3>1 DEF Phase
  <2>8. \A i \in DOMAIN queue : Len(queue[i].path) \in {next, next + 1}
    BY <2>2
  <2>9. \A i, j \in DOMAIN queue : i < j => Len(queue[i].path) <= Len(queue[j].path)
    BY DEF Phase
  <2>10. request.to \in visited => request.to = request.from
    BY DEF Phase
  <2> HIDE DEF next
  <2>11. Phase(ix, request, visited, queue, next)
    BY <2>1, <2>5, <2>6, <2>7, <2>8, <2>9, <2>10 DEF Phase
  <2> QED
    BY <1>6, <2>11 DEF next
<1> QED
  BY <1>4, <1>5, <1>6

(* A queue without its head, with more behind it.                           *)
PoppedTo(queue, more, rest) ==
  /\ \A i \in DOMAIN rest :
        \/ i + 1 \in DOMAIN queue /\ rest[i] = queue[i + 1]
        \/ /\ Len(queue) <= i
           /\ i - (Len(queue) - 1) \in DOMAIN more
           /\ rest[i] = more[i - (Len(queue) - 1)]
  /\ \A j \in DOMAIN queue : j # 1 => j - 1 \in DOMAIN rest /\ rest[j - 1] = queue[j]
  /\ \A k \in DOMAIN more : \E i \in DOMAIN rest : rest[i] = more[k]

LEMMA QueuePops ==
  ASSUME NEW S, NEW queue \in Seq(S), queue # << >>, NEW more \in Seq(S),
         NEW rest, rest = Tail(queue) \o more
  PROVE  rest \in Seq(S) /\ PoppedTo(queue, more, rest)
<1> DEFINE t == Tail(queue)
<1>1. /\ Len(queue) \in Nat /\ Len(queue) >= 1 /\ DOMAIN queue = 1 .. Len(queue)
      /\ t \in Seq(S) /\ Len(t) = Len(queue) - 1
      /\ \A i \in 1 .. Len(t) : t[i] = queue[i + 1]
  OBVIOUS
<1>2. Len(more) \in Nat /\ DOMAIN more = 1 .. Len(more)
  OBVIOUS
<1> HIDE DEF t
<1>3. /\ rest \in Seq(S) /\ Len(rest) = Len(t) + Len(more)
      /\ DOMAIN rest = 1 .. Len(t) + Len(more)
      /\ \A i \in 1 .. Len(t) : rest[i] = t[i]
      /\ \A i \in Len(t) + 1 .. Len(t) + Len(more) : rest[i] = more[i - Len(t)]
  BY <1>1, <1>2 DEF t
<1>4. ASSUME NEW i \in DOMAIN rest
      PROVE  \/ i + 1 \in DOMAIN queue /\ rest[i] = queue[i + 1]
             \/ /\ Len(queue) <= i
                /\ i - (Len(queue) - 1) \in DOMAIN more
                /\ rest[i] = more[i - (Len(queue) - 1)]
  <2>1. CASE i \in 1 .. Len(t)
    BY <1>1, <1>3, <2>1
  <2>2. CASE i \in Len(t) + 1 .. Len(t) + Len(more)
    BY <1>1, <1>2, <1>3, <2>2
  <2> QED
    BY <1>1, <1>2, <1>3, <2>1, <2>2
<1>5. ASSUME NEW j \in DOMAIN queue, j # 1
      PROVE  j - 1 \in DOMAIN rest /\ rest[j - 1] = queue[j]
  <2>1. j - 1 \in 1 .. Len(t) /\ (j - 1) + 1 = j
    BY <1>1, <1>5
  <2> QED
    BY <1>1, <1>2, <1>3, <2>1
<1>6. ASSUME NEW k \in DOMAIN more PROVE \E i \in DOMAIN rest : rest[i] = more[k]
  <2>1. Len(t) + k \in Len(t) + 1 .. Len(t) + Len(more) /\ (Len(t) + k) - Len(t) = k
        /\ Len(t) + k \in DOMAIN rest
    BY <1>1, <1>2, <1>3
  <2> QED
    BY <1>3, <2>1
<1> QED
  BY <1>3, <1>4, <1>5, <1>6 DEF PoppedTo

(* What a step keeps of the level: the head is visited, and what lies ahead *)
(* of it waits behind the others.                                           *)
LEMMA PhasePops ==
  ASSUME NEW ix, NEW request, request.depth \in Nat \ {0}, NEW visited,
         NEW queue \in Seq(Node(ix, request)), queue # << >>,
         NEW level, Phase(ix, request, visited, queue, level), Len(queue[1].path) = level,
         NEW more \in Seq(Node(ix, request)),
         \A k \in DOMAIN more : Len(more[k].path) = level + 1,
         NEW after, after = visited \cup {queue[1].name},
         NEW rest, rest = Tail(queue) \o more,
         level < request.depth => Onward(ix, request.repo, {queue[1].name})
                                      \subseteq after \cup Waiting(queue) \cup Waiting(more),
         request.to \in after => request.to = request.from
  PROVE  rest \in Seq(Node(ix, request)) /\ Phase(ix, request, after, rest, level)
<1>1. /\ rest \in Seq(Node(ix, request))
      /\ \A i \in DOMAIN rest :
            \/ i + 1 \in DOMAIN queue /\ rest[i] = queue[i + 1]
            \/ /\ Len(queue) <= i
               /\ i - (Len(queue) - 1) \in DOMAIN more
               /\ rest[i] = more[i - (Len(queue) - 1)]
      /\ \A j \in DOMAIN queue : j # 1 => j - 1 \in DOMAIN rest /\ rest[j - 1] = queue[j]
      /\ \A k \in DOMAIN more : \E i \in DOMAIN rest : rest[i] = more[k]
  <2> DEFINE S == Node(ix, request)
  <2>1. queue \in Seq(S) /\ more \in Seq(S)
    OBVIOUS
  <2> HIDE DEF S
  <2>2. rest \in Seq(S) /\ PoppedTo(queue, more, rest)
    BY <2>1, QueuePops
  <2> QED
    BY <2>2 DEF PoppedTo, S
<1>2. /\ Len(queue) \in Nat /\ DOMAIN queue = 1 .. Len(queue)
      /\ Len(rest) \in Nat /\ DOMAIN rest = 1 .. Len(rest)
  BY <1>1
<1>3. level \in Nat /\ level \in 0 .. request.depth
  BY DEF Phase
<1>4. \A i \in DOMAIN queue : Len(queue[i].path) \in {level, level + 1}
  BY DEF Phase
<1>5. ASSUME NEW i \in DOMAIN rest PROVE Len(rest[i].path) \in {level, level + 1}
  BY <1>1, <1>4
<1>6. ASSUME NEW i \in DOMAIN rest, NEW j \in DOMAIN rest, i < j
      PROVE  Len(rest[i].path) <= Len(rest[j].path)
  <2>1. CASE j + 1 \in DOMAIN queue /\ rest[j] = queue[j + 1]
    <3>1. i \in Nat /\ j \in Nat /\ i < Len(queue) /\ i + 1 < j + 1
      BY <1>2, <1>6, <2>1
    <3>2. i + 1 \in DOMAIN queue /\ rest[i] = queue[i + 1]
      BY <1>1, <1>2, <3>1
    <3> QED
      BY <2>1, <3>1, <3>2 DEF Phase
  <2>2. CASE Len(rest[j].path) = level + 1
    <3> DEFINE a == Len(rest[i].path)
               b == Len(rest[j].path)
    <3>1. (a = level \/ a = level + 1) /\ b = level + 1
      BY <1>5, <2>2
    <3> HIDE DEF a, b
    <3>2. a <= b
      BY <1>3, <3>1
    <3> QED
      BY <3>2 DEF a, b
  <2> QED
    BY <1>1, <2>1, <2>2
<1>7. \A n \in 0 .. level - 1 : Ahead(ix, request)[n] \subseteq after
  BY DEF Phase
<1>8. Ahead(ix, request)[level] \subseteq after \cup LevelNames(rest, level)
  <2> SUFFICES ASSUME NEW name \in LevelNames(queue, level), name # queue[1].name
               PROVE  name \in LevelNames(rest, level)
    BY DEF Phase
  <2>1. PICK j \in DOMAIN queue : name = queue[j].name /\ Len(queue[j].path) = level
    BY DEF LevelNames
  <2>2. j - 1 \in DOMAIN rest /\ rest[j - 1] = queue[j]
    BY <1>1, <2>1
  <2> QED
    BY <2>1, <2>2 DEF LevelNames
<1>9. Waiting(queue) \subseteq {queue[1].name} \cup Waiting(rest)
  <2> SUFFICES ASSUME NEW j \in DOMAIN queue PROVE queue[j].name \in {queue[1].name} \cup Waiting(rest)
    BY DEF Waiting
  <2>1. CASE j = 1
    BY <2>1
  <2>2. CASE j # 1
    <3>1. j - 1 \in DOMAIN rest /\ rest[j - 1] = queue[j]
      BY <1>1, <2>2
    <3> QED
      BY <3>1 DEF Waiting
  <2> QED
    BY <2>1, <2>2
<1>10. Waiting(more) \subseteq Waiting(rest)
  <2> SUFFICES ASSUME NEW k \in DOMAIN more PROVE more[k].name \in Waiting(rest)
    BY DEF Waiting
  <2>1. PICK i \in DOMAIN rest : rest[i] = more[k]
    BY <1>1
  <2> QED
    BY <2>1 DEF Waiting
<1>11. ASSUME level < request.depth
       PROVE  Onward(ix, request.repo, after) \subseteq after \cup Waiting(rest)
  <2>1. Onward(ix, request.repo, after) = Onward(ix, request.repo, visited)
                                            \cup Onward(ix, request.repo, {queue[1].name})
    BY DEF Onward
  <2>2. Onward(ix, request.repo, visited) \subseteq visited \cup Waiting(queue)
    BY <1>11 DEF Phase
  <2> QED
    BY <1>9, <1>10, <1>11, <2>1, <2>2
<1>12. Phase(ix, request, after, rest, level)
  BY <1>3, <1>5, <1>6, <1>7, <1>8, <1>11 DEF Phase
<1> QED
  BY <1>1, <1>12

(* When nothing waits any more, all within the depth has been visited.      *)
LEMMA PhaseEnds ==
  ASSUME NEW ix, NEW request, request.depth \in Nat \ {0}, NEW visited,
         NEW level, Phase(ix, request, visited, << >>, level)
  PROVE  \A n \in 0 .. request.depth : Ahead(ix, request)[n] \subseteq visited
<1> DEFINE T == {n \in 0 .. request.depth : Ahead(ix, request)[n] \subseteq visited}
<1>1. level \in 0 .. request.depth
  BY DEF Phase
<1>2. LevelNames(<< >>, level) = {} /\ Waiting(<< >>) = {}
  BY DEF LevelNames, Waiting
<1>3. \A n \in 0 .. level - 1 : Ahead(ix, request)[n] \subseteq visited
  BY DEF Phase
<1>4. Ahead(ix, request)[level] \subseteq visited
  BY <1>2 DEF Phase
<1>5. 0 \in T
  <2>1. 0 = level \/ 0 \in 0 .. level - 1
    BY <1>1
  <2> QED
    BY <1>3, <1>4, <2>1
<1>6. ASSUME NEW n \in 0 .. request.depth - 1, n \in T PROVE n + 1 \in T
  <2>1. n + 1 \in 1 .. request.depth /\ (n + 1) - 1 = n /\ n + 1 \in 0 .. request.depth
    OBVIOUS
  <2>2. n + 1 = level \/ n + 1 \in 0 .. level - 1 \/ level <= n
    BY <1>1
  <2>3. CASE level <= n
    <3>1. level < request.depth
      BY <1>1, <2>3
    <3>2. Onward(ix, request.repo, visited) \subseteq visited
      BY <1>2, <3>1 DEF Phase
    <3>3. Ahead(ix, request)[n + 1] = Onward(ix, request.repo, Ahead(ix, request)[n])
      BY <2>1, AheadSteps
    <3>4. Ahead(ix, request)[n] \subseteq visited
      BY <1>6
    <3> QED
      BY <2>1, <3>2, <3>3, <3>4, OnwardMono
  <2> QED
    BY <1>3, <1>4, <2>1, <2>2, <2>3
<1> HIDE DEF T
<1>7. \A n \in 0 .. request.depth : n \in T
  BY <1>5, <1>6, UpTo
<1> QED
  BY <1>7 DEF T

(* A path search: its fields, what holds while it goes on, how it ends.     *)
IsPath(w, ix) ==
  /\ w \in [op : {"path"}, request : Requests(ix), visited : SUBSET Places(ix, w.request),
            answer : Seq(Steps(ix, w.request.repo)), found : BOOLEAN, done : BOOLEAN,
            queue : Seq(Node(ix, w.request))]
  /\ w.request.op = "path"
  /\ Named(ix, w.request.from) # {} /\ Named(ix, w.request.to) # {}

Underway(w, ix) ==
  ~w.done => /\ ~w.found /\ w.answer = << >>
             /\ \E level : Phase(ix, w.request, w.visited, w.queue, level)

Shortest(w, ix) ==
  /\ w.answer # << >>
  /\ Trail(w.answer, w.request.from, w.request.to, Steps(ix, w.request.repo))
  /\ Len(w.answer) \in Distances(ix, w.request)
  /\ \A n \in Distances(ix, w.request) : Len(w.answer) <= n
  /\ w.request.from # w.request.to

Unreached(w, ix) ==
  /\ w.answer = << >>
  /\ Distances(ix, w.request) = {} \/ w.request.from = w.request.to

Outcome(w, ix) ==
  w.done => (w.found => Shortest(w, ix)) /\ (~w.found => Unreached(w, ix))

PathInv(w, ix) == IsPath(w, ix) /\ Underway(w, ix) /\ Outcome(w, ix)

(* A path is asked for within some depth.                                   *)
LEMMA Depths ==
  ASSUME NEW ix \in Indexes, NEW request \in Requests(ix), request.op = "path"
  PROVE  request.depth \in Nat \ {0}
BY CallGraphAssumption

(* A search begins.                                                         *)
LEMMA PathBegins ==
  ASSUME index \in Indexes, NEW request \in Requests(index), request.op = "path",
         BeginPath(request)
  PROVE  walk'.op = "path" /\ PathInv(walk', index)
<1> DEFINE first == <<[name |-> request.from, path |-> << >>]>>
<1>1. request.depth \in Nat \ {0}
  BY Depths
<1>2. first \in Seq(Node(index, request)) /\ Phase(index, request, {}, first, 0)
  BY <1>1, PhaseBegins
<1> HIDE DEF first
<1>3. walk' = [op |-> "path", request |-> request, visited |-> {}, answer |-> << >>,
               found |-> FALSE, done |-> FALSE, queue |-> first]
  BY DEF BeginPath, first
<1>4. /\ walk'.op = "path" /\ walk'.request = request /\ walk'.visited = {}
      /\ walk'.answer = << >> /\ walk'.found = FALSE /\ walk'.done = FALSE
      /\ walk'.queue = first
  BY <1>3
<1>5. IsPath(walk', index)
  <2>1. Named(index, request.from) # {} /\ Named(index, request.to) # {}
    BY DEF BeginPath
  <2>2. << >> \in Seq(Steps(index, request.repo)) /\ {} \in SUBSET Places(index, request)
    OBVIOUS
  <2> QED
    BY <1>2, <1>3, <1>4, <2>1, <2>2 DEF IsPath
<1>6. Underway(walk', index) /\ Outcome(walk', index)
  BY <1>2, <1>4 DEF Underway, Outcome
<1> QED
  BY <1>4, <1>5, <1>6 DEF PathInv

(* What the steps of a search start from, the level being that of its head. *)
LEMMA PathLooks ==
  ASSUME index \in Indexes, PathInv(walk, index), Looking
  PROVE  /\ walk.request \in Requests(index) /\ walk.request.op = "path"
         /\ walk.request.depth \in Nat \ {0}
         /\ walk.queue \in Seq(Node(index, walk.request))
         /\ walk.visited \subseteq Places(index, walk.request)
         /\ ~walk.found /\ walk.answer = << >>
         /\ walk.queue = << >> =>
               \E level : Phase(index, walk.request, walk.visited, walk.queue, level)
         /\ walk.queue # << >> =>
               /\ Current = walk.queue[1] /\ Current \in Node(index, walk.request)
               /\ Phase(index, walk.request, walk.visited, walk.queue, Len(Current.path))
<1>1. /\ walk.request \in Requests(index) /\ walk.request.op = "path"
      /\ walk.queue \in Seq(Node(index, walk.request))
      /\ walk.visited \subseteq Places(index, walk.request)
  BY DEF PathInv, IsPath
<1>2. walk.request.depth \in Nat \ {0}
  BY <1>1, Depths
<1>3. ~walk.found /\ walk.answer = << >>
  BY DEF PathInv, Underway, Looking
<1>4. PICK level : Phase(index, walk.request, walk.visited, walk.queue, level)
  BY DEF PathInv, Underway, Looking
<1>5. ASSUME walk.queue # << >>
      PROVE  /\ Current = walk.queue[1] /\ Current \in Node(index, walk.request)
             /\ Phase(index, walk.request, walk.visited, walk.queue, Len(Current.path))
  <2>1. Current = walk.queue[1]
    BY <1>1, <1>5 DEF Current
  <2>2. 1 \in DOMAIN walk.queue
    BY <1>1, <1>5
  <2>3. Current \in Node(index, walk.request)
    BY <1>1, <2>1, <2>2
  <2>4. Phase(index, walk.request, walk.visited, walk.queue, Len(walk.queue[1].path))
    BY <1>1, <1>2, <1>4, <1>5, PhaseHead
  <2> QED
    BY <2>1, <2>3, <2>4
<1> QED
  BY <1>1, <1>2, <1>3, <1>4, <1>5

(* A step that leaves the search under way at the same level.               *)
LEMMA PathGoesOn ==
  ASSUME PathInv(walk, index), Looking,
         NEW after \in SUBSET Places(index, walk.request),
         NEW rest \in Seq(Node(index, walk.request)),
         NEW level, Phase(index, walk.request, after, rest, level),
         walk' = [walk EXCEPT !.visited = after, !.queue = rest]
  PROVE  walk'.op = "path" /\ PathInv(walk', index)
<1>1. walk \in [op : {"path"}, request : Requests(index),
                visited : SUBSET Places(index, walk.request),
                answer : Seq(Steps(index, walk.request.repo)), found : BOOLEAN, done : BOOLEAN,
                queue : Seq(Node(index, walk.request))]
  BY DEF PathInv, IsPath
<1>2. /\ walk'.op = walk.op /\ walk'.request = walk.request /\ walk'.answer = walk.answer
      /\ walk'.found = walk.found /\ walk'.done = walk.done
      /\ walk'.visited = after /\ walk'.queue = rest
  BY <1>1
<1>3. walk' \in [op : {"path"}, request : Requests(index),
                 visited : SUBSET Places(index, walk.request),
                 answer : Seq(Steps(index, walk.request.repo)), found : BOOLEAN, done : BOOLEAN,
                 queue : Seq(Node(index, walk.request))]
  BY <1>1
<1>4. IsPath(walk', index)
  BY <1>2, <1>3 DEF PathInv, IsPath
<1>5. Underway(walk', index)
  BY <1>2 DEF PathInv, Underway, Looking
<1>6. Outcome(walk', index)
  BY <1>2 DEF Outcome, Looking
<1>7. walk'.op = "path"
  BY <1>2 DEF Looking
<1> QED
  BY <1>4, <1>5, <1>6, <1>7 DEF PathInv

(* A step that ends the search.                                             *)
LEMMA PathEnds ==
  ASSUME PathInv(walk, index), Looking,
         NEW visited \in SUBSET Places(index, walk.request), NEW found \in BOOLEAN,
         NEW answer \in Seq(Steps(index, walk.request.repo)),
         walk' = [walk EXCEPT !.visited = visited, !.done = TRUE, !.found = found,
                              !.answer = answer],
         Outcome(walk', index)
  PROVE  walk'.op = "path" /\ PathInv(walk', index)
<1>1. walk \in [op : {"path"}, request : Requests(index),
                visited : SUBSET Places(index, walk.request),
                answer : Seq(Steps(index, walk.request.repo)), found : BOOLEAN, done : BOOLEAN,
                queue : Seq(Node(index, walk.request))]
  BY DEF PathInv, IsPath
<1>2. walk'.op = walk.op /\ walk'.request = walk.request /\ walk'.done = TRUE
  BY <1>1
<1>3. walk' \in [op : {"path"}, request : Requests(index),
                 visited : SUBSET Places(index, walk.request),
                 answer : Seq(Steps(index, walk.request.repo)), found : BOOLEAN, done : BOOLEAN,
                 queue : Seq(Node(index, walk.request))]
  BY <1>1
<1>4. IsPath(walk', index)
  BY <1>2, <1>3 DEF PathInv, IsPath
<1>5. Underway(walk', index) /\ walk'.op = "path"
  BY <1>2 DEF Underway, Looking
<1> QED
  BY <1>4, <1>5 DEF PathInv

(* A step that queues nothing.                                              *)
LEMMA PhaseDrops ==
  ASSUME NEW ix, NEW request, request.depth \in Nat \ {0}, NEW visited,
         NEW queue \in Seq(Node(ix, request)), queue # << >>,
         NEW level, Phase(ix, request, visited, queue, level), Len(queue[1].path) = level,
         NEW after, after = visited \cup {queue[1].name},
         level < request.depth => Onward(ix, request.repo, {queue[1].name})
                                      \subseteq after \cup Waiting(queue),
         request.to \in after => request.to = request.from
  PROVE  /\ Tail(queue) \in Seq(Node(ix, request))
         /\ Phase(ix, request, after, Tail(queue), level)
<1> DEFINE more == << >>
           rest == Tail(queue)
<1>1. rest = Tail(queue) \o more /\ more \in Seq(Node(ix, request))
  OBVIOUS
<1>0. DOMAIN more = {}
  OBVIOUS
<1>2. Waiting(more) = {}
  BY DEF Waiting
<1> HIDE DEF more, rest
<1>3. \A k \in DOMAIN more : Len(more[k].path) = level + 1
  BY <1>0
<1>4. level < request.depth => Onward(ix, request.repo, {queue[1].name})
                                   \subseteq after \cup Waiting(queue) \cup Waiting(more)
  BY <1>2
<1>5. rest \in Seq(Node(ix, request)) /\ Phase(ix, request, after, rest, level)
  BY <1>1, <1>3, <1>4, PhasePops
<1> QED
  BY <1>5 DEF rest

(* A name visited before is passed over.                                    *)
LEMMA PathPasses ==
  ASSUME index \in Indexes, PathInv(walk, index), PassVisited
  PROVE  walk'.op = "path" /\ PathInv(walk', index)
<1> DEFINE request == walk.request
           queue == walk.queue
           visited == walk.visited
           rest == Tail(queue)
           level == Len(Current.path)
<1>0. Looking /\ queue # << >> /\ Current.name \in visited
      /\ walk' = [walk EXCEPT !.queue = rest]
  BY DEF PassVisited
<1>1. /\ request.depth \in Nat \ {0} /\ queue \in Seq(Node(index, request))
      /\ visited \in SUBSET Places(index, request)
      /\ Current = queue[1] /\ Current \in Node(index, request)
      /\ Phase(index, request, visited, queue, level)
  BY <1>0, PathLooks
<1>2. walk' = [walk EXCEPT !.visited = visited, !.queue = rest]
  BY <1>0 DEF PathInv, IsPath
<1> HIDE DEF request, queue, visited, rest
<1>4. level < request.depth =>
         Onward(index, request.repo, {queue[1].name})
             \subseteq visited \cup Waiting(queue)
  <2>1. level < request.depth => Onward(index, request.repo, visited)
                                     \subseteq visited \cup Waiting(queue)
    BY <1>1 DEF Phase
  <2>2. Onward(index, request.repo, {queue[1].name}) \subseteq Onward(index, request.repo, visited)
    BY <1>0, <1>1, OnwardMono
  <2> QED
    BY <2>1, <2>2
<1>5. visited = visited \cup {queue[1].name}
  BY <1>0, <1>1
<1>6. request.to \in visited => request.to = request.from
  BY <1>1 DEF Phase
<1>7. Len(queue[1].path) = level
  BY <1>1
<1> HIDE DEF level
<1>8. rest \in Seq(Node(index, request)) /\ Phase(index, request, visited, rest, level)
  BY <1>0, <1>1, <1>4, <1>5, <1>6, <1>7, PhaseDrops DEF rest
<1> QED
  BY <1>0, <1>1, <1>2, <1>8, PathGoesOn DEF request, visited, rest

(* A name that is not visited and not the end is no end, unless the search  *)
(* is asked to come back to its start.                                      *)
LEMMA NotYet ==
  ASSUME index \in Indexes, PathInv(walk, index), Looking, walk.queue # << >>, ~Arrived,
         walk.request.to \in walk.visited \cup {Current.name}
  PROVE  walk.request.to = walk.request.from
<1>1. /\ Current \in Node(index, walk.request)
      /\ Phase(index, walk.request, walk.visited, walk.queue, Len(Current.path))
  BY PathLooks
<1>2. CASE walk.request.to \in walk.visited
  BY <1>1, <1>2 DEF Phase
<1>3. CASE walk.request.to = Current.name
  <2>1. Current.path = << >>
    BY <1>3 DEF Arrived
  <2>2. Trail(Current.path, walk.request.from, Current.name, Steps(index, walk.request.repo))
    BY <1>1, NodeFields
  <2> QED
    BY <1>3, <2>1, <2>2 DEF Trail
<1> QED
  BY <1>2, <1>3

LEMMA PathTurnsBack ==
  ASSUME index \in Indexes, PathInv(walk, index), TurnBack
  PROVE  walk'.op = "path" /\ PathInv(walk', index)
<1> DEFINE request == walk.request
           queue == walk.queue
           visited == walk.visited
           after == visited \cup {Current.name}
           rest == Tail(queue)
           level == Len(Current.path)
<1>0. /\ Looking /\ queue # << >> /\ ~Arrived /\ level >= request.depth
      /\ walk' = [walk EXCEPT !.visited = after, !.queue = rest]
  BY DEF TurnBack, PathInv, IsPath
<1>1. /\ request.depth \in Nat \ {0} /\ queue \in Seq(Node(index, request))
      /\ visited \subseteq Places(index, request)
      /\ Current = queue[1] /\ Current \in Node(index, request)
      /\ Phase(index, request, visited, queue, level)
  BY <1>0, PathLooks
<1>2. request.to \in after => request.to = request.from
  BY <1>0, NotYet
<1>4. after \in SUBSET Places(index, request)
  BY <1>1 DEF Node
<1>5. after = visited \cup {queue[1].name} /\ Len(queue[1].path) = level
  BY <1>1
<1>6. level \in Nat /\ ~(level < request.depth)
  <2>1. level \in Nat
    BY <1>1, NodeFields
  <2> HIDE DEF level
  <2> QED
    BY <1>0, <1>1, <2>1
<1> HIDE DEF request, queue, visited, after, rest, level
<1>7. rest \in Seq(Node(index, request)) /\ Phase(index, request, after, rest, level)
  <2>1. level < request.depth =>
           Onward(index, request.repo, {queue[1].name}) \subseteq after \cup Waiting(queue)
    BY <1>6
  <2> QED
    BY <1>0, <1>1, <1>2, <1>5, <2>1, PhaseDrops DEF rest
<1> QED
  BY <1>0, <1>4, <1>7, PathGoesOn DEF request

(* Expanding a name queues what lies ahead of it and was not visited.       *)
LEMMA PathExpands ==
  ASSUME index \in Indexes, PathInv(walk, index), Expand
  PROVE  walk'.op = "path" /\ PathInv(walk', index)
<1> DEFINE request == walk.request
           queue == walk.queue
           visited == walk.visited
           after == visited \cup {Current.name}
           level == Len(Current.path)
           next == {e \in OutEdges(index, Current.name, request.repo) : e.to \notin after}
           S == Steps(index, request.repo)
<1>0. /\ Looking /\ queue # << >> /\ ~Arrived /\ level < request.depth
  BY DEF Expand
<1>1. /\ request.depth \in Nat \ {0} /\ queue \in Seq(Node(index, request))
      /\ visited \subseteq Places(index, request)
      /\ Current = queue[1] /\ Current \in Node(index, request)
      /\ Phase(index, request, visited, queue, level)
  BY <1>0, PathLooks
<1>2. request.to \in after => request.to = request.from
  BY <1>0, NotYet
<1>3. PICK order \in SetToSeqs(next) :
         walk' = [walk EXCEPT
            !.visited = after,
            !.queue = Tail(@) \o [i \in DOMAIN order |->
                [name |-> order[i].to, path |-> Append(Current.path, order[i])]]]
  BY DEF Expand, Enqueued
<1> DEFINE more == [i \in DOMAIN order |->
                      [name |-> order[i].to, path |-> Append(Current.path, order[i])]]
           rest == Tail(queue) \o more
<1>4. walk' = [walk EXCEPT !.visited = after, !.queue = rest]
  BY <1>3
<1>5. order \in Seq(next) /\ \A e \in next : \E i \in DOMAIN order : order[i] = e
  <2>1. IsFiniteSet(OutEdges(index, Current.name, request.repo))
    BY OutFinite
  <2>2. IsFiniteSet(next)
    <3>1. next \subseteq OutEdges(index, Current.name, request.repo)
      OBVIOUS
    <3> HIDE DEF next
    <3> QED
      BY <2>1, <3>1, FS_Subset
  <2> HIDE DEF next
  <2> QED
    BY <2>2, OrderCovers
<1>6. \A e \in next : e \in S /\ e.from = Current.name /\ e.to \notin after
  BY OutSteps
<1>7. /\ Trail(Current.path, request.from, Current.name, S)
      /\ Current.name \in Ahead(index, request)[level] /\ level \in Nat
  BY <1>1, NodeFields
<1>8. ASSUME NEW i \in DOMAIN order
      PROVE  /\ more[i] \in Node(index, request)
             /\ Len(more[i].path) = level + 1
             /\ more[i].name = order[i].to
  <2>1. order[i] \in next
    BY <1>5
  <2>2. order[i] \in S /\ order[i].from = Current.name
    BY <1>6, <2>1
  <2>3. more[i].name = order[i].to /\ more[i].path = Append(Current.path, order[i])
        /\ more[i] = [name |-> order[i].to, path |-> Append(Current.path, order[i])]
    OBVIOUS
  <2> HIDE DEF S, request, level, next, more
  <2>4. Trail(Append(Current.path, order[i]), request.from, order[i].to, S)
        /\ Len(Append(Current.path, order[i])) = level + 1
    BY <1>7, <2>2, TrailExtends DEF level
  <2>5. order[i].to \in Ahead(index, request)[level + 1]
    <3>1. level + 1 \in 1 .. request.depth /\ (level + 1) - 1 = level
      BY <1>0, <1>1, <1>7 DEF request
    <3>2. Ahead(index, request)[level + 1] = Onward(index, request.repo, Ahead(index, request)[level])
      BY <1>1, <3>1, AheadSteps
    <3> QED
      BY <1>7, <2>2, <3>2 DEF Onward, S
  <2>6. order[i].to \in Places(index, request) /\ Append(Current.path, order[i]) \in Seq(S)
    BY <2>2, <2>4 DEF Places, Trail, S
  <2>7. level + 1 <= request.depth
    BY <1>0, <1>1, <1>7 DEF request
  <2>8. more[i] \in [name : Places(index, request), path : Seq(S)]
    BY <2>3, <2>6
  <2> QED
    BY <2>3, <2>4, <2>5, <2>7, <2>8 DEF Node, S
<1>9. more \in Seq(Node(index, request)) /\ DOMAIN more = DOMAIN order
  <2>1. DOMAIN order = 1 .. Len(order) /\ Len(order) \in Nat
    BY <1>5
  <2>2. more \in [1 .. Len(order) -> Node(index, request)]
    BY <1>8, <2>1
  <2> HIDE DEF more
  <2> QED
    BY <2>1, <2>2
<1>10. \A k \in DOMAIN more : Len(more[k].path) = level + 1
  BY <1>8, <1>9
<1>11. Onward(index, request.repo, {queue[1].name})
           \subseteq after \cup Waiting(queue) \cup Waiting(more)
  <2> SUFFICES ASSUME NEW e \in S, e.from = Current.name, e.to \notin after
               PROVE  e.to \in Waiting(more)
    BY <1>1 DEF Onward
  <2>1. e \in next
    BY OutSteps
  <2>2. PICK i \in DOMAIN order : order[i] = e
    BY <1>5, <2>1
  <2>3. i \in DOMAIN more /\ more[i].name = e.to
    BY <1>8, <1>9, <2>2
  <2> HIDE DEF more
  <2> QED
    BY <2>3 DEF Waiting
<1>12. after \in SUBSET Places(index, request)
  BY <1>1 DEF Node
<1>13. after = visited \cup {queue[1].name} /\ Len(queue[1].path) = level
  BY <1>1
<1>14. rest = Tail(queue) \o more
  OBVIOUS
<1> HIDE DEF request, queue, visited, after, level, next, S, more, rest
<1>15. rest \in Seq(Node(index, request)) /\ Phase(index, request, after, rest, level)
  BY <1>0, <1>1, <1>2, <1>9, <1>10, <1>11, <1>13, <1>14, PhasePops
<1> QED
  BY <1>0, <1>4, <1>12, <1>15, PathGoesOn DEF request

(* The end is first come to at its distance: all that is nearer was         *)
(* visited, and it was not.                                                 *)
LEMMA PathArrives ==
  ASSUME index \in Indexes, PathInv(walk, index), Arrive
  PROVE  walk'.op = "path" /\ PathInv(walk', index)
<1> DEFINE request == walk.request
           path == Current.path
           S == Steps(index, request.repo)
           after == walk.visited \cup {Current.name}
<1>0. /\ Looking /\ walk.queue # << >> /\ Current.name \notin walk.visited
      /\ Current.name = request.to /\ path # << >>
      /\ walk' = [walk EXCEPT !.visited = after, !.done = TRUE, !.found = TRUE,
                              !.answer = filterPathSteps(path, request.repo)]
  BY DEF Arrive, Arrived
<1>1. /\ request.depth \in Nat \ {0} /\ walk.visited \subseteq Places(index, request)
      /\ Current \in Node(index, request)
      /\ Phase(index, request, walk.visited, walk.queue, Len(path))
  BY <1>0, PathLooks
<1>2. /\ Trail(path, request.from, request.to, S) /\ Len(path) \in Nat
      /\ Len(path) <= request.depth /\ request.to \in Ahead(index, request)[Len(path)]
  BY <1>0, <1>1, NodeFields
<1>3. path \in Seq(S) /\ Len(path) >= 1
  <2>1. path \in Seq(S)
    BY <1>2 DEF Trail
  <2> HIDE DEF path, S
  <2> QED
    BY <1>0, <2>1
<1>4. filterPathSteps(path, request.repo) = path
  <2>1. \A e \in S : ~repoMismatch(e.repo, request.repo)
    BY StepsPass
  <2> HIDE DEF S, path
  <2> QED
    BY <1>3, <2>1, FilterKeeps
<1>5. after \in SUBSET Places(index, request)
  BY <1>1 DEF Node
<1>6. walk' = [walk EXCEPT !.visited = after, !.done = TRUE, !.found = TRUE, !.answer = path]
  BY <1>0, <1>4
<1>7. /\ walk'.request = request /\ walk'.answer = path /\ walk'.found = TRUE
      /\ walk'.done = TRUE
  BY <1>6 DEF PathInv, IsPath
<1> HIDE DEF path, S, after, request
<1>8. Len(path) \in Distances(index, request)
  <2>1. Len(path) \in 1 .. request.depth
    BY <1>1, <1>2, <1>3
  <2> QED
    BY <1>2, <2>1 DEF Distances
<1>9. \A n \in 0 .. Len(path) - 1 : request.to \notin Ahead(index, request)[n]
  BY <1>0, <1>1 DEF Phase
<1>10. ASSUME NEW n \in Distances(index, request) PROVE Len(path) <= n
  <2>1. n \in 1 .. request.depth /\ request.to \in Ahead(index, request)[n]
    BY DEF Distances
  <2>2. n \notin 0 .. Len(path) - 1
    BY <1>9, <2>1
  <2> QED
    BY <1>1, <1>2, <2>1, <2>2
<1>11. request.from # request.to
  <2>1. 0 \in 0 .. Len(path) - 1
    BY <1>2, <1>3
  <2>2. Ahead(index, request)[0] = {request.from}
    BY <1>1, AheadSteps
  <2> QED
    BY <1>9, <2>1, <2>2
<1>12. Outcome(walk', index)
  <2>1. Shortest(walk', index)
    BY <1>0, <1>2, <1>7, <1>8, <1>10, <1>11 DEF Shortest, S
  <2> QED
    BY <1>7, <2>1 DEF Outcome
<1> QED
  BY <1>0, <1>3, <1>5, <1>6, <1>12, PathEnds DEF S, request

(* When the queue is empty all within the depth was visited, and the end    *)
(* was not.                                                                 *)
LEMMA PathFails ==
  ASSUME index \in Indexes, PathInv(walk, index), NoPath
  PROVE  walk'.op = "path" /\ PathInv(walk', index)
<1> DEFINE request == walk.request
<1>0. Looking /\ walk.queue = << >> /\ walk' = [walk EXCEPT !.done = TRUE]
  BY DEF NoPath
<1>1. /\ request.depth \in Nat \ {0} /\ walk.visited \in SUBSET Places(index, request)
      /\ ~walk.found /\ walk.answer = << >>
  BY <1>0, PathLooks
<1>2. PICK level : Phase(index, request, walk.visited, << >>, level)
  BY <1>0, PathLooks
<1>3. \A n \in 0 .. request.depth : Ahead(index, request)[n] \subseteq walk.visited
  BY <1>1, <1>2, PhaseEnds
<1>4. walk' = [walk EXCEPT !.visited = walk.visited, !.done = TRUE, !.found = FALSE,
                           !.answer = << >>]
  BY <1>0, <1>1 DEF PathInv, IsPath
<1>5. /\ walk'.request = request /\ walk'.answer = << >> /\ walk'.found = FALSE
      /\ walk'.done = TRUE
  BY <1>4 DEF PathInv, IsPath
<1>6. Distances(index, request) = {} \/ request.from = request.to
  <2> SUFFICES ASSUME NEW n \in Distances(index, request) PROVE request.from = request.to
    OBVIOUS
  <2>1. n \in 0 .. request.depth /\ request.to \in Ahead(index, request)[n]
    BY <1>1 DEF Distances
  <2>2. request.to \in walk.visited
    BY <1>3, <2>1
  <2> QED
    BY <1>2, <2>2 DEF Phase
<1>7. Outcome(walk', index)
  <2>1. Unreached(walk', index)
    BY <1>5, <1>6 DEF Unreached
  <2> QED
    BY <1>5, <2>1 DEF Outcome
<1>8. << >> \in Seq(Steps(index, request.repo))
  OBVIOUS
<1> QED
  BY <1>0, <1>1, <1>4, <1>7, <1>8, PathEnds

-----------------------------------------------------------------------------
(* Places in an order.                                                      *)

(* A total order of a finite set, as a relation.                            *)
Orders(less, S) ==
  /\ \A r \in S : <<r, r>> \notin less
  /\ \A r, s, t \in S : <<r, s>> \in less /\ <<s, t>> \in less => <<r, t>> \in less
  /\ \A r, s \in S : r # s => <<r, s>> \in less \/ <<s, r>> \in less

Below(less, S, r) == {s \in S : <<s, r>> \in less}

(* How many come before one tells where it stands.                          *)
Placed(less, S) ==
  /\ Cardinality(S) \in Nat
  /\ \A r \in S : Cardinality(Below(less, S, r)) \in 0 .. Cardinality(S) - 1
  /\ \A r, s \in S : Cardinality(Below(less, S, r)) = Cardinality(Below(less, S, s)) => r = s
  /\ \A i \in 1 .. Cardinality(S) : \E r \in S : Cardinality(Below(less, S, r)) = i - 1

LEMMA PlaceInOrder ==
  ASSUME NEW S, IsFiniteSet(S), NEW less, Orders(less, S)
  PROVE  Placed(less, S)
<1> DEFINE n == Cardinality(S)
           Less(r) == Below(less, S, r)
           Before(r) == Cardinality(Less(r))
<1>1. n \in Nat
  BY FS_CardinalityType
<1>2. ASSUME NEW r \in S PROVE Less(r) \subseteq S /\ r \notin Less(r)
  BY DEF Below, Orders
<1>3. ASSUME NEW r \in S PROVE Before(r) \in Nat /\ Before(r) < n
  <2>1. IsFiniteSet(Less(r)) /\ Cardinality(Less(r)) <= n /\ Cardinality(Less(r)) # n
    BY <1>2, FS_Subset
  <2> QED
    BY <1>1, <2>1, FS_CardinalityType
<1>4. ASSUME NEW r \in S, NEW s \in S, <<r, s>> \in less PROVE Before(r) < Before(s)
  <2>1. Less(r) \subseteq Less(s) /\ r \in Less(s) /\ r \notin Less(r)
    BY <1>4 DEF Orders, Below
  <2>2. IsFiniteSet(Less(r)) /\ IsFiniteSet(Less(s))
    BY <1>2, FS_Subset
  <2>3. /\ Cardinality(Less(r)) <= Cardinality(Less(s))
        /\ Cardinality(Less(r)) # Cardinality(Less(s))
        /\ Cardinality(Less(r)) \in Nat /\ Cardinality(Less(s)) \in Nat
    BY <2>1, <2>2, FS_Subset, FS_CardinalityType
  <2> QED
    BY <2>3
<1> HIDE DEF n, Less, Before
<1>5. ASSUME NEW r \in S, NEW s \in S, Before(r) = Before(s) PROVE r = s
  <2>1. Before(r) \in Nat /\ Before(s) \in Nat
    BY <1>1, <1>3
  <2>2. ~(Before(r) < Before(s)) /\ ~(Before(s) < Before(r))
    BY <1>5, <2>1
  <2>3. <<r, s>> \notin less /\ <<s, r>> \notin less
    BY <1>4, <2>2
  <2> QED
    BY <2>3 DEF Orders
<1>6. ASSUME NEW i \in 1 .. n PROVE \E r \in S : Before(r) = i - 1
  <2> DEFINE f == [r \in S |-> Before(r) + 1]
  <2>1. f \in [S -> 1 .. n]
    <3> SUFFICES ASSUME NEW r \in S PROVE Before(r) + 1 \in 1 .. n
      OBVIOUS
    <3> QED
      BY <1>1, <1>3
  <2>2. ASSUME NEW r \in S, NEW s \in S, f[r] = f[s] PROVE r = s
    <3>1. Before(r) \in Int /\ Before(s) \in Int
      BY <1>1, <1>3
    <3>2. Before(r) + 1 = Before(s) + 1
      BY <2>2
    <3> QED
      BY <1>5, <3>1, <3>2
  <2>3. f \in Injection(S, 1 .. n)
    BY <2>1, <2>2 DEF Injection, IsInjective
  <2>4. IsFiniteSet(1 .. n) /\ Cardinality(1 .. n) = n
    BY <1>1, FS_Interval
  <2>5. f \in Surjection(S, 1 .. n)
    BY <2>3, <2>4, FS_Injection DEF n
  <2>6. PICK r \in S : f[r] = i
    BY <2>5 DEF Surjection
  <2> QED
    BY <1>1, <1>3, <2>6
<1> QED
  <2>1. \A r \in S : Before(r) \in 0 .. n - 1
    BY <1>1, <1>3
  <2> QED
    BY <1>1, <1>5, <1>6, <2>1 DEF n, Before, Less, Placed

-----------------------------------------------------------------------------
(* What is picked of a sequence.                                            *)

(* Places are those of the sequence, in their order.                        *)
LEMMA PlacesOrdered ==
  ASSUME NEW S \in SUBSET Nat, IsFiniteSet(S)
  PROVE  /\ Cardinality(S) \in Nat
         /\ \A r \in S : Cardinality({s \in S : s < r}) \in 0 .. Cardinality(S) - 1
         /\ \A r, s \in S :
               Cardinality({q \in S : q < r}) = Cardinality({q \in S : q < s}) => r = s
         /\ \A i \in 1 .. Cardinality(S) :
               \E r \in S : Cardinality({s \in S : s < r}) = i - 1
<1> DEFINE less == {x \in Nat \X Nat : x[1] < x[2]}
<1>1. \A r, s \in S : <<r, s>> \in less <=> r < s
  OBVIOUS
<1>2. Orders(less, S)
  BY <1>1 DEF Orders
<1> HIDE DEF less
<1>3. \A r \in S : Below(less, S, r) = {s \in S : s < r}
  BY <1>1 DEF Below
<1>4. Placed(less, S)
  BY <1>2, PlaceInOrder
<1>5. \A r \in S : Cardinality(Below(less, S, r)) = Cardinality({s \in S : s < r})
  BY <1>3
<1> QED
  BY <1>4, <1>5 DEF Placed

(* What is picked are the elements at the places, each once.                *)
LEMMA PickedIs ==
  ASSUME NEW A, NEW s \in Seq(A), NEW P \in SUBSET (1 .. Len(s))
  PROVE  /\ IsFiniteSet(P) /\ Picked(s, P) \in Seq(A)
         /\ Len(Picked(s, P)) = Cardinality(P)
         /\ \A i \in 1 .. Len(Picked(s, P)) : /\ Nth(P, i) \in P
                                              /\ Picked(s, P)[i] = s[Nth(P, i)]
         /\ \A i, j \in 1 .. Len(Picked(s, P)) : Nth(P, i) = Nth(P, j) => i = j
         /\ \A p \in P : \E i \in 1 .. Len(Picked(s, P)) : Nth(P, i) = p
<1> DEFINE n == Cardinality(P)
           CountTo(p) == Cardinality({q \in P : q < p})
<1>0. IsFiniteSet(P) /\ P \in SUBSET Nat
  <2>1. Len(s) \in Nat
    OBVIOUS
  <2>2. IsFiniteSet(1 .. Len(s)) /\ P \subseteq 1 .. Len(s)
    BY <2>1, FS_Interval
  <2>3. IsFiniteSet(P)
    BY <2>2, FS_Subset
  <2> QED
    BY <2>1, <2>3
<1>1. /\ n \in Nat
      /\ \A r \in P : CountTo(r) \in 0 .. n - 1
      /\ \A r, t \in P : CountTo(r) = CountTo(t) => r = t
      /\ \A i \in 1 .. n : \E r \in P : CountTo(r) = i - 1
  BY <1>0, PlacesOrdered
<1>2. \A i \in 1 .. n : Nth(P, i) = CHOOSE p \in P : CountTo(p) = i - 1
  BY DEF Nth
<1>3. Picked(s, P) = [i \in 1 .. n |-> s[Nth(P, i)]]
  BY DEF Picked
<1> HIDE DEF n, CountTo
<1>4. \A i \in 1 .. n : Nth(P, i) \in P /\ CountTo(Nth(P, i)) = i - 1
  BY <1>1, <1>2
<1>5. Picked(s, P) \in [1 .. n -> A]
  <2>1. \A p \in P : p \in 1 .. Len(s)
    OBVIOUS
  <2>2. \A p \in P : s[p] \in A
    BY <2>1
  <2>3. \A i \in 1 .. n : s[Nth(P, i)] \in A
    BY <1>4, <2>2
  <2> QED
    BY <1>3, <2>3
<1>6. Picked(s, P) \in Seq(A) /\ Len(Picked(s, P)) = n
  BY <1>1, <1>5
<1>7. ASSUME NEW i \in 1 .. n, NEW j \in 1 .. n, Nth(P, i) = Nth(P, j) PROVE i = j
  <2>1. i - 1 = j - 1
    BY <1>4, <1>7
  <2> QED
    BY <1>1, <2>1
<1>8. ASSUME NEW p \in P PROVE \E i \in 1 .. n : Nth(P, i) = p
  <2>1. CountTo(p) + 1 \in 1 .. n /\ (CountTo(p) + 1) - 1 = CountTo(p)
    BY <1>1
  <2>2. Nth(P, CountTo(p) + 1) = p
    BY <1>1, <1>4, <2>1
  <2> QED
    BY <2>1, <2>2
<1> QED
  BY <1>0, <1>3, <1>4, <1>6, <1>7, <1>8 DEF n

(* Texts put in order are those texts.                                      *)
LEMMA TextsAreOrdered ==
  ASSUME NEW T \in SUBSET Range(TextOrder)
  PROVE  /\ InOrder(T) \in Seq(T)
         /\ \A t \in T : \E i \in 1 .. Len(InOrder(T)) : InOrder(T)[i] = t
         /\ \A i, j \in 1 .. Len(InOrder(T)) : InOrder(T)[i] = InOrder(T)[j] => i = j
<1> DEFINE P == {i \in DOMAIN TextOrder : TextOrder[i] \in T}
           list == Picked(TextOrder, P)
<1>1. TextOrder \in Seq(Range(TextOrder)) /\ DOMAIN TextOrder = 1 .. Len(TextOrder)
  BY IndexQueriesAssumption
<1>2. InOrder(T) = list
  BY DEF InOrder
<1>3. /\ list \in Seq(Range(TextOrder))
      /\ \A i \in 1 .. Len(list) : Nth(P, i) \in P /\ list[i] = TextOrder[Nth(P, i)]
      /\ \A i, j \in 1 .. Len(list) : Nth(P, i) = Nth(P, j) => i = j
      /\ \A p \in P : \E i \in 1 .. Len(list) : Nth(P, i) = p
  <2>1. P \in SUBSET (1 .. Len(TextOrder))
    BY <1>1
  <2> DEFINE R == Range(TextOrder)
  <2>2. TextOrder \in Seq(R)
    BY <1>1
  <2> HIDE DEF P, R
  <2>3. /\ Picked(TextOrder, P) \in Seq(R)
        /\ \A i \in 1 .. Len(Picked(TextOrder, P)) :
              Nth(P, i) \in P /\ Picked(TextOrder, P)[i] = TextOrder[Nth(P, i)]
        /\ \A i, j \in 1 .. Len(Picked(TextOrder, P)) : Nth(P, i) = Nth(P, j) => i = j
        /\ \A p \in P : \E i \in 1 .. Len(Picked(TextOrder, P)) : Nth(P, i) = p
    BY <2>1, <2>2, PickedIs
  <2> QED
    BY <2>3 DEF R
<1>4. \A i \in 1 .. Len(list) : list[i] \in T
  BY <1>3
<1>5. list \in Seq(T)
  <2>1. Len(list) \in Nat /\ list \in [1 .. Len(list) -> T]
    BY <1>3, <1>4
  <2> QED
    BY <2>1
<1>6. ASSUME NEW t \in T PROVE \E i \in 1 .. Len(list) : list[i] = t
  <2>1. PICK p \in DOMAIN TextOrder : TextOrder[p] = t
    BY DEF Range
  <2>2. p \in P
    BY <2>1
  <2> QED
    BY <1>3, <2>1, <2>2
<1>7. ASSUME NEW i \in 1 .. Len(list), NEW j \in 1 .. Len(list), list[i] = list[j]
      PROVE  i = j
  <2>1. /\ Nth(P, i) \in DOMAIN TextOrder /\ Nth(P, j) \in DOMAIN TextOrder
        /\ TextOrder[Nth(P, i)] = TextOrder[Nth(P, j)]
    BY <1>3, <1>7
  <2> QED
    BY <1>3, <2>1, IndexQueriesAssumption
<1> QED
  BY <1>2, <1>5, <1>6, <1>7

-----------------------------------------------------------------------------
(* Texts.                                                                   *)

(* A text's rank is where it stands.                                        *)
LEMMA RankOf ==
  ASSUME NEW t \in Range(TextOrder)
  PROVE  Rank(t) \in Nat /\ TextOrder[Rank(t)] = t
<1>1. DOMAIN TextOrder \subseteq Nat
  BY IndexQueriesAssumption
<1>2. \E i \in DOMAIN TextOrder : TextOrder[i] = t
  BY DEF Range
<1> QED
  BY <1>1, <1>2 DEF Rank

(* Names are compared by package, then receiver, then identifier.           *)
LEMMA PrecedesAt ==
  ASSUME NEW r \in QualifiedNames, NEW s \in QualifiedNames
  PROVE  Precedes(r, s) <=>
            \/ Rank(r[1]) < Rank(s[1])
            \/ r[1] = s[1] /\ Rank(r[2]) < Rank(s[2])
            \/ r[1] = s[1] /\ r[2] = s[2] /\ Rank(r[3]) < Rank(s[3])
<1>1. DOMAIN r = {1, 2, 3}
  BY DEF QualifiedNames
<1>2. 1 .. 1 - 1 = {} /\ 1 .. 2 - 1 = {1} /\ 1 .. 3 - 1 = {1, 2}
  OBVIOUS
<1> QED
  BY <1>1, <1>2 DEF Precedes

(* Names are totally ordered.                                               *)
LEMMA PrecedesOrders ==
  /\ \A r \in QualifiedNames : ~Precedes(r, r)
  /\ \A r, s, t \in QualifiedNames : Precedes(r, s) /\ Precedes(s, t) => Precedes(r, t)
  /\ \A r, s \in QualifiedNames : r # s => Precedes(r, s) \/ Precedes(s, r)
<1>1. \A r \in QualifiedNames, i \in 1 .. 3 :
          /\ r[i] \in Range(TextOrder)
          /\ Rank(r[i]) \in Nat /\ TextOrder[Rank(r[i])] = r[i]
  BY RankOf DEF QualifiedNames
<1>2. 1 \in 1 .. 3 /\ 2 \in 1 .. 3 /\ 3 \in 1 .. 3
  OBVIOUS
<1>3. \A r \in QualifiedNames : ~Precedes(r, r)
  BY <1>1, <1>2, PrecedesAt
<1>4. ASSUME NEW r \in QualifiedNames, NEW s \in QualifiedNames, NEW t \in QualifiedNames,
             Precedes(r, s), Precedes(s, t)
      PROVE  Precedes(r, t)
  BY <1>1, <1>2, <1>4, PrecedesAt
<1>5. ASSUME NEW r \in QualifiedNames, NEW s \in QualifiedNames, r # s
      PROVE  Precedes(r, s) \/ Precedes(s, r)
  <2>1. r[1] # s[1] \/ r[2] # s[2] \/ r[3] # s[3]
    BY <1>5 DEF QualifiedNames
  <2>2. \A i \in 1 .. 3 : r[i] # s[i] => Rank(r[i]) # Rank(s[i])
    BY <1>1
  <2> QED
    BY <1>1, <1>2, <2>1, <2>2, PrecedesAt
<1> QED
  BY <1>3, <1>4, <1>5

(* How many names of a set precede one tells where it stands.               *)
Before(S, r) == Cardinality({s \in S : Precedes(s, r)})

LEMMA PlaceOfEach ==
  ASSUME NEW S \in SUBSET QualifiedNames, IsFiniteSet(S)
  PROVE  /\ Cardinality(S) \in Nat
         /\ \A r \in S : Before(S, r) \in 0 .. Cardinality(S) - 1
         /\ \A r, s \in S : Before(S, r) = Before(S, s) => r = s
         /\ \A i \in 1 .. Cardinality(S) : \E r \in S : Before(S, r) = i - 1
<1> DEFINE less == {x \in QualifiedNames \X QualifiedNames : Precedes(x[1], x[2])}
<1>1. \A r, s \in QualifiedNames : <<r, s>> \in less <=> Precedes(r, s)
  OBVIOUS
<1> HIDE DEF less
<1>2. Orders(less, S)
  <2>1. /\ \A r \in S : ~Precedes(r, r)
        /\ \A r, s, t \in S : Precedes(r, s) /\ Precedes(s, t) => Precedes(r, t)
        /\ \A r, s \in S : r # s => Precedes(r, s) \/ Precedes(s, r)
    BY PrecedesOrders
  <2>2. \A r, s \in S : <<r, s>> \in less <=> Precedes(r, s)
    BY <1>1
  <2> QED
    BY <2>1, <2>2 DEF Orders
<1>3. Placed(less, S)
  BY <1>2, PlaceInOrder
<1>4. \A r \in S : Cardinality(Below(less, S, r)) = Before(S, r)
  <2>1. \A r \in S : Below(less, S, r) = {s \in S : Precedes(s, r)}
    BY <1>1 DEF Below
  <2> QED
    BY <2>1 DEF Before
<1> QED
  BY <1>3, <1>4 DEF Placed

(* Names put in order are those names.                                      *)
LEMMA NamesAreOrdered ==
  ASSUME NEW S \in SUBSET QualifiedNames, IsFiniteSet(S)
  PROVE  /\ NamesInOrder(S) \in Seq(S)
         /\ \A r : r \in S <=> \E i \in 1 .. Len(NamesInOrder(S)) : NamesInOrder(S)[i] = r
         /\ \A i, j \in 1 .. Len(NamesInOrder(S)) :
               NamesInOrder(S)[i] = NamesInOrder(S)[j] => i = j
<1> DEFINE n == Cardinality(S)
           names == NamesInOrder(S)
<1>1. names = [i \in 1 .. n |-> CHOOSE r \in S : Before(S, r) = i - 1]
  BY DEF NamesInOrder, Before
<1>2. n \in Nat
  BY PlaceOfEach
<1>3. \A i \in 1 .. n : names[i] \in S /\ Before(S, names[i]) = i - 1
  BY <1>1, PlaceOfEach
<1>4. names \in Seq(S) /\ Len(names) = n
  <2>1. names \in [1 .. n -> S]
    BY <1>1, <1>3
  <2> QED
    BY <1>2, <2>1
<1>5. ASSUME NEW r \in S PROVE \E i \in 1 .. n : names[i] = r
  <2>1. Before(S, r) + 1 \in 1 .. n /\ Before(S, r) \in Nat
    BY <1>2, PlaceOfEach
  <2>2. names[Before(S, r) + 1] = r
    BY <1>3, <2>1, PlaceOfEach
  <2> QED
    BY <2>1, <2>2
<1>6. ASSUME NEW i \in 1 .. n, NEW j \in 1 .. n, names[i] = names[j] PROVE i = j
  <2>1. i - 1 = j - 1
    BY <1>3, <1>6
  <2> QED
    BY <1>2, <2>1
<1> QED
  BY <1>3, <1>4, <1>5, <1>6

(* Of some names one is the first.                                          *)
LEMMA FirstOfNames ==
  ASSUME NEW S \in SUBSET QualifiedNames, IsFiniteSet(S), S # {}
  PROVE  \E r \in S : \A s \in S : ~Precedes(s, r)
<1>1. Cardinality(S) # 0
  BY FS_EmptySet
<1>2. 1 \in 1 .. Cardinality(S)
  BY <1>1, PlaceOfEach
<1>3. PICK r \in S : Before(S, r) = 0
  <2>1. PICK r \in S : Before(S, r) = 1 - 1
    BY <1>2, PlaceOfEach
  <2> QED
    BY <2>1
<1>4. {s \in S : Precedes(s, r)} = {}
  <2>1. IsFiniteSet({s \in S : Precedes(s, r)})
    BY FS_Subset
  <2> QED
    BY <1>3, <2>1, FS_EmptySet DEF Before
<1> QED
  BY <1>4
SimpleCycle(graph, c) ==
  /\ c \in Seq(QualifiedNames) /\ c # << >>
  /\ \A i, j \in 1 .. Len(c) : c[i] = c[j] => i = j
  /\ \A i \in 1 .. Len(c) : <<c[i], c[(i % Len(c)) + 1]>> \in graph

(* The place that comes i-th when a cycle of n is gone round from place l.  *)
Turn(n, l, i) == IF l + i - 1 <= n THEN l + i - 1 ELSE l + i - 1 - n

LEMMA Remainder ==
  ASSUME NEW n \in Nat \ {0}, NEW x \in Nat, x < 2 * n
  PROVE  x % n = IF x < n THEN x ELSE x - n
OBVIOUS

LEMMA Turning ==
  ASSUME NEW n \in Nat \ {0}, NEW l \in 1 .. n
  PROVE  /\ 1 \in 1 .. n /\ Turn(n, l, 1) = l
         /\ \A i \in 1 .. n : Turn(n, l, i) \in 1 .. n /\ Turn(n, 1, i) = i
         /\ \A i, j \in 1 .. n : Turn(n, l, i) = Turn(n, l, j) => i = j
BY DEF Turn

(* The place after place i.                                                 *)
Following(n, i) == IF i = n THEN 1 ELSE i + 1

LEMMA NextPlace ==
  ASSUME NEW n \in Nat \ {0}, NEW i \in 1 .. n
  PROVE  (i % n) + 1 = Following(n, i) /\ Following(n, i) \in 1 .. n
<1>1. i \in Nat /\ i < 2 * n
  OBVIOUS
<1>2. i % n = IF i < n THEN i ELSE i - n
  BY <1>1, Remainder
<1> QED
  BY <1>2 DEF Following

LEMMA TurnedPlace ==
  ASSUME NEW n \in Nat \ {0}, NEW l \in 1 .. n, NEW i \in 1 .. n
  PROVE  /\ ((l + i - 2) % n) + 1 = Turn(n, l, i)
         /\ Turn(n, l, Following(n, i)) = Following(n, Turn(n, l, i))
<1>1. ((l + i - 2) % n) + 1 = Turn(n, l, i)
  <2> DEFINE x == l + i - 2
  <2>1. x \in Nat /\ x < 2 * n
    OBVIOUS
  <2>2. (IF x < n THEN x ELSE x - n) + 1 = Turn(n, l, i)
    BY DEF Turn
  <2> HIDE DEF x
  <2>3. x % n = IF x < n THEN x ELSE x - n
    BY <2>1, Remainder
  <2>4. (x % n) + 1 = Turn(n, l, i)
    BY <2>2, <2>3
  <2> QED
    BY <2>4 DEF x
<1>2. Turn(n, l, Following(n, i)) = Following(n, Turn(n, l, i))
  BY DEF Turn, Following
<1> QED
  BY <1>1, <1>2

(* A canonical cycle is the cycle gone round from its first name.           *)
LEMMA CanonicalTurns ==
  ASSUME NEW graph, NEW c, SimpleCycle(graph, c)
  PROVE  \E l \in 1 .. Len(c) :
            /\ \A j \in 1 .. Len(c) : ~Precedes(c[j], c[l])
            /\ canonicalCycle(c) = [i \in 1 .. Len(c) |-> c[Turn(Len(c), l, i)]]
<1> DEFINE n == Len(c)
           First(i) == \A j \in 1 .. n : ~Precedes(c[j], c[i])
           l == CHOOSE i \in 1 .. n : First(i)
           S == {c[i] : i \in 1 .. n}
<1>1. n \in Nat \ {0} /\ \A i \in 1 .. n : c[i] \in QualifiedNames
  BY DEF SimpleCycle
<1>2. IsFiniteSet(S) /\ S \in SUBSET QualifiedNames /\ S # {}
  <2>1. IsFiniteSet(1 .. n)
    BY <1>1, FS_Interval
  <2>2. [i \in 1 .. n |-> c[i]] \in Surjection(1 .. n, S)
    BY DEF Surjection
  <2>3. 1 \in 1 .. n
    BY <1>1
  <2> QED
    BY <1>1, <2>1, <2>2, <2>3, FS_Surjection
<1>3. PICK r \in S : \A s \in S : ~Precedes(s, r)
  BY <1>2, FirstOfNames
<1>4. \E i \in 1 .. n : First(i)
  BY <1>3
<1>5. l \in 1 .. n /\ First(l)
  <2> HIDE DEF First
  <2> QED
    BY <1>4
<1>6. canonicalCycle(c) = [i \in 1 .. n |-> c[((l + i - 2) % n) + 1]]
  BY DEF canonicalCycle
<1> HIDE DEF l
<1>7. \A i \in 1 .. n : ((l + i - 2) % n) + 1 = Turn(n, l, i)
  BY <1>1, <1>5, TurnedPlace
<1>8. canonicalCycle(c) = [i \in 1 .. n |-> c[Turn(n, l, i)]]
  BY <1>6, <1>7
<1> QED
  BY <1>5, <1>8

(* What the canonical cycle of a cycle is: a cycle, itself canonical.       *)
LEMMA CanonicalIsCycle ==
  ASSUME NEW graph, NEW c, SimpleCycle(graph, c)
  PROVE  /\ SimpleCycle(graph, canonicalCycle(c))
         /\ canonicalCycle(canonicalCycle(c)) = canonicalCycle(c)
<1> DEFINE n == Len(c)
           d == canonicalCycle(c)
<1>1. n \in Nat \ {0} /\ \A i \in 1 .. n : c[i] \in QualifiedNames
  BY DEF SimpleCycle
<1>2. PICK l \in 1 .. n : /\ \A j \in 1 .. n : ~Precedes(c[j], c[l])
                          /\ d = [i \in 1 .. n |-> c[Turn(n, l, i)]]
  BY CanonicalTurns
<1>3. \A i \in 1 .. n : Turn(n, l, i) \in 1 .. n /\ d[i] = c[Turn(n, l, i)]
  BY <1>1, <1>2, Turning
<1>4. d \in Seq(QualifiedNames) /\ Len(d) = n /\ d # << >>
  BY <1>1, <1>2, <1>3
<1> HIDE DEF d
<1>5. ASSUME NEW i \in 1 .. n, NEW j \in 1 .. n, d[i] = d[j] PROVE i = j
  <2>1. Turn(n, l, i) = Turn(n, l, j)
    BY <1>3, <1>5 DEF SimpleCycle
  <2> QED
    BY <1>1, <2>1, Turning
<1>6. ASSUME NEW i \in 1 .. n PROVE <<d[i], d[(i % n) + 1]>> \in graph
  <2>1. (i % n) + 1 = Following(n, i) /\ Following(n, i) \in 1 .. n
    BY <1>1, NextPlace
  <2>2. Turn(n, l, i) \in 1 .. n /\ (Turn(n, l, i) % n) + 1 = Following(n, Turn(n, l, i))
    BY <1>1, <1>3, NextPlace
  <2>3. Turn(n, l, Following(n, i)) = Following(n, Turn(n, l, i))
    BY <1>1, TurnedPlace
  <2>4. d[i] = c[Turn(n, l, i)] /\ d[(i % n) + 1] = c[(Turn(n, l, i) % n) + 1]
    BY <1>3, <2>1, <2>2, <2>3
  <2> QED
    BY <2>2, <2>4 DEF SimpleCycle
<1>7. SimpleCycle(graph, d)
  BY <1>4, <1>5, <1>6 DEF SimpleCycle
<1>8. PICK k \in 1 .. n : /\ \A j \in 1 .. n : ~Precedes(d[j], d[k])
                          /\ canonicalCycle(d) = [i \in 1 .. n |-> d[Turn(n, k, i)]]
  BY <1>4, <1>7, CanonicalTurns
<1>9. k = 1
  <2>1. 1 \in 1 .. n /\ d[1] = c[l]
    BY <1>1, <1>3, Turning
  <2>2. \A j \in 1 .. n : ~Precedes(d[j], d[1])
    BY <1>2, <1>3, <2>1
  <2>3. d[k] = d[1]
    BY <1>1, <1>3, <1>8, <2>1, <2>2, PrecedesOrders
  <2> QED
    BY <1>5, <2>1, <2>3
<1>10. canonicalCycle(d) = d
  <2>1. \A i \in 1 .. n : Turn(n, 1, i) = i
    BY <1>1, Turning
  <2>2. canonicalCycle(d) = [i \in 1 .. n |-> d[i]]
    BY <1>8, <1>9, <2>1
  <2> QED
    BY <1>4, <2>2
<1> QED
  BY <1>7, <1>10 DEF d

(* A canonical cycle starts at its first name.                              *)
LEMMA CanonicalStarts ==
  ASSUME NEW graph, NEW c, SimpleCycle(graph, c), canonicalCycle(c) = c
  PROVE  \A j \in 1 .. Len(c) : ~Precedes(c[j], c[1])
<1> DEFINE n == Len(c)
<1>1. n \in Nat \ {0} /\ 1 \in 1 .. n
  BY DEF SimpleCycle
<1>2. PICK l \in 1 .. n : /\ \A j \in 1 .. n : ~Precedes(c[j], c[l])
                          /\ canonicalCycle(c) = [i \in 1 .. n |-> c[Turn(n, l, i)]]
  BY CanonicalTurns
<1>3. c[1] = c[l]
  <2>1. Turn(n, l, 1) = l
    BY <1>1, Turning
  <2> QED
    BY <1>1, <1>2, <2>1
<1> QED
  BY <1>2, <1>3

(* The cycles of a graph are the canonical ones.                            *)
LEMMA SimpleCyclesAre ==
  ASSUME NEW graph \in SUBSET (QualifiedNames \X QualifiedNames), IsFiniteSet(graph), NEW c
  PROVE  c \in SimpleCycles(graph) <=> SimpleCycle(graph, c) /\ canonicalCycle(c) = c
<1> DEFINE names == {x[1] : x \in graph}
<1>1. IsFiniteSet(names) /\ names \subseteq QualifiedNames
  <2>1. [x \in graph |-> x[1]] \in Surjection(graph, names)
    BY DEF Surjection
  <2> QED
    BY <2>1, FS_Surjection
<1>2. ASSUME c \in SimpleCycles(graph) PROVE SimpleCycle(graph, c) /\ canonicalCycle(c) = c
  <2>1. PICK s \in SUBSET names : c \in SetToSeqs(s)
    BY <1>2 DEF SimpleCycles, SetToAllKPermutations
  <2>2. IsFiniteSet(s) /\ Cardinality(s) \in Nat
    BY <1>1, <2>1, FS_Subset, FS_CardinalityType
  <2>3. /\ c \in [1 .. Cardinality(s) -> s]
        /\ \A i, j \in 1 .. Cardinality(s) : i # j => c[i] # c[j]
    BY <2>1 DEF SetToSeqs
  <2>4. c \in Seq(QualifiedNames) /\ Len(c) = Cardinality(s)
    <3>1. c \in [1 .. Cardinality(s) -> QualifiedNames]
      BY <1>1, <2>1, <2>3
    <3> QED
      BY <2>2, <3>1
  <2>5. /\ c # << >> /\ canonicalCycle(c) = c
        /\ \A i \in 1 .. Len(c) : <<c[i], c[(i % Len(c)) + 1]>> \in graph
    BY <1>2 DEF SimpleCycles
  <2> QED
    BY <2>3, <2>4, <2>5 DEF SimpleCycle
<1>3. ASSUME SimpleCycle(graph, c), canonicalCycle(c) = c PROVE c \in SimpleCycles(graph)
  <2> DEFINE s == {c[i] : i \in 1 .. Len(c)}
  <2>1. Len(c) \in Nat /\ c \in [1 .. Len(c) -> s]
    BY <1>3 DEF SimpleCycle
  <2>2. s \subseteq names
    <3>1. ASSUME NEW i \in 1 .. Len(c) PROVE c[i] \in names
      <4>1. <<c[i], c[(i % Len(c)) + 1]>> \in graph
        BY <1>3 DEF SimpleCycle
      <4>2. <<c[i], c[(i % Len(c)) + 1]>>[1] = c[i]
        OBVIOUS
      <4> QED
        BY <4>1, <4>2
    <3> QED
      BY <3>1
  <2>3. c \in Surjection(1 .. Len(c), s) /\ c \in Injection(1 .. Len(c), s)
    BY <1>3, <2>1 DEF Surjection, Injection, IsInjective, SimpleCycle
  <2>4. IsFiniteSet(1 .. Len(c)) /\ Cardinality(1 .. Len(c)) = Len(c)
    <3> DEFINE n == Len(c)
    <3>1. n \in Nat
      BY <2>1
    <3> HIDE DEF n
    <3>2. IsFiniteSet(1 .. n) /\ Cardinality(1 .. n) = n
      BY <3>1, FS_Interval
    <3> QED
      BY <3>2 DEF n
  <2>5. Cardinality(s) = Len(c)
    BY <2>3, <2>4, FS_Surjection
  <2>6. c \in SetToSeqs(s)
    <3>1. \A i, j \in 1 .. Cardinality(s) : i # j => c[i] # c[j]
      BY <1>3, <2>5 DEF SimpleCycle
    <3>2. c \in [1 .. Cardinality(s) -> s]
      BY <2>1, <2>5
    <3> HIDE DEF s
    <3> QED
      BY <3>1, <3>2 DEF SetToSeqs
  <2>7. c \in SetToAllKPermutations(names)
    BY <2>2, <2>6 DEF SetToAllKPermutations
  <2> QED
    BY <1>3, <2>7 DEF SimpleCycles, SimpleCycle
<1> QED
  BY <1>2, <1>3

(* There are finitely many cycles.                                          *)
LEMMA FinitelyManyCycles ==
  ASSUME NEW graph \in SUBSET (QualifiedNames \X QualifiedNames), IsFiniteSet(graph)
  PROVE  IsFiniteSet(SimpleCycles(graph)) /\ Cardinality(SimpleCycles(graph)) \in Nat
<1> DEFINE names == {x[1] : x \in graph}
           n == Cardinality(names)
           pairs == (1 .. n) \X names
           f == [c \in SimpleCycles(graph) |-> {<<i, c[i]>> : i \in 1 .. Len(c)}]
<1>1. IsFiniteSet(names)
  <2>1. [x \in graph |-> x[1]] \in Surjection(graph, names)
    BY DEF Surjection
  <2> QED
    BY <2>1, FS_Surjection
<1>2. n \in Nat /\ IsFiniteSet(1 .. n)
  BY <1>1, FS_CardinalityType, FS_Interval
<1>3. IsFiniteSet(SUBSET pairs)
  BY <1>1, <1>2, FS_Product, FS_SUBSET
<1>4. ASSUME NEW c \in SimpleCycles(graph)
      PROVE  /\ Len(c) \in Nat /\ Len(c) <= n /\ DOMAIN c = 1 .. Len(c)
             /\ c = [i \in 1 .. Len(c) |-> c[i]]
             /\ \A i \in 1 .. Len(c) : c[i] \in names
  <2>1. PICK s \in SUBSET names : c \in SetToSeqs(s)
    BY DEF SimpleCycles, SetToAllKPermutations
  <2>2. Cardinality(s) \in Nat /\ Cardinality(s) <= n
    BY <1>1, <1>2, <2>1, FS_Subset, FS_CardinalityType
  <2>3. c \in [1 .. Cardinality(s) -> s]
    BY <2>1 DEF SetToSeqs
  <2>4. c \in Seq(s) /\ Len(c) = Cardinality(s)
    BY <2>2, <2>3
  <2> QED
    BY <2>1, <2>2, <2>3, <2>4
<1>5. ASSUME NEW c \in SimpleCycles(graph) PROVE f[c] \subseteq pairs
  <2>1. \A i \in 1 .. Len(c) : i \in 1 .. n /\ c[i] \in names
    BY <1>2, <1>4
  <2> HIDE DEF n, names
  <2>2. \A i \in 1 .. Len(c) : <<i, c[i]>> \in (1 .. n) \X names
    BY <2>1
  <2> QED
    BY <2>2
<1>6. ASSUME NEW c \in SimpleCycles(graph), NEW d \in SimpleCycles(graph), f[c] = f[d]
      PROVE  c = d
  <2>1. \A i \in 1 .. Len(c) : i \in 1 .. Len(d) /\ c[i] = d[i]
    <3> SUFFICES ASSUME NEW i \in 1 .. Len(c) PROVE i \in 1 .. Len(d) /\ c[i] = d[i]
      OBVIOUS
    <3>1. <<i, c[i]>> \in f[d]
      BY <1>6
    <3>2. PICK j \in 1 .. Len(d) : <<i, c[i]>> = <<j, d[j]>>
      BY <3>1
    <3> QED
      BY <3>2
  <2>2. \A i \in 1 .. Len(d) : i \in 1 .. Len(c)
    <3> SUFFICES ASSUME NEW i \in 1 .. Len(d) PROVE i \in 1 .. Len(c)
      OBVIOUS
    <3>1. <<i, d[i]>> \in f[c]
      BY <1>6
    <3>2. PICK j \in 1 .. Len(c) : <<i, d[i]>> = <<j, c[j]>>
      BY <3>1
    <3> QED
      BY <3>2
  <2>3. 1 .. Len(c) = 1 .. Len(d)
    BY <2>1, <2>2
  <2>4. [i \in 1 .. Len(c) |-> c[i]] = [i \in 1 .. Len(d) |-> d[i]]
    BY <2>1, <2>3
  <2> QED
    BY <1>4, <2>4
<1>7. f \in Injection(SimpleCycles(graph), SUBSET pairs)
  <2>1. f \in [SimpleCycles(graph) -> SUBSET pairs]
    BY <1>5
  <2> HIDE DEF f
  <2> QED
    BY <1>6, <2>1 DEF Injection, IsInjective
<1> QED
  BY <1>3, <1>7, FS_Injection, FS_CardinalityType

-----------------------------------------------------------------------------
(* The search for cycles.                                                   *)

Frames == [node : QualifiedNames, root : QualifiedNames, rest : Seq(QualifiedNames)]

(* The names on the stack are a path from the root, and what is left of a   *)
(* frame are neighbours of its name.                                        *)
OnTrail(graph, stack) ==
  /\ \A i \in 1 .. Len(stack) : stack[i].root = stack[1].node
  /\ \A i, j \in 1 .. Len(stack) : stack[i].node = stack[j].node => i = j
  /\ \A i \in 1 .. Len(stack) - 1 : <<stack[i].node, stack[i + 1].node>> \in graph
  /\ \A i \in 1 .. Len(stack) : \A k \in 1 .. Len(stack[i].rest) :
        <<stack[i].node, stack[i].rest[k]>> \in graph

(* What is listed are cycles, none of them twice.                           *)
WellListed(graph, cycles) ==
  /\ Len(cycles) <= maxCycles
  /\ \A i \in 1 .. Len(cycles) : SimpleCycle(graph, cycles[i])
  /\ \A i, j \in 1 .. Len(cycles) :
        canonicalCycle(cycles[i]) = canonicalCycle(cycles[j]) => i = j

Known(cycles, c) == \E i \in 1 .. Len(cycles) : canonicalCycle(cycles[i]) = c

ToStart(roots, c) == \E i \in 1 .. Len(roots) : roots[i] = c[1]

(* The stack has the beginning of a cycle, and its next name is still to be *)
(* taken there.                                                             *)
Follows(stack, c, k) ==
  /\ k <= Len(c)
  /\ \A j \in 1 .. k : stack[j].node = c[j]

PendingAt(stack, c, k) ==
  /\ Follows(stack, c, k)
  /\ \E i \in 1 .. Len(stack[k].rest) : stack[k].rest[i] = c[(k % Len(c)) + 1]

Pending(stack, c) == \E k \in 1 .. Len(stack) : PendingAt(stack, c, k)

NoneMissed(graph, roots, stack, cycles) ==
  Len(cycles) < maxCycles =>
    \A c \in SimpleCycles(graph) :
       Known(cycles, c) \/ ToStart(roots, c) \/ Pending(stack, c)

Searches ==
  [op : {"cycles"}, done : BOOLEAN, truncated : BOOLEAN,
   graph : SUBSET (QualifiedNames \X QualifiedNames), roots : Seq(QualifiedNames),
   stack : Seq(Frames), cycles : Seq(Seq(QualifiedNames))]

IsSearch(w) == w \in Searches /\ IsFiniteSet(w.graph)

Stopped(w) ==
  /\ w.stack = << >>
  /\ w.truncated <=> Len(w.cycles) >= maxCycles
  /\ ~w.truncated => w.roots = << >>

SearchInv(w) ==
  /\ IsSearch(w)
  /\ OnTrail(w.graph, w.stack)
  /\ WellListed(w.graph, w.cycles)
  /\ NoneMissed(w.graph, w.roots, w.stack, w.cycles)
  /\ w.done => Stopped(w)

(* A frame has a name's neighbours, if the name is not before the root.     *)
LEMMA FrameOf ==
  ASSUME IsSearch(walk), NEW node \in QualifiedNames, NEW root \in QualifiedNames
  PROVE  LET frame == Frame(node, root) IN
         /\ frame \in Frames /\ frame.node = node /\ frame.root = root
         /\ \A i \in 1 .. Len(frame.rest) : <<node, frame.rest[i]>> \in walk.graph
         /\ ~Precedes(node, root) =>
               \A x : <<node, x>> \in walk.graph =>
                  \E i \in 1 .. Len(frame.rest) : frame.rest[i] = x
<1> DEFINE near == {x[2] : x \in {y \in walk.graph : y[1] = node}}
           frame == Frame(node, root)
           names == NamesInOrder(near)
<1>0. walk.graph \in SUBSET (QualifiedNames \X QualifiedNames) /\ IsFiniteSet(walk.graph)
  BY DEF IsSearch, Searches
<1>1. near \in SUBSET QualifiedNames /\ IsFiniteSet(near)
  <2> DEFINE rows == {y \in walk.graph : y[1] = node}
  <2>1. IsFiniteSet(rows)
    BY <1>0, FS_Subset
  <2>2. [x \in rows |-> x[2]] \in Surjection(rows, near)
    BY DEF Surjection
  <2>3. IsFiniteSet(near)
    BY <2>1, <2>2, FS_Surjection
  <2> QED
    BY <1>0, <2>3
<1>2. \A x : x \in near <=> <<node, x>> \in walk.graph
  <2>1. ASSUME NEW x \in near PROVE <<node, x>> \in walk.graph
    <3>1. PICK y \in walk.graph : y[1] = node /\ y[2] = x
      OBVIOUS
    <3>2. y = <<y[1], y[2]>>
      BY <1>0
    <3> QED
      BY <3>1, <3>2
  <2>2. ASSUME NEW x, <<node, x>> \in walk.graph PROVE x \in near
    <3>1. <<node, x>>[1] = node /\ <<node, x>>[2] = x
      OBVIOUS
    <3> QED
      BY <2>2, <3>1
  <2> QED
    BY <2>1, <2>2
<1>3. names \in Seq(near) /\ \A r : r \in near <=> \E i \in 1 .. Len(names) : names[i] = r
  BY <1>1, NamesAreOrdered
<1>4. /\ frame.node = node /\ frame.root = root
      /\ frame.rest = IF ~Precedes(node, root) THEN names ELSE << >>
      /\ frame = [node |-> frame.node, root |-> frame.root, rest |-> frame.rest]
  BY DEF Frame
<1> HIDE DEF near, names
<1>5. names \in Seq(QualifiedNames)
  BY <1>1, <1>3
<1>6. frame \in Frames
  <2>1. frame.rest \in Seq(QualifiedNames)
    BY <1>4, <1>5
  <2> HIDE DEF frame
  <2> QED
    BY <1>4, <2>1 DEF Frames
<1> HIDE DEF frame
<1>7. ASSUME NEW i \in 1 .. Len(frame.rest) PROVE <<node, frame.rest[i]>> \in walk.graph
  <2>1. CASE Precedes(node, root)
    BY <1>4, <2>1
  <2>2. CASE ~Precedes(node, root)
    <3>1. frame.rest = names
      BY <1>4, <2>2
    <3>2. names[i] \in near
      BY <1>3, <3>1
    <3> QED
      BY <1>2, <3>1, <3>2
  <2> QED
    BY <2>1, <2>2
<1>8. ASSUME ~Precedes(node, root), NEW x, <<node, x>> \in walk.graph
      PROVE  \E i \in 1 .. Len(frame.rest) : frame.rest[i] = x
  BY <1>2, <1>3, <1>4, <1>8
<1> QED
  BY <1>4, <1>6, <1>7, <1>8 DEF frame

(* The search begins.                                                       *)
LEMMA SearchBegins ==
  ASSUME index \in Indexes, NEW request, BeginCycles(request)
  PROVE  SearchInv(walk') /\ walk'.op = "cycles"
<1> DEFINE rows == {e \in index.edges : e.type = request.type}
           graph == {<<e.from, e.to>> : e \in rows}
           ends == {e.from : e \in rows} \cup {e.to : e \in rows}
           roots == NamesInOrder(ends)
<1>1. walk' = [op |-> "cycles", done |-> FALSE, truncated |-> FALSE, graph |-> graph,
               roots |-> roots, stack |-> << >>, cycles |-> << >>]
  BY DEF BeginCycles
<1>2. IsFiniteSet(rows) /\ \A e \in rows : e.from \in QualifiedNames /\ e.to \in QualifiedNames
  <2>1. IsFiniteSet(rows)
    BY IndexQueriesAssumption, FS_Subset
  <2>2. \A e \in index.edges : e.from \in QualifiedNames /\ e.to \in QualifiedNames
    BY CallGraphAssumption
  <2> QED
    BY <2>1, <2>2
<1>3. IsFiniteSet(graph) /\ graph \in SUBSET (QualifiedNames \X QualifiedNames)
  <2>1. [e \in rows |-> <<e.from, e.to>>] \in Surjection(rows, graph)
    BY DEF Surjection
  <2>2. IsFiniteSet(graph)
    BY <1>2, <2>1, FS_Surjection
  <2> QED
    BY <1>2, <2>2
<1>4. IsFiniteSet(ends) /\ ends \in SUBSET QualifiedNames
  <2>1. [e \in rows |-> e.from] \in Surjection(rows, {e.from : e \in rows})
    BY DEF Surjection
  <2>2. [e \in rows |-> e.to] \in Surjection(rows, {e.to : e \in rows})
    BY DEF Surjection
  <2>3. IsFiniteSet({e.from : e \in rows}) /\ IsFiniteSet({e.to : e \in rows})
    BY <1>2, <2>1, <2>2, FS_Surjection
  <2>4. IsFiniteSet(ends)
    BY <2>3, FS_Union
  <2> QED
    BY <1>2, <2>4
<1>5. roots \in Seq(ends) /\ \A r : r \in ends <=> \E i \in 1 .. Len(roots) : roots[i] = r
  BY <1>4, NamesAreOrdered
<1>6. \A x, y : <<x, y>> \in graph => x \in ends
  <2> SUFFICES ASSUME NEW x, NEW y, <<x, y>> \in graph PROVE x \in ends
    OBVIOUS
  <2>1. PICK e \in rows : <<x, y>> = <<e.from, e.to>>
    OBVIOUS
  <2>2. x = e.from
    BY <2>1
  <2> QED
    BY <2>2
<1> HIDE DEF graph, roots, ends
<1>7. /\ walk'.graph = graph /\ walk'.roots = roots /\ walk'.stack = << >>
      /\ walk'.cycles = << >> /\ walk'.done = FALSE /\ walk'.op = "cycles"
      /\ walk'.truncated = FALSE
  BY <1>1
<1>8. IsSearch(walk')
  <2>1. roots \in Seq(QualifiedNames)
    BY <1>4, <1>5
  <2>2. << >> \in Seq(Frames) /\ << >> \in Seq(Seq(QualifiedNames))
    OBVIOUS
  <2> QED
    BY <1>1, <1>3, <1>7, <2>1, <2>2 DEF IsSearch, Searches
<1>9. OnTrail(graph, << >>) /\ WellListed(graph, << >>)
  <2>1. Len(<< >>) = 0 /\ 1 .. 0 = {} /\ 1 .. 0 - 1 = {}
    OBVIOUS
  <2>0. maxCycles \in Nat /\ 0 <= maxCycles
    <3>1. maxCycles \in Nat \ {0}
      BY CallGraphAssumption, Zenon
    <3> QED
      BY <3>1
  <2>2. OnTrail(graph, << >>)
    BY <2>1 DEF OnTrail
  <2> QED
    BY <2>0, <2>1, <2>2 DEF WellListed
<1>10. NoneMissed(graph, roots, << >>, << >>)
  <2> SUFFICES ASSUME NEW c \in SimpleCycles(graph) PROVE ToStart(roots, c)
    BY DEF NoneMissed
  <2>1. SimpleCycle(graph, c)
    BY <1>3, SimpleCyclesAre
  <2>2. 1 \in 1 .. Len(c)
    BY <2>1 DEF SimpleCycle
  <2>3. c[1] \in ends
    BY <1>6, <2>1, <2>2 DEF SimpleCycle
  <2> QED
    BY <1>5, <2>3 DEF ToStart
<1> QED
  BY <1>7, <1>8, <1>9, <1>10 DEF SearchInv

(* The search goes on only while it is not done and may list more.          *)
LEMMA SearchGoesOn ==
  ASSUME SearchInv(walk), Searching,
         NEW roots \in Seq(QualifiedNames), NEW stack \in Seq(Frames),
         NEW cycles \in Seq(Seq(QualifiedNames)),
         walk' = [walk EXCEPT !.roots = roots, !.stack = stack, !.cycles = cycles],
         OnTrail(walk.graph, stack), WellListed(walk.graph, cycles),
         NoneMissed(walk.graph, roots, stack, cycles)
  PROVE  SearchInv(walk') /\ walk'.op = "cycles"
<1>1. walk \in Searches /\ IsFiniteSet(walk.graph)
  BY DEF SearchInv, IsSearch
<1>2. /\ walk'.op = "cycles" /\ walk'.graph = walk.graph /\ walk'.roots = roots
      /\ walk'.stack = stack /\ walk'.cycles = cycles /\ walk'.done = walk.done
      /\ walk' \in Searches
  BY <1>1 DEF Searches
<1>3. IsSearch(walk') /\ ~walk'.done
  BY <1>1, <1>2 DEF IsSearch, Searching
<1> QED
  BY <1>2, <1>3 DEF SearchInv

(* A root is taken.                                                         *)
LEMMA RootTaken ==
  ASSUME SearchInv(walk), NextRoot
  PROVE  SearchInv(walk') /\ walk'.op = "cycles"
<1> DEFINE root == Head(walk.roots)
           frame == Frame(root, root)
           graph == walk.graph
<1>1. /\ Searching /\ walk.stack = << >> /\ walk.roots # << >>
      /\ walk' = [walk EXCEPT !.stack = <<frame>>, !.roots = Tail(walk.roots)]
  BY DEF NextRoot
<1>2. /\ IsSearch(walk) /\ walk.roots \in Seq(QualifiedNames)
      /\ graph \in SUBSET (QualifiedNames \X QualifiedNames) /\ IsFiniteSet(graph)
      /\ walk.cycles \in Seq(Seq(QualifiedNames))
      /\ WellListed(graph, walk.cycles)
      /\ NoneMissed(graph, walk.roots, << >>, walk.cycles)
  BY <1>1 DEF SearchInv, IsSearch, Searches
<1>3. /\ root \in QualifiedNames /\ Tail(walk.roots) \in Seq(QualifiedNames)
      /\ \A i \in 1 .. Len(walk.roots) : i = 1 \/ i - 1 \in 1 .. Len(Tail(walk.roots))
      /\ \A i \in 1 .. Len(walk.roots) : i # 1 => Tail(walk.roots)[i - 1] = walk.roots[i]
      /\ walk.roots[1] = root
  BY <1>1, <1>2
<1>4. /\ frame \in Frames /\ frame.node = root /\ frame.root = root
      /\ \A i \in 1 .. Len(frame.rest) : <<root, frame.rest[i]>> \in graph
      /\ \A x : <<root, x>> \in graph => \E i \in 1 .. Len(frame.rest) : frame.rest[i] = x
  BY <1>2, <1>3, FrameOf, PrecedesOrders
<1> HIDE DEF frame, root
<1> DEFINE stack == <<frame>>
<1>5. stack \in Seq(Frames) /\ Len(stack) = 1 /\ stack[1] = frame
  BY <1>4
<1> HIDE DEF stack
<1>6. OnTrail(graph, stack)
  BY <1>4, <1>5 DEF OnTrail
<1>7. NoneMissed(graph, Tail(walk.roots), stack, walk.cycles)
  <2> SUFFICES ASSUME Len(walk.cycles) < maxCycles, NEW c \in SimpleCycles(graph),
                      ~Known(walk.cycles, c), ~ToStart(Tail(walk.roots), c)
               PROVE  Pending(stack, c)
    BY DEF NoneMissed
  <2>1. SimpleCycle(graph, c)
    BY <1>2, SimpleCyclesAre
  <2>2. ~Pending(<< >>, c)
    BY DEF Pending
  <2>3. ToStart(walk.roots, c)
    BY <1>2, <2>2 DEF NoneMissed
  <2>4. c[1] = root
    BY <1>3, <2>3 DEF ToStart
  <2>5. 1 \in 1 .. Len(c) /\ Len(c) \in Nat /\ 1 .. 1 = {1}
    BY <2>1 DEF SimpleCycle
  <2>6. <<root, c[(1 % Len(c)) + 1]>> \in graph
    BY <2>1, <2>4, <2>5 DEF SimpleCycle
  <2>7. PendingAt(stack, c, 1)
    BY <1>4, <1>5, <2>4, <2>5, <2>6 DEF PendingAt, Follows
  <2> QED
    BY <1>5, <2>7 DEF Pending
<1>8. walk' = [walk EXCEPT !.roots = Tail(walk.roots), !.stack = stack,
                           !.cycles = walk.cycles]
  <2>1. walk' = [walk EXCEPT !.stack = stack, !.roots = Tail(walk.roots)]
    BY <1>1 DEF stack
  <2> QED
    BY <1>2, <2>1 DEF IsSearch, Searches
<1> QED
  BY <1>1, <1>2, <1>3, <1>5, <1>6, <1>7, <1>8, SearchGoesOn

(* A part of a trail is a trail.                                            *)
LEMMA TrailFront ==
  ASSUME NEW graph, NEW stack \in Seq(Frames), stack # << >>, OnTrail(graph, stack)
  PROVE  /\ Front(stack) \in Seq(Frames) /\ OnTrail(graph, Front(stack))
         /\ Len(Front(stack)) = Len(stack) - 1
         /\ \A i \in 1 .. Len(stack) - 1 : Front(stack)[i] = stack[i]
<1> DEFINE front == Front(stack)
<1>1. /\ front \in Seq(Frames) /\ Len(front) = Len(stack) - 1 /\ Len(stack) \in Nat
      /\ \A i \in 1 .. Len(stack) - 1 : front[i] = stack[i]
  <2> DEFINE n == Len(stack) - 1
  <2>1. n \in Nat /\ \A i \in 1 .. n : stack[i] \in Frames
    OBVIOUS
  <2>2. front = SubSeq(stack, 1, n)
    BY DEF Front
  <2> HIDE DEF n
  <2>3. /\ front \in Seq(Frames) /\ Len(front) = (IF 1 <= n THEN n - 1 + 1 ELSE 0)
        /\ \A i \in 1 .. n - 1 + 1 : front[i] = stack[1 + i - 1]
    BY <2>1, <2>2, SubSeqProperties
  <2>4. Len(front) = n /\ n - 1 + 1 = n /\ \A i \in 1 .. n : 1 + i - 1 = i
    BY <2>1, <2>3
  <2>5. \A i \in 1 .. n : front[i] = stack[i]
    BY <2>3, <2>4
  <2> QED
    BY <2>3, <2>4, <2>5 DEF n
<1> HIDE DEF front
<1>2. \A i \in 1 .. Len(front) : i \in 1 .. Len(stack) /\ front[i] = stack[i]
  BY <1>1
<1>3. \A i \in 1 .. Len(front) : front[i].root = front[1].node
  <2> SUFFICES ASSUME NEW i \in 1 .. Len(front) PROVE front[i].root = front[1].node
    OBVIOUS
  <2>1. 1 \in 1 .. Len(front)
    BY <1>1
  <2> QED
    BY <1>2, <2>1 DEF OnTrail
<1>4. \A i, j \in 1 .. Len(front) : front[i].node = front[j].node => i = j
  BY <1>2 DEF OnTrail
<1>5. \A i \in 1 .. Len(front) - 1 : <<front[i].node, front[i + 1].node>> \in graph
  <2> SUFFICES ASSUME NEW i \in 1 .. Len(front) - 1
               PROVE  <<front[i].node, front[i + 1].node>> \in graph
    OBVIOUS
  <2>1. i \in 1 .. Len(front) /\ i + 1 \in 1 .. Len(front) /\ i \in 1 .. Len(stack) - 1
    BY <1>1
  <2> QED
    BY <1>2, <2>1 DEF OnTrail
<1>6. \A i \in 1 .. Len(front) : \A k \in 1 .. Len(front[i].rest) :
         <<front[i].node, front[i].rest[k]>> \in graph
  BY <1>2 DEF OnTrail
<1> QED
  BY <1>1, <1>3, <1>4, <1>5, <1>6 DEF OnTrail, front

(* A frame on top of a trail.                                               *)
OnTop(graph, stack, frame) ==
  /\ \A i \in 1 .. Len(stack) : stack[i].node # frame.node
  /\ \A k \in 1 .. Len(frame.rest) : <<frame.node, frame.rest[k]>> \in graph
  /\ stack = << >> => frame.root = frame.node
  /\ stack # << >> => /\ frame.root = stack[1].node
                      /\ <<stack[Len(stack)].node, frame.node>> \in graph

Topped(stack, frame, more) ==
  /\ more \in Seq(Frames)
  /\ Len(more) = Len(stack) + 1
  /\ \A i \in 1 .. Len(stack) : more[i] = stack[i]
  /\ more[Len(stack) + 1] = frame

LEMMA ToppedBy ==
  ASSUME NEW stack \in Seq(Frames), NEW frame \in Frames
  PROVE  Topped(stack, frame, Append(stack, frame))
BY DEF Topped

LEMMA TrailGrows ==
  ASSUME NEW graph, NEW stack \in Seq(Frames), OnTrail(graph, stack),
         NEW frame \in Frames, OnTop(graph, stack, frame),
         NEW more, Topped(stack, frame, more)
  PROVE  OnTrail(graph, more)
<1> DEFINE n == Len(stack)
<1>1. /\ more \in Seq(Frames) /\ Len(more) = n + 1 /\ n \in Nat
      /\ \A i \in 1 .. n : more[i] = stack[i]
      /\ more[n + 1] = frame
      /\ stack = << >> <=> n = 0
  BY DEF Topped
<1>0. OnTop(graph, stack, frame)
  OBVIOUS
<1>2. \A i \in 1 .. n + 1 : i \in 1 .. n \/ i = n + 1
  BY <1>1
<1>3. \A i \in 1 .. n + 1 : more[i].root = more[1].node
  <2>1. CASE n = 0
    BY <1>0, <1>1, <1>2, <2>1 DEF OnTop
  <2>2. CASE n # 0
    <3>1. 1 \in 1 .. n /\ more[1] = stack[1] /\ frame.root = stack[1].node
      BY <1>0, <1>1, <2>2 DEF OnTop
    <3>2. \A i \in 1 .. n : more[i].root = stack[1].node
      BY <1>1 DEF OnTrail
    <3> QED
      BY <1>1, <1>2, <3>1, <3>2
  <2> QED
    BY <2>1, <2>2
<1>4. \A i, j \in 1 .. n + 1 : more[i].node = more[j].node => i = j
  BY <1>0, <1>1, <1>2 DEF OnTrail, OnTop
<1>5. ASSUME NEW i \in 1 .. n PROVE <<more[i].node, more[i + 1].node>> \in graph
  <2>1. CASE i = n
    BY <1>0, <1>1, <2>1 DEF OnTop
  <2>2. CASE i # n
    <3>1. i \in 1 .. n - 1 /\ i + 1 \in 1 .. n
      BY <1>1, <2>2
    <3>2. more[i] = stack[i] /\ more[i + 1] = stack[i + 1]
      BY <1>1, <3>1
    <3> QED
      BY <3>1, <3>2 DEF OnTrail
  <2> QED
    BY <2>1, <2>2
<1>6. \A i \in 1 .. n + 1 : \A k \in 1 .. Len(more[i].rest) :
         <<more[i].node, more[i].rest[k]>> \in graph
  BY <1>0, <1>1, <1>2 DEF OnTrail, OnTop
<1>7. n + 1 - 1 = n
  BY <1>1
<1>8. OnTrail(graph, more)
  BY <1>1, <1>3, <1>4, <1>5, <1>6, <1>7 DEF OnTrail
<1> QED
  BY <1>1, <1>8

(* The stack behind the next name of its top.                               *)
LEMMA NamePassed ==
  ASSUME SearchInv(walk), walk.stack # << >>, Top.rest # << >>
  PROVE  LET m == Len(walk.stack)
             next == Head(Top.rest)
         IN  /\ m \in Nat \ {0} /\ Len(Passed) = m /\ Passed \in Seq(Frames)
             /\ OnTrail(walk.graph, Passed)
             /\ \A i \in 1 .. m : Passed[i].node = walk.stack[i].node
             /\ next \in QualifiedNames
             /\ <<walk.stack[m].node, next>> \in walk.graph
             /\ \A c : Pending(walk.stack, c) =>
                   \/ Pending(Passed, c)
                   \/ Follows(walk.stack, c, m) /\ next = c[(m % Len(c)) + 1]
<1> DEFINE stack == walk.stack
           graph == walk.graph
           m == Len(stack)
           top == stack[m]
           next == Head(top.rest)
           after == [top EXCEPT !.rest = Tail(top.rest)]
           front == Front(stack)
           passed == Append(front, after)
<1>0. Top = top /\ Passed = passed
  BY DEF Top, Passed, BelowTop, Last
<1>1. stack \in Seq(Frames) /\ OnTrail(graph, stack) /\ stack # << >> /\ top.rest # << >>
  BY <1>0 DEF SearchInv, IsSearch, Searches
<1> HIDE DEF stack, graph
<1>2. m \in Nat \ {0} /\ m \in 1 .. m /\ top \in Frames
  BY <1>1
<1>3. /\ front \in Seq(Frames) /\ OnTrail(graph, front) /\ Len(front) = m - 1
      /\ \A i \in 1 .. m - 1 : front[i] = stack[i]
  BY <1>1, TrailFront
<1> HIDE DEF front, top
<1>4. /\ next \in QualifiedNames /\ next = top.rest[1] /\ 1 \in 1 .. Len(top.rest)
      /\ Tail(top.rest) \in Seq(QualifiedNames)
      /\ \A i \in 1 .. Len(top.rest) :
            i = 1 \/ (i - 1 \in 1 .. Len(Tail(top.rest)) /\ Tail(top.rest)[i - 1] = top.rest[i])
      /\ \A i \in 1 .. Len(Tail(top.rest)) :
            i + 1 \in 1 .. Len(top.rest) /\ Tail(top.rest)[i] = top.rest[i + 1]
  BY <1>1, <1>2 DEF Frames
<1>5. /\ after \in Frames /\ after.node = top.node /\ after.root = top.root
      /\ after.rest = Tail(top.rest)
  BY <1>2, <1>4 DEF Frames
<1> HIDE DEF after
<1>6. \A k \in 1 .. Len(top.rest) : <<top.node, top.rest[k]>> \in graph
  BY <1>1, <1>2 DEF OnTrail, top
<1>7. \A k \in 1 .. Len(after.rest) : <<after.node, after.rest[k]>> \in graph
  BY <1>4, <1>5, <1>6
<1>8. \A i \in 1 .. Len(front) : front[i].node # after.node
  <2> SUFFICES ASSUME NEW i \in 1 .. m - 1 PROVE stack[i].node # top.node
    BY <1>3, <1>5
  <2>1. i \in 1 .. m /\ i # m
    BY <1>2
  <2> QED
    BY <1>1, <1>2, <2>1 DEF OnTrail, top
<1>9. front = << >> => after.root = after.node
  <2> SUFFICES ASSUME front = << >> PROVE top.root = top.node
    BY <1>5
  <2>1. m = 1
    BY <1>2, <1>3
  <2> QED
    BY <1>1, <1>2, <2>1 DEF OnTrail, top
<1>10. front # << >> => /\ after.root = front[1].node
                        /\ <<front[Len(front)].node, after.node>> \in graph
  <2> SUFFICES ASSUME front # << >>
               PROVE  after.root = front[1].node
                      /\ <<front[Len(front)].node, after.node>> \in graph
    OBVIOUS
  <2>1. 1 \in 1 .. m - 1 /\ m - 1 \in 1 .. m - 1 /\ m - 1 + 1 = m
    BY <1>2, <1>3
  <2>2. front[1] = stack[1] /\ front[Len(front)] = stack[m - 1]
    BY <1>3, <2>1
  <2>3. <<stack[m - 1].node, stack[m - 1 + 1].node>> \in graph
    BY <1>1, <2>1 DEF OnTrail
  <2>4. top.root = stack[1].node
    BY <1>1, <1>2 DEF OnTrail, top
  <2> QED
    BY <1>5, <2>1, <2>2, <2>3, <2>4 DEF top
<1>17. passed = Append(front, after)
  OBVIOUS
<1> HIDE DEF passed
<1>11. /\ passed \in Seq(Frames) /\ OnTrail(graph, passed) /\ Len(passed) = Len(front) + 1
       /\ \A i \in 1 .. Len(front) : passed[i] = front[i]
       /\ passed[Len(front) + 1] = after
  <2>1. OnTop(graph, front, after)
    BY <1>7, <1>8, <1>9, <1>10 DEF OnTop
  <2>2. Topped(front, after, passed)
    BY <1>3, <1>5, <1>17, ToppedBy
  <2>3. OnTrail(graph, passed)
    BY <1>3, <1>5, <2>1, <2>2, TrailGrows
  <2> QED
    BY <2>2, <2>3 DEF Topped
<1>12. /\ Len(passed) = m /\ passed[m] = after
       /\ \A i \in 1 .. m - 1 : passed[i] = stack[i]
       /\ \A i \in 1 .. m : i \in 1 .. m - 1 \/ i = m
  BY <1>2, <1>3, <1>11
<1>13. \A i \in 1 .. m : passed[i].node = stack[i].node
  BY <1>5, <1>12 DEF top
<1>14. ASSUME NEW c, NEW k \in 1 .. m, PendingAt(stack, c, k)
       PROVE  \/ PendingAt(passed, c, k)
              \/ Follows(stack, c, m) /\ next = c[(m % Len(c)) + 1]
  <2>1. \A j \in 1 .. k : j \in 1 .. m
    BY <1>2
  <2>2. Follows(stack, c, k) /\ Follows(passed, c, k)
    BY <1>13, <1>14, <2>1 DEF PendingAt, Follows
  <2>3. CASE k # m
    <3>1. passed[k] = stack[k]
      BY <1>12, <2>3
    <3> QED
      BY <1>14, <2>2, <3>1 DEF PendingAt
  <2>4. CASE k = m
    <3>1. PICK i \in 1 .. Len(top.rest) : top.rest[i] = c[(m % Len(c)) + 1]
      BY <1>14, <2>4 DEF PendingAt, top
    <3>2. CASE i = 1
      BY <1>4, <2>2, <2>4, <3>1, <3>2
    <3>3. CASE i # 1
      <4>1. i - 1 \in 1 .. Len(after.rest) /\ after.rest[i - 1] = c[(m % Len(c)) + 1]
        BY <1>4, <1>5, <3>1, <3>3
      <4> QED
        BY <1>12, <2>2, <2>4, <4>1 DEF PendingAt
    <3> QED
      BY <3>2, <3>3
  <2> QED
    BY <2>3, <2>4
<1>15. \A c : Pending(stack, c) =>
          \/ Pending(passed, c)
          \/ Follows(stack, c, m) /\ next = c[(m % Len(c)) + 1]
  BY <1>12, <1>14 DEF Pending
<1>16. <<top.node, next>> \in graph
  BY <1>4, <1>6
<1> QED
  BY <1>0, <1>2, <1>4, <1>11, <1>12, <1>13, <1>15, <1>16 DEF stack, graph, top

(* What is pending stays so when a frame is put on the stack.               *)
LEMMA PendingStays ==
  ASSUME NEW stack, NEW more, Len(stack) \in Nat, Len(more) \in Nat,
         Len(stack) <= Len(more),
         \A i \in 1 .. Len(stack) : more[i] = stack[i],
         NEW c, Pending(stack, c)
  PROVE  Pending(more, c)
<1>1. PICK k \in 1 .. Len(stack) : PendingAt(stack, c, k)
  BY DEF Pending
<1>2. k \in 1 .. Len(more) /\ \A j \in 1 .. k : more[j] = stack[j]
  OBVIOUS
<1>3. more[k] = stack[k]
  OBVIOUS
<1>4. PendingAt(more, c, k)
  BY <1>1, <1>2, <1>3 DEF PendingAt, Follows
<1> QED
  BY <1>2, <1>4 DEF Pending

(* The names on the stack.                                                  *)
LEMMA NamesOnPath ==
  ASSUME SearchInv(walk)
  PROVE  /\ OnPath \in Seq(QualifiedNames) /\ Len(OnPath) = Len(walk.stack)
         /\ DOMAIN OnPath = 1 .. Len(walk.stack)
         /\ \A i \in 1 .. Len(walk.stack) : OnPath[i] = walk.stack[i].node
<1>1. walk.stack \in Seq(Frames)
  BY DEF SearchInv, IsSearch, Searches
<1>2. OnPath \in [1 .. Len(walk.stack) -> QualifiedNames] /\ Len(walk.stack) \in Nat
  <2>1. /\ DOMAIN walk.stack = 1 .. Len(walk.stack) /\ Len(walk.stack) \in Nat
        /\ \A i \in 1 .. Len(walk.stack) : walk.stack[i] \in Frames
    BY <1>1
  <2>2. \A i \in 1 .. Len(walk.stack) : walk.stack[i].node \in QualifiedNames
    BY <2>1 DEF Frames
  <2> QED
    BY <2>1, <2>2 DEF OnPath
<1>3. \A i \in 1 .. Len(walk.stack) : OnPath[i] = walk.stack[i].node
  BY <1>1 DEF OnPath
<1> QED
  BY <1>2, <1>3

(* A name not on the path is gone down to.                                  *)
LEMMA GoneDown ==
  ASSUME SearchInv(walk), Descend
  PROVE  SearchInv(walk') /\ walk'.op = "cycles"
<1> DEFINE graph == walk.graph
           m == Len(walk.stack)
           next == Head(Top.rest)
           root == Top.root
           frame == Frame(next, root)
           stack == Append(Passed, frame)
<1>1. /\ Searching /\ walk.stack # << >> /\ Top.rest # << >>
      /\ next \notin Range(OnPath) /\ walk' = [walk EXCEPT !.stack = stack]
  BY DEF Descend
<1>2. /\ IsSearch(walk) /\ walk \in Searches
      /\ graph \in SUBSET (QualifiedNames \X QualifiedNames) /\ IsFiniteSet(graph)
      /\ walk.stack \in Seq(Frames) /\ walk.roots \in Seq(QualifiedNames)
      /\ walk.cycles \in Seq(Seq(QualifiedNames))
      /\ WellListed(graph, walk.cycles)
      /\ NoneMissed(graph, walk.roots, walk.stack, walk.cycles)
      /\ OnTrail(graph, walk.stack)
  BY DEF SearchInv, IsSearch, Searches
<1>3. /\ m \in Nat \ {0} /\ Len(Passed) = m /\ Passed \in Seq(Frames)
      /\ OnTrail(graph, Passed)
      /\ \A i \in 1 .. m : Passed[i].node = walk.stack[i].node
      /\ next \in QualifiedNames
      /\ <<walk.stack[m].node, next>> \in graph
      /\ \A c : Pending(walk.stack, c) =>
            \/ Pending(Passed, c)
            \/ Follows(walk.stack, c, m) /\ next = c[(m % Len(c)) + 1]
  BY <1>1, NamePassed
<1>4. /\ root \in QualifiedNames /\ root = walk.stack[1].node
  <2>1. m \in 1 .. m /\ Top = walk.stack[m]
    BY <1>3 DEF Top, Last
  <2> QED
    <3>1. walk.stack[m] \in Frames /\ walk.stack[m].root = walk.stack[1].node
      BY <1>2, <2>1 DEF OnTrail
    <3> QED
      BY <2>1, <3>1 DEF Frames
<1>5. \A i \in 1 .. m : walk.stack[i].node # next
  BY <1>1, NamesOnPath DEF Range
<1>6. /\ frame \in Frames /\ frame.node = next /\ frame.root = root
      /\ \A i \in 1 .. Len(frame.rest) : <<next, frame.rest[i]>> \in graph
      /\ ~Precedes(next, root) =>
            \A x : <<next, x>> \in graph => \E i \in 1 .. Len(frame.rest) : frame.rest[i] = x
  <2>1. IsSearch(walk) /\ next \in QualifiedNames /\ root \in QualifiedNames
    BY <1>2, <1>3, <1>4
  <2> HIDE DEF next, root
  <2> QED
    BY <2>1, FrameOf
<1>12. stack = Append(Passed, frame)
  OBVIOUS
<1> HIDE DEF graph, m, next, root, frame, stack
<1>7. /\ 1 \in 1 .. m /\ m \in 1 .. m /\ Passed # << >>
      /\ \A i \in 1 .. m : Passed[i].node # next
      /\ Passed[1].node = root /\ <<Passed[m].node, next>> \in graph
  BY <1>3, <1>4, <1>5
<1>8. /\ stack \in Seq(Frames) /\ OnTrail(graph, stack) /\ Len(stack) = m + 1
      /\ \A i \in 1 .. m : stack[i] = Passed[i]
      /\ stack[m + 1] = frame
  <2>1. OnTop(graph, Passed, frame)
    BY <1>3, <1>6, <1>7 DEF OnTop
  <2>2. Topped(Passed, frame, stack)
    BY <1>3, <1>6, <1>12, ToppedBy
  <2>3. OnTrail(graph, stack)
    BY <1>3, <1>6, <2>1, <2>2, TrailGrows
  <2> QED
    BY <1>3, <2>2, <2>3 DEF Topped
<1>9. ASSUME NEW c \in SimpleCycles(graph), Follows(walk.stack, c, m),
             next = c[(m % Len(c)) + 1]
      PROVE  Pending(stack, c)
  <2>1. SimpleCycle(graph, c) /\ canonicalCycle(c) = c
    BY <1>2, SimpleCyclesAre DEF graph
  <2>2. Len(c) \in Nat \ {0} /\ m <= Len(c) /\ m \in 1 .. Len(c) /\ 1 \in 1 .. Len(c)
    BY <1>3, <1>9, <2>1 DEF Follows, SimpleCycle
  <2>3. \A j \in 1 .. m : walk.stack[j].node = c[j]
    BY <1>9 DEF Follows
  <2>4. (m % Len(c)) + 1 = Following(Len(c), m)
    BY <2>2, NextPlace
  <2>5. m # Len(c)
    <3> SUFFICES ASSUME m = Len(c) PROVE FALSE
      OBVIOUS
    <3>1. next = c[1]
      BY <1>9, <2>4 DEF Following
    <3> QED
      BY <1>5, <1>7, <2>3, <3>1
  <2>6. next = c[m + 1] /\ m + 1 \in 1 .. Len(c) /\ m + 1 \in Nat
    BY <1>9, <2>2, <2>4, <2>5 DEF Following
  <2>7. ~Precedes(next, root)
    BY <1>4, <1>7, <2>1, <2>3, <2>6, CanonicalStarts
  <2>8. <<next, c[((m + 1) % Len(c)) + 1]>> \in graph
    BY <2>1, <2>6 DEF SimpleCycle
  <2>9. Follows(stack, c, m + 1)
    <3> SUFFICES ASSUME NEW j \in 1 .. m + 1 PROVE stack[j].node = c[j]
      BY <2>2, <2>6 DEF Follows
    <3>1. CASE j = m + 1
      BY <1>6, <1>8, <2>6, <3>1
    <3>2. CASE j # m + 1
      <4>1. j \in 1 .. m
        BY <1>3, <3>2
      <4> QED
        BY <1>3, <1>8, <2>3, <4>1
    <3> QED
      BY <3>1, <3>2
  <2>10. PendingAt(stack, c, m + 1)
    BY <1>6, <1>8, <2>7, <2>8, <2>9 DEF PendingAt
  <2>11. m + 1 \in 1 .. Len(stack)
    BY <1>3, <1>8
  <2> QED
    BY <2>10, <2>11 DEF Pending
<1>10. NoneMissed(graph, walk.roots, stack, walk.cycles)
  <2> SUFFICES ASSUME Len(walk.cycles) < maxCycles, NEW c \in SimpleCycles(graph),
                      ~Known(walk.cycles, c), ~ToStart(walk.roots, c)
               PROVE  Pending(stack, c)
    BY DEF NoneMissed
  <2>1. Pending(walk.stack, c)
    BY <1>2 DEF NoneMissed, graph
  <2>2. ASSUME Pending(Passed, c) PROVE Pending(stack, c)
    <3>1. /\ Len(Passed) \in Nat /\ Len(stack) \in Nat /\ Len(Passed) <= Len(stack)
          /\ \A i \in 1 .. Len(Passed) : stack[i] = Passed[i]
      BY <1>3, <1>8
    <3> QED
      BY <2>2, <3>1, PendingStays
  <2> QED
    BY <1>3, <1>9, <2>1, <2>2
<1>11. walk' = [walk EXCEPT !.roots = walk.roots, !.stack = stack, !.cycles = walk.cycles]
  BY <1>1, <1>2 DEF Searches
<1> QED
  BY <1>1, <1>2, <1>8, <1>10, <1>11, SearchGoesOn DEF graph

(* From a name on the path that is met again, the path is a cycle.          *)
LEMMA PathCloses ==
  ASSUME SearchInv(walk), walk.stack # << >>, Top.rest # << >>,
         NEW i \in DOMAIN OnPath, OnPath[i] = Head(Top.rest)
  PROVE  LET m == Len(walk.stack)
             cycle == SubSeq(OnPath, i, Len(OnPath))
         IN  /\ SimpleCycle(walk.graph, cycle)
             /\ i \in 1 .. m
             /\ Len(cycle) = m - i + 1
             /\ \A j \in 1 .. m - i + 1 : cycle[j] = walk.stack[i + j - 1].node
<1> DEFINE graph == walk.graph
           stack == walk.stack
           m == Len(stack)
           next == Head(Top.rest)
           cycle == SubSeq(OnPath, i, Len(OnPath))
           n == m - i + 1
<1>1. m \in Nat \ {0} /\ <<stack[m].node, next>> \in graph
  BY NamePassed
<1>2. /\ Len(OnPath) = m /\ DOMAIN OnPath = 1 .. m /\ OnPath \in Seq(QualifiedNames)
      /\ \A j \in 1 .. m : OnPath[j] = stack[j].node
  BY NamesOnPath
<1>3. OnTrail(graph, stack)
  BY DEF SearchInv
<1>4. i \in 1 .. m /\ stack[i].node = next
  BY <1>2
<1>5. cycle = SubSeq(OnPath, i, m)
  BY <1>2
<1>6. \A j \in i .. m : j \in 1 .. m
  BY <1>1, <1>4
<1> HIDE DEF graph, stack, m, next, cycle
<1>7. i \in Int /\ m \in Int /\ \A j \in i .. m : OnPath[j] \in QualifiedNames
  BY <1>1, <1>2, <1>4, <1>6
<1>8. /\ cycle \in Seq(QualifiedNames)
      /\ Len(cycle) = IF i <= m THEN m - i + 1 ELSE 0
      /\ \A j \in 1 .. m - i + 1 : cycle[j] = OnPath[i + j - 1]
  BY <1>5, <1>7, SubSeqProperties
<1>9. n \in Nat \ {0} /\ Len(cycle) = n
  BY <1>1, <1>4, <1>8
<1>10. ASSUME NEW j \in 1 .. n
       PROVE  i + j - 1 \in 1 .. m /\ cycle[j] = stack[i + j - 1].node
  <2>1. i + j - 1 \in 1 .. m
    BY <1>1, <1>4
  <2> QED
    BY <1>2, <1>8, <2>1
<1>11. ASSUME NEW j \in 1 .. n, NEW k \in 1 .. n, cycle[j] = cycle[k] PROVE j = k
  <2>1. i + j - 1 = i + k - 1
    BY <1>3, <1>10, <1>11 DEF OnTrail, m
  <2> QED
    BY <1>4, <2>1
<1>12. ASSUME NEW j \in 1 .. n PROVE <<cycle[j], cycle[(j % n) + 1]>> \in graph
  <2>1. (j % n) + 1 = Following(n, j)
    BY <1>9, NextPlace
  <2>2. CASE j = n
    <3>1. (j % n) + 1 = 1
      BY <2>1, <2>2 DEF Following
    <3>2. cycle[1] = next
      <4>1. 1 \in 1 .. n /\ i + 1 - 1 = i
        BY <1>4, <1>9
      <4> QED
        BY <1>4, <1>10, <4>1
    <3>3. cycle[j] = stack[m].node
      <4>1. i + j - 1 = m
        BY <1>1, <1>4, <2>2
      <4> QED
        BY <1>10, <4>1
    <3> QED
      BY <1>1, <3>1, <3>2, <3>3
  <2>3. CASE j # n
    <3>1. (j % n) + 1 = j + 1
      BY <2>1, <2>3 DEF Following
    <3>2. j + 1 \in 1 .. n /\ i + (j + 1) - 1 = (i + j - 1) + 1
      BY <1>4, <1>9, <2>3
    <3>3. i + j - 1 \in 1 .. m - 1
      BY <1>1, <1>4, <1>10, <3>2
    <3>4. cycle[j] = stack[i + j - 1].node /\ cycle[j + 1] = stack[(i + j - 1) + 1].node
      <4>1. cycle[j + 1] = stack[i + (j + 1) - 1].node
        BY <1>10, <3>2
      <4> QED
        BY <1>10, <3>2, <4>1
    <3>5. <<stack[i + j - 1].node, stack[(i + j - 1) + 1].node>> \in graph
      BY <1>3, <3>3 DEF OnTrail, m
    <3> QED
      BY <3>1, <3>4, <3>5
  <2> QED
    BY <2>2, <2>3
<1>13. SimpleCycle(graph, cycle)
  <2>1. cycle # << >>
    BY <1>9
  <2> QED
    BY <1>8, <1>9, <1>11, <1>12, <2>1 DEF SimpleCycle
<1> QED
  BY <1>4, <1>9, <1>10, <1>13 DEF graph, stack, m, cycle

(* A cycle is listed, unless it is.                                         *)
Listing(cycles, cycle, after) ==
  after = IF canonicalCycle(cycle) \in {canonicalCycle(c) : c \in Range(cycles)}
          THEN cycles ELSE Append(cycles, cycle)

LEMMA ListedOnce ==
  ASSUME NEW graph, NEW cycles \in Seq(Seq(QualifiedNames)), WellListed(graph, cycles),
         Len(cycles) < maxCycles, NEW cycle, SimpleCycle(graph, cycle),
         NEW after, Listing(cycles, cycle, after)
  PROVE  /\ after \in Seq(Seq(QualifiedNames)) /\ WellListed(graph, after)
         /\ \A c : Known(cycles, c) => Known(after, c)
         /\ Known(after, canonicalCycle(cycle))
         /\ Len(after) < maxCycles => Len(cycles) < maxCycles
<1>1. Len(cycles) \in Nat /\ cycle \in Seq(QualifiedNames) /\ maxCycles \in Nat
  <2>1. maxCycles \in Nat \ {0}
    BY CallGraphAssumption, Zenon
  <2> QED
    BY <2>1 DEF SimpleCycle
<1>2. canonicalCycle(cycle) \in {canonicalCycle(c) : c \in Range(cycles)}
         <=> Known(cycles, canonicalCycle(cycle))
  <2>1. DOMAIN cycles = 1 .. Len(cycles)
    OBVIOUS
  <2>2. ASSUME canonicalCycle(cycle) \in {canonicalCycle(c) : c \in Range(cycles)}
        PROVE  Known(cycles, canonicalCycle(cycle))
    <3>1. PICK c \in Range(cycles) : canonicalCycle(c) = canonicalCycle(cycle)
      BY <2>2
    <3>2. PICK i \in 1 .. Len(cycles) : cycles[i] = c
      BY <2>1 DEF Range
    <3> QED
      BY <3>1, <3>2 DEF Known
  <2>3. ASSUME Known(cycles, canonicalCycle(cycle))
        PROVE  canonicalCycle(cycle) \in {canonicalCycle(c) : c \in Range(cycles)}
    <3>1. PICK i \in 1 .. Len(cycles) : canonicalCycle(cycles[i]) = canonicalCycle(cycle)
      BY <2>3 DEF Known
    <3>2. cycles[i] \in Range(cycles)
      BY <2>1 DEF Range
    <3> QED
      BY <3>1, <3>2
  <2> QED
    BY <2>2, <2>3
<1>3. CASE Known(cycles, canonicalCycle(cycle))
  <2>1. after = cycles
    BY <1>2, <1>3 DEF Listing
  <2> QED
    BY <1>3, <2>1
<1>4. CASE ~Known(cycles, canonicalCycle(cycle))
  <2> DEFINE n == Len(cycles)
  <2>1. after = Append(cycles, cycle)
    BY <1>2, <1>4 DEF Listing
  <2>2. /\ after \in Seq(Seq(QualifiedNames)) /\ Len(after) = n + 1 /\ after[n + 1] = cycle
        /\ \A i \in 1 .. n : after[i] = cycles[i]
    BY <1>1, <2>1
  <2>3. \A i \in 1 .. n + 1 : i \in 1 .. n \/ i = n + 1
    BY <1>1
  <2>4. \A i \in 1 .. n : i \in 1 .. n + 1 /\ i # n + 1
    BY <1>1
  <2>5. n + 1 \in 1 .. n + 1 /\ n + 1 <= maxCycles
    BY <1>1
  <2> HIDE DEF n
  <2>6. \A i \in 1 .. n : canonicalCycle(cycles[i]) # canonicalCycle(cycle)
    BY <1>4 DEF Known, n
  <2>7. \A i, j \in 1 .. n + 1 : canonicalCycle(after[i]) = canonicalCycle(after[j]) => i = j
    <3>1. \A i, j \in 1 .. n : canonicalCycle(cycles[i]) = canonicalCycle(cycles[j]) => i = j
      BY DEF WellListed, n
    <3> QED
      BY <2>2, <2>3, <2>6, <3>1
  <2>8. \A i \in 1 .. n + 1 : SimpleCycle(graph, after[i])
    <3>1. \A i \in 1 .. n : SimpleCycle(graph, cycles[i])
      BY DEF WellListed, n
    <3> QED
      BY <2>2, <2>3, <3>1
  <2>9. WellListed(graph, after)
    BY <2>2, <2>5, <2>7, <2>8 DEF WellListed
  <2>10. \A c : Known(cycles, c) => Known(after, c)
    BY <2>2, <2>4 DEF Known, n
  <2>11. Known(after, canonicalCycle(cycle))
    BY <2>2, <2>5 DEF Known
  <2> QED
    BY <2>2, <2>9, <2>10, <2>11
<1> QED
  BY <1>3, <1>4

(* A cycle is met.                                                          *)
LEMMA CycleMet ==
  ASSUME SearchInv(walk), Emit
  PROVE  SearchInv(walk') /\ walk'.op = "cycles"
<1> DEFINE graph == walk.graph
           m == Len(walk.stack)
           next == Head(Top.rest)
<1>1. PICK i \in DOMAIN OnPath :
        /\ OnPath[i] = next
        /\ LET cycle == SubSeq(OnPath, i, Len(OnPath))
               known == {canonicalCycle(c) : c \in Range(walk.cycles)}
           IN  walk' = [walk EXCEPT
                  !.stack = Passed,
                  !.cycles = IF canonicalCycle(cycle) \in known THEN walk.cycles
                             ELSE Append(walk.cycles, cycle)]
  BY DEF Emit
<1> DEFINE cycle == SubSeq(OnPath, i, Len(OnPath))
           after == IF canonicalCycle(cycle) \in {canonicalCycle(c) : c \in Range(walk.cycles)}
                    THEN walk.cycles ELSE Append(walk.cycles, cycle)
<1>2. /\ Searching /\ walk.stack # << >> /\ Top.rest # << >>
      /\ walk' = [walk EXCEPT !.stack = Passed, !.cycles = after]
  BY <1>1 DEF Emit
<1>3. /\ walk \in Searches /\ Len(walk.cycles) < maxCycles
      /\ graph \in SUBSET (QualifiedNames \X QualifiedNames) /\ IsFiniteSet(graph)
      /\ walk.stack \in Seq(Frames) /\ walk.roots \in Seq(QualifiedNames)
      /\ walk.cycles \in Seq(Seq(QualifiedNames))
      /\ WellListed(graph, walk.cycles)
      /\ NoneMissed(graph, walk.roots, walk.stack, walk.cycles)
      /\ OnTrail(graph, walk.stack)
  BY <1>2 DEF SearchInv, IsSearch, Searches, Searching
<1>4. /\ m \in Nat \ {0} /\ Len(Passed) = m /\ Passed \in Seq(Frames)
      /\ OnTrail(graph, Passed)
      /\ \A c : Pending(walk.stack, c) =>
            \/ Pending(Passed, c)
            \/ Follows(walk.stack, c, m) /\ next = c[(m % Len(c)) + 1]
  BY <1>2, NamePassed
<1>5. /\ SimpleCycle(graph, cycle) /\ i \in 1 .. m /\ Len(cycle) = m - i + 1
      /\ \A j \in 1 .. m - i + 1 : cycle[j] = walk.stack[i + j - 1].node
  BY <1>1, <1>2, PathCloses
<1>6. walk.stack[i].node = next
  BY <1>1, <1>5, NamesOnPath
<1> HIDE DEF cycle
<1>7. Listing(walk.cycles, cycle, after)
  BY DEF Listing
<1> HIDE DEF after, m, next
<1>8. /\ after \in Seq(Seq(QualifiedNames)) /\ WellListed(graph, after)
      /\ \A c : Known(walk.cycles, c) => Known(after, c)
      /\ Known(after, canonicalCycle(cycle))
      /\ Len(after) < maxCycles => Len(walk.cycles) < maxCycles
  BY <1>3, <1>5, <1>7, ListedOnce
<1>9. ASSUME NEW c \in SimpleCycles(graph), Follows(walk.stack, c, m),
             next = c[(m % Len(c)) + 1]
      PROVE  Known(after, c)
  <2>1. SimpleCycle(graph, c) /\ canonicalCycle(c) = c
    BY <1>3, SimpleCyclesAre
  <2>2. Len(c) \in Nat \ {0} /\ m \in 1 .. Len(c) /\ 1 \in 1 .. Len(c) /\ 1 \in 1 .. m
    BY <1>4, <1>9, <2>1 DEF Follows, SimpleCycle
  <2>3. \A j \in 1 .. m : walk.stack[j].node = c[j] /\ j \in 1 .. Len(c)
    BY <1>4, <1>9, <2>2 DEF Follows
  <2>4. (m % Len(c)) + 1 = Following(Len(c), m) /\ Following(Len(c), m) \in 1 .. Len(c)
    BY <2>2, NextPlace
  <2>5. i = Following(Len(c), m)
    <3>1. c[i] = c[Following(Len(c), m)]
      BY <1>5, <1>6, <1>9, <2>3, <2>4
    <3> QED
      BY <1>5, <2>1, <2>3, <2>4, <3>1 DEF SimpleCycle
  <2>6. m = Len(c) /\ i = 1
    BY <1>4, <1>5, <2>2, <2>5 DEF Following
  <2>7. cycle = c
    <3>1. Len(cycle) = Len(c) /\ cycle \in Seq(QualifiedNames) /\ c \in Seq(QualifiedNames)
      BY <1>4, <1>5, <2>1, <2>6 DEF SimpleCycle
    <3>2. ASSUME NEW j \in 1 .. Len(c) PROVE cycle[j] = c[j]
      <4>1. j \in 1 .. m /\ j \in 1 .. m - i + 1 /\ i + j - 1 = j
        BY <1>4, <2>6
      <4> QED
        BY <1>5, <2>3, <4>1
    <3> QED
      BY <3>1, <3>2
  <2> QED
    BY <1>8, <2>1, <2>7
<1>10. NoneMissed(graph, walk.roots, Passed, after)
  <2> SUFFICES ASSUME Len(after) < maxCycles, NEW c \in SimpleCycles(graph),
                      ~Known(after, c), ~ToStart(walk.roots, c)
               PROVE  Pending(Passed, c)
    BY DEF NoneMissed
  <2>1. Pending(walk.stack, c)
    BY <1>3, <1>8 DEF NoneMissed
  <2> QED
    BY <1>4, <1>9, <2>1
<1>11. walk' = [walk EXCEPT !.roots = walk.roots, !.stack = Passed, !.cycles = after]
  BY <1>2, <1>3 DEF Searches
<1> QED
  BY <1>2, <1>3, <1>4, <1>8, <1>10, <1>11, SearchGoesOn

(* A frame with nothing left is left.                                       *)
LEMMA FrameLeft ==
  ASSUME SearchInv(walk), Return
  PROVE  SearchInv(walk') /\ walk'.op = "cycles"
<1> DEFINE graph == walk.graph
           m == Len(walk.stack)
           front == Front(walk.stack)
<1>1. /\ Searching /\ walk.stack # << >> /\ walk.stack[m].rest = << >>
      /\ walk' = [walk EXCEPT !.stack = front]
  BY DEF Return, Top, Last, BelowTop
<1>2. /\ walk \in Searches
      /\ walk.stack \in Seq(Frames) /\ walk.roots \in Seq(QualifiedNames)
      /\ walk.cycles \in Seq(Seq(QualifiedNames))
      /\ WellListed(graph, walk.cycles)
      /\ NoneMissed(graph, walk.roots, walk.stack, walk.cycles)
      /\ OnTrail(graph, walk.stack)
  BY DEF SearchInv, IsSearch, Searches
<1>3. /\ front \in Seq(Frames) /\ OnTrail(graph, front) /\ Len(front) = m - 1
      /\ \A j \in 1 .. m - 1 : front[j] = walk.stack[j]
  BY <1>1, <1>2, TrailFront
<1>4. m \in Nat \ {0}
  BY <1>1, <1>2
<1> HIDE DEF m, front
<1>5. ASSUME NEW c, Pending(walk.stack, c) PROVE Pending(front, c)
  <2>1. PICK k \in 1 .. m : PendingAt(walk.stack, c, k)
    BY <1>5 DEF Pending, m
  <2>2. k # m
    <3> SUFFICES ASSUME k = m PROVE FALSE
      OBVIOUS
    <3>1. Len(walk.stack[k].rest) = 0
      BY <1>1
    <3>2. 1 .. Len(walk.stack[k].rest) = {}
      BY <3>1
    <3> QED
      BY <2>1, <3>2 DEF PendingAt
  <2>3. k \in 1 .. m - 1 /\ \A j \in 1 .. k : j \in 1 .. m - 1
    BY <1>4, <2>2
  <2>4. PendingAt(front, c, k)
    BY <1>3, <2>1, <2>3 DEF PendingAt, Follows
  <2> QED
    BY <1>3, <2>3, <2>4 DEF Pending
<1>6. NoneMissed(graph, walk.roots, front, walk.cycles)
  BY <1>2, <1>5 DEF NoneMissed
<1>7. walk' = [walk EXCEPT !.roots = walk.roots, !.stack = front, !.cycles = walk.cycles]
  BY <1>1, <1>2 DEF Searches
<1> QED
  BY <1>1, <1>2, <1>3, <1>6, <1>7, SearchGoesOn

(* The search ends.                                                         *)
LEMMA SearchStops ==
  ASSUME SearchInv(walk), StopSearch
  PROVE  SearchInv(walk') /\ walk'.op = "cycles"
<1> DEFINE graph == walk.graph
<1>1. /\ Len(walk.cycles) >= maxCycles \/ (walk.stack = << >> /\ walk.roots = << >>)
      /\ walk' = [walk EXCEPT !.done = TRUE, !.stack = << >>,
                              !.truncated = Len(walk.cycles) >= maxCycles]
  BY DEF StopSearch
<1>2. /\ walk \in Searches /\ IsFiniteSet(graph)
      /\ WellListed(graph, walk.cycles)
      /\ NoneMissed(graph, walk.roots, walk.stack, walk.cycles)
  BY DEF SearchInv, IsSearch
<1> DEFINE truncated == Len(walk.cycles) >= maxCycles
<1>3. Len(walk.cycles) \in Nat /\ maxCycles \in Nat /\ truncated \in BOOLEAN
  <2>1. maxCycles \in Nat \ {0}
    BY CallGraphAssumption, Zenon
  <2>2. walk.cycles \in Seq(Seq(QualifiedNames))
    BY <1>2 DEF Searches
  <2> QED
    BY <2>1, <2>2
<1>4. << >> \in Seq(Frames)
  OBVIOUS
<1>5. /\ walk'.op = "cycles" /\ walk'.graph = graph /\ walk'.roots = walk.roots
      /\ walk'.stack = << >> /\ walk'.cycles = walk.cycles /\ walk'.done = TRUE
      /\ walk'.truncated = truncated /\ walk' \in Searches
  <2> HIDE DEF truncated
  <2>1. walk' = [walk EXCEPT !.done = TRUE, !.stack = << >>, !.truncated = truncated]
    BY <1>1 DEF truncated
  <2> QED
    BY <1>2, <1>3, <1>4, <2>1 DEF Searches
<1>6. IsSearch(walk')
  BY <1>2, <1>5 DEF IsSearch
<1>7. OnTrail(graph, << >>)
  BY DEF OnTrail
<1>8. ~truncated => walk.stack = << >> /\ walk.roots = << >>
  BY <1>1
<1>9. NoneMissed(graph, walk.roots, << >>, walk.cycles)
  <2>1. CASE truncated
    BY <1>3, <2>1 DEF NoneMissed
  <2>2. CASE ~truncated
    BY <1>2, <1>8, <2>2
  <2> QED
    BY <2>1, <2>2
<1>10. Stopped(walk')
  BY <1>5, <1>8 DEF Stopped
<1> QED
  BY <1>2, <1>5, <1>6, <1>7, <1>9, <1>10 DEF SearchInv

-----------------------------------------------------------------------------
(* The questions asked in steps.                                            *)

(* The inductive invariant of the questions asked in steps: what is said of *)
(* a path search and of a search for cycles above.                          *)
CallInv ==
  /\ index \in Indexes
  /\ walk.op = "path" => PathInv(walk, index)
  /\ walk.op = "cycles" => SearchInv(walk)

(* Nothing is asked yet.                                                    *)
LEMMA CallInitially == Init => CallInv
BY DEF Init, Idle, CallInv

(* Every step of a question keeps the invariant.                            *)
LEMMA CallStep == CallInv /\ [CallNext]_vars => CallInv'
<1> SUFFICES ASSUME CallInv, [CallNext]_vars PROVE CallInv'
  OBVIOUS
<1>1. index' = index /\ index \in Indexes
  BY DEF vars, CallNext, BeginCall, FindPath, DetectCycles, CallInv
<1>2. ASSUME walk'.op = "path", PathInv(walk', index) PROVE CallInv'
  BY <1>1, <1>2 DEF CallInv
<1>3. ASSUME walk'.op = "cycles", SearchInv(walk') PROVE CallInv'
  BY <1>1, <1>3 DEF CallInv
<1>4. CASE BeginCall
  <2>1. PICK request \in Requests(index) :
          \/ request.op = "path" /\ BeginPath(request)
          \/ request.op = "cycles" /\ BeginCycles(request)
    BY <1>4 DEF BeginCall
  <2>2. CASE request.op = "path" /\ BeginPath(request)
    BY <1>1, <1>2, <2>2, PathBegins
  <2>3. CASE BeginCycles(request)
    BY <1>1, <1>3, <2>3, SearchBegins
  <2> QED
    BY <2>1, <2>2, <2>3
<1>5. CASE FindPath
  <2>1. PathInv(walk, index)
    BY <1>5 DEF FindPath, CallInv, NoPath, PassVisited, Arrive, TurnBack, Expand, Looking
  <2> QED
    BY <1>1, <1>2, <1>5, <2>1, PathFails, PathPasses, PathArrives, PathTurnsBack, PathExpands
       DEF FindPath
<1>6. CASE DetectCycles
  <2>1. SearchInv(walk)
    BY <1>6 DEF DetectCycles, CallInv, NextRoot, Descend, Emit, Return, StopSearch, Searching
  <2> QED
    BY <1>3, <1>6, <2>1, RootTaken, GoneDown, CycleMet, FrameLeft, SearchStops
       DEF DetectCycles
<1>7. CASE UNCHANGED vars
  BY <1>1, <1>7 DEF CallInv, vars
<1> QED
  BY <1>4, <1>5, <1>6, <1>7 DEF CallNext

(* The invariant holds.                                                     *)
LEMMA CallInvariant == CallSpec => []CallInv
BY CallInitially, CallStep, PTL DEF CallSpec

(* Nothing is left out of a finished search, and nothing listed twice.      *)
LEMMA SearchAnswered ==
  ASSUME SearchInv(walk), walk.done
  PROVE  CyclesComplete
<1> DEFINE graph == walk.graph
           cycles == walk.cycles
           n == Len(cycles)
           listed == {canonicalCycle(c) : c \in Range(cycles)}
           every == SimpleCycles(graph)
<1>1. /\ graph \in SUBSET (QualifiedNames \X QualifiedNames) /\ IsFiniteSet(graph)
      /\ cycles \in Seq(Seq(QualifiedNames)) /\ WellListed(graph, cycles)
      /\ NoneMissed(graph, walk.roots, walk.stack, cycles) /\ Stopped(walk)
  BY DEF SearchInv, IsSearch, Searches
<1>2. n \in Nat /\ DOMAIN cycles = 1 .. n
  BY <1>1
<1>3. maxCycles \in Nat
  <2>1. maxCycles \in Nat \ {0}
    BY CallGraphAssumption, Zenon
  <2> QED
    BY <2>1
<1>4. IsFiniteSet(every) /\ Cardinality(every) \in Nat
  BY <1>1, FinitelyManyCycles
<1> HIDE DEF graph, cycles, n, every
<1>5. \A c : c \in listed <=> \E i \in 1 .. n : canonicalCycle(cycles[i]) = c
  BY <1>2 DEF Range
<1>6. \A i \in 1 .. n : SimpleCycle(graph, cycles[i])
  BY <1>1 DEF WellListed, n
<1>7. listed \subseteq every
  <2> SUFFICES ASSUME NEW i \in 1 .. n PROVE canonicalCycle(cycles[i]) \in every
    BY <1>5
  <2>1. SimpleCycle(graph, cycles[i])
    BY <1>6
  <2>2. /\ SimpleCycle(graph, canonicalCycle(cycles[i]))
        /\ canonicalCycle(canonicalCycle(cycles[i])) = canonicalCycle(cycles[i])
    BY <2>1, CanonicalIsCycle
  <2> QED
    BY <1>1, <2>2, SimpleCyclesAre DEF every
<1> HIDE DEF listed
<1>8. IsFiniteSet(listed) /\ Cardinality(listed) = n
  <2> DEFINE f == [i \in 1 .. n |-> canonicalCycle(cycles[i])]
  <2>1. \A i, j \in 1 .. n : canonicalCycle(cycles[i]) = canonicalCycle(cycles[j]) => i = j
    BY <1>1 DEF WellListed, n
  <2>2. f \in [1 .. n -> listed] /\ \A i \in 1 .. n : f[i] = canonicalCycle(cycles[i])
    BY <1>5
  <2> HIDE DEF f
  <2>3. f \in Surjection(1 .. n, listed)
    BY <1>5, <2>2 DEF Surjection
  <2>4. f \in Injection(1 .. n, listed)
    BY <2>1, <2>2 DEF Injection, IsInjective
  <2>5. IsFiniteSet(1 .. n) /\ Cardinality(1 .. n) = n
    BY <1>2, FS_Interval
  <2> QED
    BY <2>3, <2>4, <2>5, FS_Surjection
<1>9. n <= maxCycles /\ n <= Cardinality(every)
  <2>1. Cardinality(listed) <= Cardinality(every)
    BY <1>4, <1>7, FS_Subset
  <2> QED
    BY <1>1, <1>8, <2>1 DEF WellListed, n
<1>10. n < maxCycles => n = Cardinality(every)
  <2> SUFFICES ASSUME n < maxCycles PROVE every \subseteq listed
    BY <1>7, <1>8
  <2>1. walk.stack = << >> /\ walk.roots = << >>
    BY <1>1, <1>2, <1>3 DEF Stopped, n, cycles
  <2>2. ASSUME NEW c \in every PROVE c \in listed
    <3>1. Known(cycles, c) \/ ToStart(<< >>, c) \/ Pending(<< >>, c)
      BY <1>1, <2>1 DEF NoneMissed, n, every
    <3>2. ~ToStart(<< >>, c) /\ ~Pending(<< >>, c)
      BY DEF ToStart, Pending
    <3> QED
      BY <1>5, <3>1, <3>2 DEF Known, n
  <2> QED
    BY <2>2
<1>11. n = Min({Cardinality(every), maxCycles})
  <2> DEFINE k == Cardinality(every)
  <2> HIDE DEF k
  <2>1. k \in Nat /\ n <= k /\ (n < maxCycles => n = k)
    BY <1>4, <1>9, <1>10 DEF k
  <2>2. n \in {k, maxCycles} /\ \A x \in {k, maxCycles} : n <= x
    BY <1>2, <1>3, <1>9, <2>1
  <2>3. \A x \in {k, maxCycles} : (\A y \in {k, maxCycles} : x <= y) => x = n
    BY <1>2, <1>3, <2>1, <2>2
  <2>4. Min({k, maxCycles}) = n
    <3>1. Min({k, maxCycles})
             = CHOOSE x \in {k, maxCycles} : \A y \in {k, maxCycles} : x <= y
      BY DEF Min
    <3> QED
      BY <2>2, <2>3, <3>1
  <2> QED
    BY <2>4 DEF k
<1>12. Cardinality(every) > maxCycles => walk.truncated
  <2> SUFFICES ASSUME Cardinality(every) > maxCycles PROVE n >= maxCycles
    BY <1>1 DEF Stopped, n, cycles
  <2> QED
    BY <1>2, <1>3, <1>4, <1>10
<1> QED
  BY <1>7, <1>8, <1>11, <1>12 DEF CyclesComplete, listed, every, graph, cycles, n

(* A search for cycles that ends below its bound has listed every simple    *)
(* cycle of the graph, each once, and one that ends at the bound as many as *)
(* it says, and tells so, whatever the index, the edges asked for and the   *)
(* bound (DetectCycles, cycleFinder.dfs).                                   *)
THEOREM CyclesAreComplete == CallSpec => []CyclesComplete
<1>1. CallInv => CyclesComplete
  <2> SUFFICES ASSUME CallInv, walk.op = "cycles", walk.done PROVE CyclesComplete
    BY DEF CyclesComplete
  <2> QED
    BY SearchAnswered DEF CallInv
<1> QED
  BY <1>1, CallInvariant, PTL

-----------------------------------------------------------------------------
(* Paths, and what callers_of, callees_of and affected_tests answer.        *)

(* The edges of a name the walk has been at are among its rows, and the     *)
(* other ends of its rows are where it has been or goes next.               *)
Spread(ix, outgoing, types, at) ==
  /\ \A e \in ix.edges : e.type \in types /\ Near(e, outgoing) \in at.visited => e \in at.rows
  /\ \A e \in at.rows : Far(e, outgoing) \in at.visited \cup at.queue

(* A depth more keeps it so.                                                *)
LEMMA SpreadDeeper ==
  ASSUME NEW ix, NEW outgoing, NEW types, NEW at, Spread(ix, outgoing, types, at),
         NEW next, next = Deeper(ix, outgoing, types, at)
  PROVE  /\ Spread(ix, outgoing, types, next)
         /\ at.rows \subseteq next.rows /\ next.visited = at.visited \cup at.queue
<1>1. /\ next.queue = {Far(e, outgoing) : e \in RowsAt(ix, outgoing, types, at)}
      /\ next.visited = at.visited \cup at.queue
      /\ next.rows = at.rows \cup RowsAt(ix, outgoing, types, at)
  BY DEF Deeper
<1>2. ASSUME NEW e \in ix.edges, e.type \in types, Near(e, outgoing) \in next.visited
      PROVE  e \in next.rows
  <2>1. CASE Near(e, outgoing) \in at.visited
    BY <1>1, <1>2, <2>1 DEF Spread
  <2>2. CASE Near(e, outgoing) \in at.queue \ at.visited
    BY <1>1, <1>2, <2>2 DEF RowsAt
  <2> QED
    BY <1>1, <1>2, <2>1, <2>2
<1>3. ASSUME NEW e \in next.rows PROVE Far(e, outgoing) \in next.visited \cup next.queue
  <2>1. CASE e \in at.rows
    BY <1>1, <2>1 DEF Spread
  <2>2. CASE e \in RowsAt(ix, outgoing, types, at)
    BY <1>1, <2>2
  <2> QED
    BY <1>1, <2>1, <2>2
<1> QED
  BY <1>1, <1>2, <1>3 DEF Spread

(* Edges that lead on from a start, no more of them than the depth, are all *)
(* among the rows.                                                          *)
Leads(h, ix, starts, outgoing, types) ==
  /\ h \in Seq({e \in ix.edges : e.type \in types})
  /\ h # << >>
  /\ Near(h[1], outgoing) \in starts
  /\ \A i \in 1 .. Len(h) - 1 : Far(h[i], outgoing) = Near(h[i + 1], outgoing)

LEMMA TraverseFollows ==
  ASSUME NEW ix, NEW starts, NEW outgoing \in BOOLEAN, NEW depth \in Nat, NEW types,
         NEW h, Leads(h, ix, starts, outgoing, types), Len(h) <= depth
  PROVE  h[Len(h)] \in traverse(ix, starts, outgoing, depth, types)
<1>1. PICK g : Walked(g, ix, starts, outgoing, depth, types)
  BY TraverseTrace
<1>2. /\ g[0] = Surface(starts)
      /\ \A d \in 1 .. depth : g[d] = Deeper(ix, outgoing, types, g[d - 1])
      /\ traverse(ix, starts, outgoing, depth, types) = g[depth].rows
  BY <1>1 DEF Walked
<1>3. /\ g[0].queue = starts /\ g[0].visited = {} /\ g[0].rows = {}
  BY <1>2 DEF Surface
<1>4. /\ Len(h) \in Nat /\ Len(h) >= 1
      /\ \A i \in 1 .. Len(h) : h[i] \in ix.edges /\ h[i].type \in types
  <2>1. h \in Seq({e \in ix.edges : e.type \in types}) /\ h # << >>
    BY DEF Leads
  <2> QED
    BY <2>1
<1> DEFINE T == {d \in 0 .. depth : /\ Spread(ix, outgoing, types, g[d])
                                    /\ \A i \in 1 .. Len(h) : i <= d => h[i] \in g[d].rows}
<1>5. 0 \in T
  BY <1>3 DEF Spread
<1>6. ASSUME NEW d \in 0 .. depth - 1, d \in T PROVE d + 1 \in T
  <2>1. d + 1 \in 1 .. depth /\ (d + 1) - 1 = d /\ d + 1 \in 0 .. depth /\ d \in Nat
    OBVIOUS
  <2> DEFINE at == g[d]
             next == g[d + 1]
  <2>2. next = Deeper(ix, outgoing, types, at)
    BY <1>2, <2>1
  <2>3. Spread(ix, outgoing, types, at)
    BY <1>6
  <2>4. \A i \in 1 .. Len(h) : i <= d => h[i] \in at.rows
    BY <1>6
  <2>5. d = 0 => at.queue = starts
    BY <1>3
  <2> HIDE DEF T, at, next
  <2>6. /\ Spread(ix, outgoing, types, next)
        /\ at.rows \subseteq next.rows /\ next.visited = at.visited \cup at.queue
    BY <2>2, <2>3, SpreadDeeper
  <2>7. ASSUME NEW i \in 1 .. Len(h), i <= d + 1 PROVE h[i] \in next.rows
    <3>1. CASE i <= d
      BY <2>4, <2>6, <3>1
    <3>2. CASE i = d + 1 /\ d = 0
      <4>1. Near(h[1], outgoing) \in next.visited
        BY <2>5, <2>6, <3>2 DEF Leads
      <4> QED
        BY <1>4, <2>6, <3>2, <4>1 DEF Spread
    <3>3. CASE i = d + 1 /\ d # 0
      <4>1. d \in 1 .. Len(h) /\ d \in 1 .. Len(h) - 1
        BY <1>4, <2>1, <3>3
      <4>2. Far(h[d], outgoing) = Near(h[i], outgoing)
        BY <3>3, <4>1 DEF Leads
      <4>3. h[d] \in at.rows
        BY <2>1, <2>4, <4>1
      <4>4. Near(h[i], outgoing) \in next.visited
        BY <2>3, <2>6, <4>2, <4>3 DEF Spread
      <4> QED
        BY <1>4, <2>6, <4>4 DEF Spread
    <3> QED
      BY <1>4, <2>1, <2>7, <3>1, <3>2, <3>3
  <2> QED
    BY <2>1, <2>6, <2>7 DEF T, next
<1>7. depth \in T
  <2>1. depth \in 0 .. depth
    OBVIOUS
  <2> HIDE DEF T
  <2> QED
    BY <1>5, <1>6, <2>1, UpTo
<1> QED
  BY <1>2, <1>4, <1>7

(* What callees_of reaches lies ahead, when no repository is asked for.     *)
Unscoped(request) == request.repo = ""

Within(ix, request, types) ==
  \A e \in traverse(ix, {request.from}, TRUE, request.depth, types) :
      \E n \in 1 .. request.depth : e.to \in Ahead(ix, request)[n]

(* The rows are laid depth by depth, each ahead of the last.                *)
LEMMA TraverseWithin ==
  ASSUME NEW ix, NEW request, request.depth \in Nat, Unscoped(request), NEW types
  PROVE  Within(ix, request, types)
<1> DEFINE starts == {request.from}
           depth == request.depth
           ahead == Ahead(ix, request)
<1>0. \E g : Walked(g, ix, starts, TRUE, depth, types)
  <2>1. depth \in Nat /\ TRUE \in BOOLEAN
    OBVIOUS
  <2> HIDE DEF starts, depth
  <2> QED
    BY <2>1, TraverseTrace
<1>1. PICK g : Walked(g, ix, starts, TRUE, depth, types)
  BY <1>0
<1>2. /\ g[0] = Surface(starts)
      /\ \A d \in 1 .. depth : g[d] = Deeper(ix, TRUE, types, g[d - 1])
      /\ traverse(ix, starts, TRUE, depth, types) = g[depth].rows
  BY <1>1 DEF Walked
<1> DEFINE repo == request.repo
<1>3. ahead[0] = starts /\ \A n \in 1 .. depth : ahead[n] = Onward(ix, repo, ahead[n - 1])
  BY AheadSteps
<1>4. /\ g[0].queue = starts /\ g[0].rows = {}
  BY <1>2 DEF Surface
<1>5. ix.edges \subseteq Steps(ix, repo)
  BY DEF Steps, repoMismatch, Unscoped
<1>6. \A x : Near(x, TRUE) = x.from /\ Far(x, TRUE) = x.to
  BY DEF Near, Far
<1>7. depth \in Nat
  OBVIOUS
<1> HIDE DEF starts, depth, ahead, repo
<1> DEFINE T == {d \in 0 .. depth : /\ g[d].queue \subseteq ahead[d]
                                    /\ \A x \in g[d].rows : \E n \in 1 .. d : x.to \in ahead[n]}
<1>8. 0 \in T
  BY <1>3, <1>4, <1>7
<1>9. ASSUME NEW d \in 0 .. depth - 1, d \in T PROVE d + 1 \in T
  <2>1. d + 1 \in 1 .. depth /\ (d + 1) - 1 = d /\ d + 1 \in 0 .. depth /\ d \in Nat
    BY <1>7
  <2> DEFINE at == g[d]
             next == g[d + 1]
  <2>2. next = Deeper(ix, TRUE, types, at)
    BY <1>2, <2>1
  <2>3. /\ next.queue = {Far(x, TRUE) : x \in RowsAt(ix, TRUE, types, at)}
        /\ next.rows = at.rows \cup RowsAt(ix, TRUE, types, at)
    BY <2>2 DEF Deeper
  <2>4. at.queue \subseteq ahead[d] /\ \A x \in at.rows : \E n \in 1 .. d : x.to \in ahead[n]
    BY <1>9
  <2> HIDE DEF T, at, next
  <2>5. ASSUME NEW x \in RowsAt(ix, TRUE, types, at) PROVE x.to \in ahead[d + 1]
    <3>1. x \in ix.edges /\ x.from \in at.queue
      BY <1>6 DEF RowsAt
    <3>2. ahead[d + 1] = Onward(ix, repo, ahead[d])
      BY <1>3, <2>1
    <3> QED
      BY <1>5, <2>4, <3>1, <3>2 DEF Onward
  <2>6. next.queue \subseteq ahead[d + 1]
    BY <1>6, <2>3, <2>5
  <2>7. ASSUME NEW x \in next.rows PROVE \E n \in 1 .. d + 1 : x.to \in ahead[n]
    <3>1. CASE x \in at.rows
      <4>1. PICK n \in 1 .. d : x.to \in ahead[n]
        BY <2>4, <3>1
      <4>2. n \in 1 .. d + 1
        BY <2>1
      <4> QED
        BY <4>1, <4>2
    <3>2. CASE x \in RowsAt(ix, TRUE, types, at)
      <4>1. d + 1 \in 1 .. d + 1
        BY <2>1
      <4> QED
        BY <2>5, <3>2, <4>1
    <3> QED
      BY <2>3, <3>1, <3>2
  <2> QED
    BY <2>1, <2>6, <2>7 DEF T, next
<1>10. depth \in T
  <2>1. depth \in 0 .. depth
    BY <1>7
  <2> HIDE DEF T
  <2> QED
    BY <1>7, <1>8, <1>9, <2>1, UpTo
<1> QED
  BY <1>2, <1>10 DEF Within, ahead, depth, starts

(* The least of a set of naturals.                                          *)
LEMMA MinOf ==
  ASSUME NEW S \in SUBSET Nat, NEW n \in S, \A m \in S : n <= m
  PROVE  Min(S) = n
<1>1. Min(S) \in S /\ \A m \in S : Min(S) <= m
  BY DEF Min
<1>2. Min(S) \in Nat /\ n \in Nat /\ Min(S) <= n /\ n <= Min(S)
  BY <1>1
<1> QED
  BY <1>2

(* The other way round, a trail of rows leads from its end to its start.    *)
LeadsBack(path, ix, starts, types) ==
  \E h : /\ Leads(h, ix, starts, FALSE, types)
         /\ Len(h) = Len(path) /\ h[Len(h)] = path[1]

LEMMA TrailLeads ==
  ASSUME NEW ix, NEW types, NEW path, NEW from, NEW to, path # << >>,
         Trail(path, from, to, {e \in ix.edges : e.type \in types}), NEW starts
  PROVE  /\ from \in starts => Leads(path, ix, starts, TRUE, types)
         /\ to \in starts => LeadsBack(path, ix, starts, types)
<1> DEFINE S == {e \in ix.edges : e.type \in types}
           n == Len(path)
           h == [i \in 1 .. n |-> path[n + 1 - i]]
<1>1. path \in Seq(S) /\ path # << >>
  BY DEF Trail
<1> HIDE DEF S
<1>2. n \in Nat /\ n >= 1
  BY <1>1
<1>3. /\ path[1].from = from /\ path[n].to = to
      /\ \A i \in 1 .. n - 1 : path[i].to = path[i + 1].from
  BY DEF Trail
<1>4. \A x : /\ Near(x, TRUE) = x.from /\ Far(x, TRUE) = x.to
             /\ Near(x, FALSE) = x.to /\ Far(x, FALSE) = x.from
  BY DEF Near, Far
<1>5. from \in starts => Leads(path, ix, starts, TRUE, types)
  BY <1>1, <1>3, <1>4 DEF Leads, S
<1>6. h \in Seq(S) /\ Len(h) = n /\ h[1] = path[n] /\ h[n] = path[1] /\ h # << >>
  <2>1. h \in [1 .. n -> S]
    BY <1>1, <1>2
  <2>2. h \in Seq(S) /\ Len(h) = n
    BY <1>2, <2>1
  <2>3. n + 1 - 1 = n /\ n + 1 - n = 1 /\ 1 \in 1 .. n /\ n \in 1 .. n
    BY <1>2
  <2>4. h[1] = path[n] /\ h[n] = path[1]
    BY <2>3
  <2> HIDE DEF h
  <2> QED
    BY <1>2, <2>2, <2>4
<1>7. ASSUME NEW i \in 1 .. n - 1 PROVE h[i].from = h[i + 1].to
  <2>1. /\ n - i \in 1 .. n - 1 /\ (n - i) + 1 = n + 1 - i /\ n + 1 - (i + 1) = n - i
        /\ i \in 1 .. n /\ i + 1 \in 1 .. n
    BY <1>2
  <2>2. path[n - i].to = path[n + 1 - i].from
    BY <1>3, <2>1
  <2>3. h[i] = path[n + 1 - i] /\ h[i + 1] = path[n - i]
    BY <2>1
  <2> QED
    BY <2>2, <2>3
<1> HIDE DEF n, h
<1>8. to \in starts => Leads(h, ix, starts, FALSE, types)
  BY <1>3, <1>4, <1>6, <1>7 DEF Leads, S
<1>9. to \in starts => LeadsBack(path, ix, starts, types)
  BY <1>6, <1>8 DEF LeadsBack, n
<1> QED
  BY <1>5, <1>9

(* A search that is over says what the other questions say.                 *)
LEMMA ReachedBoth ==
  ASSUME NEW ix \in Indexes, NEW path, NEW from, NEW to, path # << >>,
         NEW types \in SUBSET allEdgeTypes,
         Trail(path, from, to, {e \in ix.edges : e.type \in types}),
         NEW depth \in Nat, Len(path) <= depth
  PROVE  /\ path[Len(path)] \in traverse(ix, {from}, TRUE, depth, types)
         /\ \A starts : to \in starts => path[1] \in traverse(ix, starts, FALSE, depth, types)
<1>1. path[Len(path)] \in traverse(ix, {from}, TRUE, depth, types)
  <2> DEFINE starts == {from}
             forward == TRUE
  <2>1. from \in starts /\ forward \in BOOLEAN
    OBVIOUS
  <2>2. Leads(path, ix, starts, forward, types)
    BY TrailLeads
  <2> HIDE DEF starts, forward
  <2>3. path[Len(path)] \in traverse(ix, starts, forward, depth, types)
    BY <2>1, <2>2, TraverseFollows
  <2> QED
    BY <2>3 DEF starts, forward
<1>2. ASSUME NEW starts, to \in starts
      PROVE  path[1] \in traverse(ix, starts, FALSE, depth, types)
  <2> DEFINE forward == FALSE
  <2>1. PICK h : /\ Leads(h, ix, starts, forward, types)
                 /\ Len(h) = Len(path) /\ h[Len(h)] = path[1]
    <3>1. LeadsBack(path, ix, starts, types)
      BY <1>2, TrailLeads
    <3> QED
      BY <3>1 DEF LeadsBack
  <2>2. forward \in BOOLEAN
    OBVIOUS
  <2> HIDE DEF forward
  <2>3. h[Len(h)] \in traverse(ix, starts, forward, depth, types)
    <3>1. Len(h) <= depth
      BY <2>1
    <3> QED
      BY <2>1, <2>2, <3>1, TraverseFollows
  <2> QED
    BY <2>1, <2>3 DEF forward
<1> QED
  BY <1>1, <1>2

(* Asked without a repository, callees_of and callers_of leave no row out.  *)
LEMMA UnscopedRows ==
  ASSUME NEW ix, NEW ref, NEW depth, Named(ix, ref) # {}
  PROVE  /\ CalleesOf(ix, ref, depth, allEdgeTypes, "")
               = traverse(ix, {ref}, TRUE, depth, allEdgeTypes)
         /\ traverse(ix, {ref}, FALSE, depth, allEdgeTypes)
               \subseteq CallersOf(ix, ref, depth, allEdgeTypes, "")
<1> DEFINE ahead == traverse(ix, {ref}, TRUE, depth, allEdgeTypes)
           behind == traverse(ix, {ref}, FALSE, depth, allEdgeTypes)
<1>1. CalleesOf(ix, ref, depth, allEdgeTypes, "") = filterEdges(ahead, "")
  BY DEF CalleesOf
<1>2. CallersOf(ix, ref, depth, allEdgeTypes, "")
         = filterEdges(behind \cup dispatchRows(ix, ref), "")
  BY DEF CallersOf
<1> HIDE DEF ahead, behind
<1>3. filterEdges(ahead, "") = ahead
  BY DEF filterEdges, repoMismatch
<1>4. behind \subseteq filterEdges(behind \cup dispatchRows(ix, ref), "")
  BY DEF filterEdges, repoMismatch
<1> QED
  BY <1>1, <1>2, <1>3, <1>4 DEF ahead, behind

(* A path that is found, and has no contract link, is seen from both ends.  *)
LEMMA FoundSeen ==
  ASSUME NEW ix \in Indexes, NEW w, PathInv(w, ix), w.done, w.found,
         \A e \in Range(w.answer) : e.type # "contract"
  PROVE  /\ w.request.to \in {e.to : e \in CalleesOf(ix, w.request.from, w.request.depth,
                                                     allEdgeTypes, "")}
         /\ w.request.from \in {e.from : e \in CallersOf(ix, w.request.to, w.request.depth,
                                                         allEdgeTypes, "")}
         /\ (/\ {e.type : e \in Range(w.answer)} \subseteq {"calls", "references"}
             /\ Head(w.answer).file \in TestFiles) =>
               \A s \in Named(ix, w.request.to) :
                   Head(w.answer).file \in AffectedTests(ix, {s.file}, w.request.depth).callers
<1> DEFINE path == w.answer
           from == w.request.from
           to == w.request.to
           depth == w.request.depth
           S == Steps(ix, w.request.repo)
<1>1. /\ depth \in Nat \ {0} /\ Named(ix, from) # {} /\ Named(ix, to) # {}
  <2>1. w.request \in Requests(ix) /\ w.request.op = "path"
    BY DEF PathInv, IsPath
  <2>2. depth \in Nat \ {0}
    BY <2>1, Depths
  <2> QED
    BY <2>2 DEF PathInv, IsPath
<1>2. Shortest(w, ix)
  BY DEF PathInv, Outcome
<1>3. /\ path # << >> /\ Trail(path, from, to, S) /\ Len(path) <= depth
  <2>1. path # << >> /\ Trail(path, from, to, S) /\ Len(path) \in 1 .. depth
    BY <1>2 DEF Shortest, Distances
  <2> HIDE DEF path, depth
  <2> QED
    BY <1>1, <2>1
<1>4. path \in Seq(S) /\ Len(path) \in Nat /\ Len(path) >= 1
  <2>1. path \in Seq(S) /\ path # << >>
    BY <1>3 DEF Trail
  <2> HIDE DEF path, S
  <2> QED
    BY <2>1
<1>5. \A i \in 1 .. Len(path) : path[i] \in Range(path)
  <2> HIDE DEF path, S
  <2> QED
    BY <1>4 DEF Range
<1>6. ASSUME NEW e \in S, e.type # "contract"
      PROVE  e \in ix.edges /\ e.type \in allEdgeTypes
  <2>1. e \in ix.edges
    <3>1. \A c : contractToEdge(c).type = "contract"
      BY DEF contractToEdge
    <3> QED
      BY <1>6, <3>1 DEF Steps
  <2> QED
    BY <2>1, CallGraphAssumption
<1>7. ASSUME NEW types \in SUBSET allEdgeTypes,
             \A i \in 1 .. Len(path) : path[i].type \in types
      PROVE  /\ path[Len(path)] \in traverse(ix, {from}, TRUE, depth, types)
             /\ \A starts : to \in starts =>
                   path[1] \in traverse(ix, starts, FALSE, depth, types)
  <2> DEFINE rows == {e \in ix.edges : e.type \in types}
  <2>1. \A i \in 1 .. Len(path) : path[i] \in S /\ path[i].type # "contract"
    BY <1>4, <1>5
  <2>2. \A i \in 1 .. Len(path) : path[i] \in rows
    BY <1>6, <1>7, <2>1
  <2>3. path \in Seq(rows)
    <3> HIDE DEF path, rows, S
    <3> QED
      BY <1>4, <2>2
  <2>4. Trail(path, from, to, rows)
    BY <1>3, <2>3 DEF Trail
  <2> HIDE DEF path, from, to, depth, S
  <2> QED
    BY <1>1, <1>3, <2>4, ReachedBoth
<1>8. path[1] \in S /\ path[Len(path)] \in S
      /\ path[1].from = from /\ path[Len(path)].to = to /\ Head(path) = path[1]
  BY <1>3, <1>4 DEF Trail
<1>9. \A i \in 1 .. Len(path) : path[i].type \in allEdgeTypes
  BY <1>4, <1>5, <1>6
<1>10. /\ path[Len(path)] \in traverse(ix, {from}, TRUE, depth, allEdgeTypes)
       /\ path[1] \in traverse(ix, {to}, FALSE, depth, allEdgeTypes)
  BY <1>7, <1>9
<1>11. /\ path[Len(path)] \in CalleesOf(ix, from, depth, allEdgeTypes, "")
       /\ path[1] \in CallersOf(ix, to, depth, allEdgeTypes, "")
  BY <1>1, <1>10, UnscopedRows
<1>12. ASSUME {e.type : e \in Range(path)} \subseteq {"calls", "references"},
              Head(path).file \in TestFiles,
              NEW s \in Named(ix, to)
       PROVE  Head(path).file \in AffectedTests(ix, {s.file}, depth).callers
  <2> DEFINE roots == {x.ref : x \in {y \in ix.symbols : y.file \in {s.file}}}
             types == {"calls", "references"}
  <2>1. to \in roots
    BY DEF Named
  <2>2. types \in SUBSET allEdgeTypes
    BY DEF allEdgeTypes, liveEdgeTypes
  <2>3. \A i \in 1 .. Len(path) : path[i].type \in types
    BY <1>5, <1>12
  <2>4. path[1] \in traverse(ix, roots, FALSE, depth, types)
    <3> HIDE DEF roots, types
    <3> QED
      BY <1>7, <2>1, <2>2, <2>3
  <2>5. AffectedTests(ix, {s.file}, depth).callers
           = {e.file : e \in traverse(ix, roots, FALSE, depth, types)} \cap TestFiles
    BY DEF AffectedTests
  <2> HIDE DEF roots, types
  <2> QED
    BY <1>8, <1>12, <2>4, <2>5
<1> QED
  BY <1>8, <1>11, <1>12

(* What is not found is no callee either.                                   *)
LEMMA UnfoundUnseen ==
  ASSUME NEW ix \in Indexes, NEW w, PathInv(w, ix), w.done, ~w.found,
         Unscoped(w.request), w.request.from # w.request.to
  PROVE  w.request.to \notin {e.to : e \in CalleesOf(ix, w.request.from, w.request.depth,
                                                     allEdgeTypes, "")}
<1>1. w.request \in Requests(ix) /\ w.request.op = "path" /\ Named(ix, w.request.from) # {}
  BY DEF PathInv, IsPath
<1>2. w.request.depth \in Nat \ {0}
  BY <1>1, Depths
<1>3. Distances(ix, w.request) = {}
  BY DEF PathInv, Outcome, Unreached
<1>4. Within(ix, w.request, allEdgeTypes)
  BY <1>2, TraverseWithin
<1>5. \A e \in traverse(ix, {w.request.from}, TRUE, w.request.depth, allEdgeTypes) :
          e.to # w.request.to
  BY <1>3, <1>4 DEF Within, Distances
<1> QED
  BY <1>1, <1>5, UnscopedRows

(* What the invariant says of a search that is over.                        *)
LEMMA PathsAnswered == CallInv => PathsAgree
<1> DEFINE request == walk.request
           distances == Distances(index, request)
           path == walk.answer
<1> SUFFICES ASSUME CallInv, walk.op = "path", walk.done PROVE PathsAgree
  BY DEF PathsAgree
<1>1. index \in Indexes /\ PathInv(walk, index)
  BY DEF CallInv
<1>2. walk.found <=> distances # {} /\ request.from # request.to
  BY <1>1 DEF PathInv, Outcome, Shortest, Unreached
<1>3. ASSUME walk.found
      PROVE  Len(path) = Min(distances) /\ Chained(path, request.from, request.to)
  <2>1. Shortest(walk, index)
    BY <1>1, <1>3 DEF PathInv, Outcome
  <2>2. distances \in SUBSET Nat
    BY DEF Distances
  <2>3. Len(path) = Min(distances)
    <3> HIDE DEF distances, path
    <3>1. Len(path) \in distances /\ \A n \in distances : Len(path) <= n
      BY <2>1 DEF Shortest, distances, path
    <3> QED
      BY <2>2, <3>1, MinOf
  <2>4. Chained(path, request.from, request.to)
    BY <2>1 DEF Shortest, Trail, Chained, Last
  <2> QED
    BY <2>3, <2>4
<1>4. request.repo = "" => Unscoped(request)
  BY DEF Unscoped
<1> HIDE DEF request, distances, path
<1> QED
  BY <1>1, <1>2, <1>3, <1>4, FoundSeen, UnfoundUnseen DEF PathsAgree, request, distances, path

(* Whatever the index, the edges a step reads in whatever order: find_path  *)
(* finds a path exactly when there is one within the depth, a shortest one, *)
(* and callees_of, callers_of and affected_tests agree with it (FindPath,   *)
(* expandPathNode, traverse, collectCallerTests).                           *)
THEOREM PathsAreShortest == CallSpec => []PathsAgree
BY CallInvariant, PathsAnswered, PTL

-----------------------------------------------------------------------------
(* Trees and what git tells of them.                                        *)

(* What a request compares.                                                 *)
IsTree(tree) ==
  \A file \in DOMAIN tree :
     /\ {file, PackageOf(file)} \subseteq Range(TextOrder)
     /\ IsFiniteSet(tree[file])
     /\ \A d \in tree[file] : d.name \in [1 .. 2 -> Range(TextOrder)]

IsDelta(delta) ==
  /\ delta.untracked \subseteq DOMAIN delta.disk
  /\ IsTree(delta.ref) /\ IsTree(delta.disk)

(* Declarations have qualified names, and finitely many of them.            *)
LEMMA RefsAreNames ==
  ASSUME NEW tree, IsTree(tree), NEW file \in DOMAIN tree
  PROVE  Refs(file, tree[file]) \in SUBSET QualifiedNames /\ IsFiniteSet(Refs(file, tree[file]))
<1>1. ASSUME NEW d \in tree[file] PROVE Ref(file, d) \in QualifiedNames
  <2> DEFINE T == Range(TextOrder)
             p == PackageOf(file)
             name == d.name
             front == <<p>>
  <2>1. p \in T /\ name \in [1 .. 2 -> T]
    BY DEF IsTree
  <2>2. Ref(file, d) = front \o name
    BY DEF Ref
  <2> HIDE DEF T, p, name
  <2>3. front \in Seq(T) /\ Len(front) = 1
    BY <2>1
  <2>4. name \in Seq(T)
    <3>1. 2 \in Nat
      OBVIOUS
    <3> QED
      BY <2>1, <3>1, SeqDef
  <2>5. Len(name) = 2
    <3>1. DOMAIN name = 1 .. 2
      BY <2>1
    <3> QED
      BY <2>4, <3>1
  <2> HIDE DEF front
  <2>6. front \o name \in Seq(T) /\ Len(front \o name) = 3
    BY <2>3, <2>4, <2>5, ConcatProperties
  <2> DEFINE ref == front \o name
  <2> HIDE DEF ref
  <2>7. PICK n \in Nat : ref \in [1 .. n -> T]
    <3>1. ref \in Seq(T) /\ Seq(T) = UNION {[1 .. n -> T] : n \in Nat}
      BY <2>6, SeqDef DEF ref
    <3>2. ref \in UNION {[1 .. n -> T] : n \in Nat}
      BY <3>1, Zenon
    <3> QED
      BY <3>2
  <2>8. n = 3
    BY <2>6, <2>7 DEF ref
  <2> QED
    BY <2>2, <2>7, <2>8 DEF QualifiedNames, T, ref
<1>2. Refs(file, tree[file]) = {Ref(file, d) : d \in tree[file]}
  BY DEF Refs
<1>3. IsFiniteSet(tree[file])
  BY DEF IsTree
<1>4. IsFiniteSet({Ref(file, d) : d \in tree[file]})
  <2>1. [d \in tree[file] |-> Ref(file, d)] \in
            Surjection(tree[file], {Ref(file, d) : d \in tree[file]})
    BY DEF Surjection
  <2> QED
    BY <1>3, <2>1, FS_Surjection
<1> QED
  BY <1>1, <1>2, <1>4

(* The name of a declaration gone with its file has two parts.              *)
LEMMA GoneNames ==
  ASSUME NEW f, NEW n PROVE <<f, n>> \notin QualifiedNames
<1>1. DOMAIN <<f, n>> = 1 .. 2
  OBVIOUS
<1>2. 3 \notin 1 .. 2 /\ 3 \in 1 .. 3
  OBVIOUS
<1>3. \A r \in QualifiedNames : DOMAIN r = 1 .. 3
  BY DEF QualifiedNames
<1> QED
  BY <1>1, <1>2, <1>3

(* A shape is that of a declaration of the file.                            *)
LEMMA ShapeIs ==
  ASSUME NEW file, NEW decls, NEW r \in Refs(file, decls)
  PROVE  \E d \in decls : Ref(file, d) = r /\ ShapeOf(file, decls, r) = d.shape
<1>1. \E d \in decls : Ref(file, d) = r
  BY DEF Refs
<1> QED
  BY <1>1 DEF ShapeOf

(* What git lists of a change: each file on disk that differs, and files    *)
(* that are gone.                                                           *)
Statuses == {"M", "D", "R", "A", "?"}

Entries(delta) ==
  {s \in [status : Statuses, path : DOMAIN delta.ref \cup DOMAIN delta.disk,
          old : DOMAIN delta.ref \cup {""}] :
      IF s.status = "D" THEN s.path \in DOMAIN delta.ref \ DOMAIN delta.disk
                        ELSE s.path \in DOMAIN delta.disk}

(* A file on disk that differs from the commit is among some files.         *)
ListsChanges(delta, todo) ==
  \A f \in DOMAIN delta.disk :
     \/ f \in DOMAIN delta.ref /\ delta.ref[f] = delta.disk[f]
     \/ \E i \in 1 .. Len(todo) : todo[i].status # "D" /\ todo[i].path = f

LEMMA StatusesList ==
  ASSUME NEW delta, IsDelta(delta), NEW statuses \in GitFileStatuses(delta)
  PROVE  /\ statuses \in Seq(Entries(delta))
         /\ GitUntrackedFiles(delta) \in Seq(Entries(delta))
         /\ \A i \in 1 .. Len(GitUntrackedFiles(delta)) :
               GitUntrackedFiles(delta)[i].status # "D"
         /\ ListsChanges(delta, statuses \o GitUntrackedFiles(delta))
<1> DEFINE gone == DOMAIN delta.ref \ DOMAIN delta.disk
           new == DOMAIN delta.disk \ (DOMAIN delta.ref \cup delta.untracked)
           edited == {f \in DOMAIN delta.ref \cap DOMAIN delta.disk :
                         delta.ref[f] # delta.disk[f]}
           Status(m, f) ==
             IF f \in edited THEN [status |-> "M", path |-> f, old |-> ""]
             ELSE IF f \in gone THEN [status |-> "D", path |-> f, old |-> ""]
             ELSE IF \E x \in m : x[2] = f
             THEN [status |-> "R", path |-> f,
                   old |-> (CHOOSE x \in m : x[2] = f)[1]]
             ELSE [status |-> "A", path |-> f, old |-> ""]
           Of_(m) == edited \cup new \cup (gone \ {x[1] : x \in m})
           T == Range(TextOrder)
<1>0. DOMAIN delta.ref \subseteq T /\ DOMAIN delta.disk \subseteq T
      /\ delta.untracked \subseteq DOMAIN delta.disk
  BY DEF IsDelta, IsTree
<1>1. PICK m \in SUBSET (gone \X new) :
         statuses = [i \in DOMAIN InOrder(Of_(m)) |-> Status(m, InOrder(Of_(m))[i])]
  BY DEF GitFileStatuses, Files
<1> DEFINE F == Of_(m)
           list == InOrder(F)
<1>2. F \in SUBSET T /\ F \subseteq gone \cup DOMAIN delta.disk
      /\ edited \cup new \subseteq F
      /\ \A f \in DOMAIN delta.disk :
            \/ f \in F
            \/ f \in delta.untracked
            \/ f \in DOMAIN delta.ref /\ delta.ref[f] = delta.disk[f]
  <2>1. F \subseteq T /\ F \subseteq gone \cup DOMAIN delta.disk /\ edited \cup new \subseteq F
    BY <1>0
  <2>2. ASSUME NEW f \in DOMAIN delta.disk
        PROVE  \/ f \in edited \/ f \in new \/ f \in delta.untracked
               \/ f \in DOMAIN delta.ref /\ delta.ref[f] = delta.disk[f]
    OBVIOUS
  <2> HIDE DEF F, edited, new, gone
  <2> QED
    BY <2>1, <2>2
<1> HIDE DEF F
<1>3. /\ list \in Seq(F)
      /\ \A f \in F : \E i \in 1 .. Len(list) : list[i] = f
  BY <1>2, TextsAreOrdered
<1>4. ASSUME NEW f \in F
      PROVE  Status(m, f) \in Entries(delta) /\ Status(m, f).path = f
             /\ (Status(m, f).status = "D" => f \in gone)
  <2>1. f \in gone \/ (f \in DOMAIN delta.disk /\ f \notin gone)
    BY <1>2
  <2>2. CASE f \in edited
    BY <2>2 DEF Entries, Statuses
  <2>3. CASE f \notin edited /\ f \in gone
    BY <2>3 DEF Entries, Statuses
  <2>4. CASE f \notin edited /\ f \notin gone /\ \E x \in m : x[2] = f
    <3>1. (CHOOSE x \in m : x[2] = f) \in m
      BY <2>4
    <3>2. (CHOOSE x \in m : x[2] = f)[1] \in DOMAIN delta.ref
      BY <3>1
    <3> QED
      BY <2>1, <2>4, <3>2 DEF Entries, Statuses
  <2>5. CASE f \notin edited /\ f \notin gone /\ ~ \E x \in m : x[2] = f
    BY <2>1, <2>5 DEF Entries, Statuses
  <2> QED
    BY <2>2, <2>3, <2>4, <2>5
<1> DEFINE untracked == GitUntrackedFiles(delta)
           others == InOrder(delta.untracked)
<1>5. /\ others \in Seq(delta.untracked)
      /\ \A f \in delta.untracked : \E i \in 1 .. Len(others) : others[i] = f
  <2>1. delta.untracked \in SUBSET Range(TextOrder)
    BY <1>0
  <2> QED
    BY <2>1, TextsAreOrdered
<1>6. statuses = [i \in 1 .. Len(list) |-> Status(m, list[i])]
  <2>1. DOMAIN list = 1 .. Len(list)
    BY <1>3
  <2> QED
    BY <1>1, <2>1 DEF F
<1>7. untracked = [i \in 1 .. Len(others) |-> [status |-> "?", path |-> others[i], old |-> ""]]
  <2>1. DOMAIN others = 1 .. Len(others)
    BY <1>5
  <2> QED
    BY <2>1 DEF GitUntrackedFiles
<1> HIDE DEF list, others, untracked
<1>8. \A i \in 1 .. Len(list) : list[i] \in F
  BY <1>3
<1>9. \A i \in 1 .. Len(list) : Status(m, list[i]) \in Entries(delta)
         /\ Status(m, list[i]).path = list[i] /\ (Status(m, list[i]).status = "D" => list[i] \in gone)
  BY <1>4, <1>8
<1> HIDE DEF Status
<1>10. statuses \in Seq(Entries(delta)) /\ Len(statuses) = Len(list)
       /\ \A i \in 1 .. Len(list) : /\ statuses[i].path = list[i]
                                    /\ statuses[i].status = "D" => list[i] \in gone
  <2>1. Len(list) \in Nat
    BY <1>3
  <2>2. statuses \in [1 .. Len(list) -> Entries(delta)]
    BY <1>6, <1>9
  <2>3. statuses \in Seq(Entries(delta)) /\ Len(statuses) = Len(list)
    BY <2>1, <2>2
  <2> QED
    BY <1>6, <1>9, <2>3
<1>11. untracked \in Seq(Entries(delta)) /\ Len(untracked) = Len(others)
       /\ \A i \in 1 .. Len(others) : /\ untracked[i].path = others[i]
                                      /\ untracked[i].status = "?"
  <2>1. Len(others) \in Nat
    BY <1>5
  <2>2. ASSUME NEW i \in 1 .. Len(others)
        PROVE  [status |-> "?", path |-> others[i], old |-> ""] \in Entries(delta)
    <3>1. others[i] \in DOMAIN delta.disk
      BY <1>0, <1>5
    <3> QED
      BY <3>1 DEF Entries, Statuses
  <2>3. untracked \in [1 .. Len(others) -> Entries(delta)]
    BY <1>7, <2>2
  <2>4. untracked \in Seq(Entries(delta)) /\ Len(untracked) = Len(others)
    BY <2>1, <2>3
  <2> QED
    BY <1>7, <2>4
<1>12. ListsChanges(delta, statuses \o untracked)
  <2> DEFINE todo == statuses \o untracked
             E == Entries(delta)
  <2> SUFFICES ASSUME NEW f \in DOMAIN delta.disk,
                      ~(f \in DOMAIN delta.ref /\ delta.ref[f] = delta.disk[f])
               PROVE  \E i \in 1 .. Len(todo) : todo[i].status # "D" /\ todo[i].path = f
    BY DEF ListsChanges
  <2> HIDE DEF E
  <2>0. statuses \in Seq(E) /\ untracked \in Seq(E)
    BY <1>10, <1>11 DEF E
  <2>1. /\ Len(todo) = Len(statuses) + Len(untracked)
        /\ \A i \in 1 .. Len(statuses) : i \in 1 .. Len(todo) /\ todo[i] = statuses[i]
        /\ \A i \in 1 .. Len(untracked) :
              i + Len(statuses) \in 1 .. Len(todo) /\ todo[i + Len(statuses)] = untracked[i]
    BY <2>0
  <2>2. f \in F \/ f \in delta.untracked
    BY <1>2
  <2>3. CASE f \in F
    <3>1. PICK i \in 1 .. Len(list) : list[i] = f
      BY <1>3, <2>3
    <3>2. statuses[i].path = f /\ statuses[i].status # "D"
      BY <1>10, <3>1
    <3> QED
      BY <1>10, <2>1, <3>1, <3>2
  <2>4. CASE f \in delta.untracked
    <3>1. PICK i \in 1 .. Len(others) : others[i] = f
      BY <1>5, <2>4
    <3>2. untracked[i].path = f /\ untracked[i].status # "D"
      BY <1>11, <3>1
    <3> QED
      BY <1>11, <2>1, <3>1, <3>2
  <2> QED
    BY <2>2, <2>3, <2>4
<1> QED
  BY <1>10, <1>11, <1>12 DEF untracked

-----------------------------------------------------------------------------
(* What is told of symbols.                                                 *)

(* A declaration is named by its qualified name, or, when its file is gone, *)
(* by the file and its identifier.                                          *)
ChangedNames == QualifiedNames \cup (Range(TextOrder) \X Range(TextOrder))

Shapes(delta) ==
  {NoShape} \cup {d.shape : d \in UNION {delta.ref[f] : f \in DOMAIN delta.ref}}
            \cup {d.shape : d \in UNION {delta.disk[f] : f \in DOMAIN delta.disk}}

ChangeTypes == {"added", "modified", "removed"}

Tellings(delta) ==
  [ref : ChangedNames, change : ChangeTypes \cup {"", "renamed"}, shape : Shapes(delta),
   from : ChangedNames \cup {<< >>}]

ToldAs(symbols, change) == {symbols[i].ref : i \in PlacesOf(symbols, change)}

Distinct(symbols) ==
  \A i, j \in 1 .. Len(symbols) : symbols[i].ref = symbols[j].ref => i = j

Plain(delta, symbols) ==
  /\ symbols \in Seq(Tellings(delta))
  /\ Distinct(symbols)
  /\ \A i \in 1 .. Len(symbols) : symbols[i].change \in ChangeTypes

(* How many symbols are told with a change.                                 *)
LEMMA OfCounts ==
  ASSUME NEW A, NEW symbols \in Seq(A), NEW change
  PROVE  /\ IsFiniteSet(PlacesOf(symbols, change)) /\ Count(symbols, change) \in Nat
         /\ Count(symbols, change) = Cardinality(PlacesOf(symbols, change))
<1>1. PlacesOf(symbols, change) \subseteq 1 .. Len(symbols) /\ Len(symbols) \in Nat
  BY DEF PlacesOf
<1>2. IsFiniteSet(PlacesOf(symbols, change))
  <2>1. IsFiniteSet(1 .. Len(symbols))
    BY <1>1, FS_Interval
  <2> HIDE DEF PlacesOf
  <2> QED
    BY <1>1, <2>1, FS_Subset
<1> QED
  BY <1>2, FS_CardinalityType DEF Count

(* Two lists one behind the other.                                          *)
LEMMA Joined ==
  ASSUME NEW A, NEW a \in Seq(A), NEW b \in Seq(A)
  PROVE  /\ a \o b \in Seq(A) /\ Len(a \o b) = Len(a) + Len(b)
         /\ \A i \in 1 .. Len(a) : i \in 1 .. Len(a \o b) /\ (a \o b)[i] = a[i]
         /\ \A i \in 1 .. Len(b) : /\ Len(a) + i \in 1 .. Len(a \o b)
                                   /\ (a \o b)[Len(a) + i] = b[i]
         /\ \A k \in 1 .. Len(a \o b) :
               \/ k \in 1 .. Len(a)
               \/ \E i \in 1 .. Len(b) : k = Len(a) + i
<1>1. Len(a) \in Nat /\ Len(b) \in Nat
  OBVIOUS
<1>2. a \o b \in Seq(A) /\ Len(a \o b) = Len(a) + Len(b)
  OBVIOUS
<1>3. ASSUME NEW k \in 1 .. Len(a \o b), k \notin 1 .. Len(a)
      PROVE  \E i \in 1 .. Len(b) : k = Len(a) + i
  <2>1. k - Len(a) \in 1 .. Len(b) /\ k = Len(a) + (k - Len(a))
    BY <1>1, <1>2, <1>3
  <2> QED
    BY <2>1
<1> QED
  BY <1>1, <1>2, <1>3

LEMMA PlacesJoined ==
  ASSUME NEW A, NEW a \in Seq(A), NEW b \in Seq(A), NEW change
  PROVE  Cardinality(PlacesOf(a \o b, change)) =
            Cardinality(PlacesOf(a, change)) + Cardinality(PlacesOf(b, change))
<1> DEFINE ab == a \o b
           P == PlacesOf(a, change)
           Q == PlacesOf(b, change)
           R == {Len(a) + i : i \in Q}
           f == [i \in Q |-> Len(a) + i]
<1>1. IsFiniteSet(P) /\ IsFiniteSet(Q)
  BY OfCounts
<1>2. /\ P = {i \in 1 .. Len(a) : a[i].change = change}
      /\ Q = {i \in 1 .. Len(b) : b[i].change = change}
      /\ PlacesOf(ab, change) = {i \in 1 .. Len(ab) : ab[i].change = change}
      /\ Len(a) \in Nat /\ Len(b) \in Nat
  BY DEF PlacesOf
<1>3. f \in Bijection(Q, R)
  <2>1. f \in [Q -> R]
    OBVIOUS
  <2>2. \A i, j \in Q : f[i] = f[j] => i = j
    <3>1. \A i \in Q : i \in Int
      BY <1>2
    <3> QED
      BY <1>2, <3>1
  <2>3. \A r \in R : \E i \in Q : f[i] = r
    OBVIOUS
  <2> QED
    BY <2>1, <2>2, <2>3 DEF Bijection, Injection, Surjection, IsInjective
<1>4. IsFiniteSet(R) /\ Cardinality(R) = Cardinality(Q)
  <2>1. ExistsBijection(Q, R)
    BY <1>3 DEF ExistsBijection
  <2> HIDE DEF Q, R
  <2> QED
    BY <1>1, <2>1, FS_Bijection
<1>5. P \cap R = {}
  <2> SUFFICES ASSUME NEW i \in Q, Len(a) + i \in P PROVE FALSE
    OBVIOUS
  <2>1. i \in 1 .. Len(b) /\ Len(a) + i \in 1 .. Len(a)
    BY <1>2
  <2> QED
    BY <1>2, <2>1
<1>6. PlacesOf(ab, change) = P \cup R
  <2>1. ASSUME NEW k \in PlacesOf(ab, change) PROVE k \in P \cup R
    <3>1. k \in 1 .. Len(ab) /\ ab[k].change = change
      BY <1>2
    <3>2. CASE k \in 1 .. Len(a)
      BY <1>2, <3>1, <3>2, Joined
    <3>3. CASE \E i \in 1 .. Len(b) : k = Len(a) + i
      <4>1. PICK i \in 1 .. Len(b) : k = Len(a) + i
        BY <3>3
      <4>2. ab[k] = b[i]
        BY <4>1, Joined
      <4>3. i \in Q
        BY <1>2, <3>1, <4>2
      <4> QED
        BY <4>1, <4>3
    <3> QED
      BY <3>1, <3>2, <3>3, Joined
  <2>2. ASSUME NEW k \in P PROVE k \in PlacesOf(ab, change)
    BY <1>2, Joined
  <2>3. ASSUME NEW i \in Q PROVE Len(a) + i \in PlacesOf(ab, change)
    <3>1. i \in 1 .. Len(b) /\ b[i].change = change
      BY <1>2
    <3>2. Len(a) + i \in 1 .. Len(ab) /\ ab[Len(a) + i] = b[i]
      BY <3>1, Joined
    <3> QED
      BY <1>2, <3>1, <3>2
  <2> QED
    BY <2>1, <2>2, <2>3
<1> HIDE DEF P, Q, R, ab
<1>7. Cardinality(P \cup R) = Cardinality(P) + Cardinality(R) - Cardinality(P \cap R)
  BY <1>1, <1>4, FS_Union
<1>8. Cardinality(P \cap R) = 0 /\ Cardinality(P) \in Nat /\ Cardinality(R) \in Nat
  BY <1>1, <1>4, <1>5, FS_EmptySet, FS_CardinalityType
<1> QED
  BY <1>4, <1>6, <1>7, <1>8 DEF P, Q, ab

LEMMA ToldJoined ==
  ASSUME NEW A, NEW a \in Seq(A), NEW b \in Seq(A), NEW change
  PROVE  ToldAs(a \o b, change) = ToldAs(a, change) \cup ToldAs(b, change)
<1> DEFINE ab == a \o b
<1>1. ASSUME NEW k \in 1 .. Len(ab), ab[k].change = change
      PROVE  ab[k].ref \in ToldAs(a, change) \cup ToldAs(b, change)
  <2>1. CASE k \in 1 .. Len(a)
    <3>1. ab[k] = a[k] /\ k \in PlacesOf(a, change)
      BY <1>1, <2>1, Joined DEF PlacesOf
    <3> QED
      BY <3>1 DEF ToldAs
  <2>2. CASE \E i \in 1 .. Len(b) : k = Len(a) + i
    <3>1. PICK i \in 1 .. Len(b) : k = Len(a) + i
      BY <2>2
    <3>2. ab[k] = b[i]
      BY <3>1, Joined
    <3>3. i \in PlacesOf(b, change)
      BY <1>1, <3>2 DEF PlacesOf
    <3> QED
      BY <3>2, <3>3 DEF ToldAs
  <2> QED
    BY <2>1, <2>2, Joined
<1>2. ASSUME NEW i \in 1 .. Len(a), a[i].change = change PROVE a[i].ref \in ToldAs(ab, change)
  <2>1. i \in 1 .. Len(ab) /\ ab[i] = a[i]
    BY Joined
  <2>2. i \in PlacesOf(ab, change) /\ ab[i].ref = a[i].ref
    BY <1>2, <2>1 DEF PlacesOf
  <2> QED
    BY <2>2 DEF ToldAs
<1>3. ASSUME NEW i \in 1 .. Len(b), b[i].change = change PROVE b[i].ref \in ToldAs(ab, change)
  <2>1. Len(a) + i \in 1 .. Len(ab) /\ ab[Len(a) + i] = b[i]
    BY Joined
  <2>2. Len(a) + i \in PlacesOf(ab, change) /\ ab[Len(a) + i].ref = b[i].ref
    BY <1>3, <2>1 DEF PlacesOf
  <2> QED
    BY <2>2 DEF ToldAs
<1> HIDE DEF ab
<1>4. \A s, r : r \in ToldAs(s, change) <=>
         \E i \in 1 .. Len(s) : s[i].change = change /\ s[i].ref = r
  BY DEF ToldAs, PlacesOf
<1>5. \A r : r \in ToldAs(ab, change) <=> r \in ToldAs(a, change) \cup ToldAs(b, change)
  BY <1>1, <1>2, <1>3, <1>4
<1> QED
  BY <1>5 DEF ab

LEMMA PlainJoined ==
  ASSUME NEW delta, NEW a, NEW b, Plain(delta, a), Plain(delta, b), NEW seen,
         \A i \in 1 .. Len(a) : a[i].ref \in seen,
         \A i \in 1 .. Len(b) : b[i].ref \notin seen
  PROVE  Plain(delta, a \o b)
<1> DEFINE ab == a \o b
           T == Tellings(delta)
<1>0. a \in Seq(T) /\ b \in Seq(T)
  BY DEF Plain
<1> HIDE DEF T
<1>1. ab \in Seq(T)
  BY <1>0
<1>2. /\ \A i \in 1 .. Len(a) : i \in 1 .. Len(ab) /\ ab[i] = a[i]
      /\ \A i \in 1 .. Len(b) : Len(a) + i \in 1 .. Len(ab) /\ ab[Len(a) + i] = b[i]
      /\ \A k \in 1 .. Len(ab) : \/ k \in 1 .. Len(a)
                                 \/ \E i \in 1 .. Len(b) : k = Len(a) + i
  BY <1>0, Joined
<1> HIDE DEF ab
<1>3. \A k \in 1 .. Len(ab) : ab[k].change \in ChangeTypes
  <2> SUFFICES ASSUME NEW k \in 1 .. Len(ab) PROVE ab[k].change \in ChangeTypes
    OBVIOUS
  <2>1. \/ \E i \in 1 .. Len(a) : ab[k] = a[i]
        \/ \E i \in 1 .. Len(b) : ab[k] = b[i]
    BY <1>2
  <2> QED
    BY <2>1 DEF Plain
<1>4. Distinct(ab)
  <2> SUFFICES ASSUME NEW k \in 1 .. Len(ab), NEW l \in 1 .. Len(ab), ab[k].ref = ab[l].ref
               PROVE  k = l
    BY DEF Distinct
  <2>1. \A m \in 1 .. Len(ab) : m \notin 1 .. Len(a) => ab[m].ref \notin seen
    BY <1>2
  <2>2. \A m \in 1 .. Len(a) : ab[m].ref \in seen /\ ab[m] = a[m]
    BY <1>2
  <2>3. CASE k \in 1 .. Len(a)
    <3>1. l \in 1 .. Len(a)
      BY <2>1, <2>2, <2>3
    <3>2. a[k].ref = a[l].ref
      BY <2>2, <2>3, <3>1
    <3> QED
      BY <2>3, <3>1, <3>2 DEF Plain, Distinct
  <2>4. CASE k \notin 1 .. Len(a)
    <3>1. l \notin 1 .. Len(a)
      BY <2>1, <2>2, <2>4
    <3>2. PICK i \in 1 .. Len(b) : k = Len(a) + i
      BY <1>2, <2>4
    <3>3. PICK j \in 1 .. Len(b) : l = Len(a) + j
      BY <1>2, <3>1
    <3>4. b[i].ref = b[j].ref
      BY <1>2, <3>2, <3>3
    <3>5. i = j
      BY <3>4 DEF Plain, Distinct
    <3> QED
      BY <3>2, <3>3, <3>5
  <2> QED
    BY <2>3, <2>4
<1> QED
  BY <1>1, <1>3, <1>4 DEF Plain, ab, T

-----------------------------------------------------------------------------
(* What is told of one file.                                                *)

(* The declarations compared are those of a tree, or none.                  *)
LEMMA FileIs ==
  ASSUME NEW delta, IsDelta(delta), NEW file \in DOMAIN delta.disk, NEW tests
  PROVE  /\ Refs(file, DeclsAtRef(delta, file)) \in SUBSET QualifiedNames
         /\ IsFiniteSet(Refs(file, DeclsAtRef(delta, file)))
         /\ SymbolsInFile(delta, file, tests) \in {{}, Refs(file, delta.disk[file])}
         /\ SymbolsInFile(delta, file, tests) \in SUBSET QualifiedNames
         /\ IsFiniteSet(SymbolsInFile(delta, file, tests))
         /\ \A r \in Refs(file, DeclsAtRef(delta, file)) :
               ShapeOf(file, DeclsAtRef(delta, file), r) \in Shapes(delta)
         /\ \A r \in Refs(file, delta.disk[file]) :
               ShapeOf(file, delta.disk[file], r) \in Shapes(delta)
<1>1. IsTree(delta.ref) /\ IsTree(delta.disk)
  BY DEF IsDelta
<1>2. /\ Refs(file, DeclsAtRef(delta, file)) \in SUBSET QualifiedNames
      /\ IsFiniteSet(Refs(file, DeclsAtRef(delta, file)))
  <2>1. CASE file \in DOMAIN delta.ref
    <3>1. DeclsAtRef(delta, file) = delta.ref[file]
      BY <2>1 DEF DeclsAtRef, Files
    <3> QED
      BY <1>1, <2>1, <3>1, RefsAreNames
  <2>2. CASE file \notin DOMAIN delta.ref
    <3>1. Refs(file, DeclsAtRef(delta, file)) = {}
      BY <2>2 DEF DeclsAtRef, Files, Refs
    <3> QED
      BY <3>1, FS_EmptySet
  <2> QED
    BY <2>1, <2>2
<1>3. SymbolsInFile(delta, file, tests) \in {{}, Refs(file, delta.disk[file])}
  BY DEF SymbolsInFile
<1>4. /\ SymbolsInFile(delta, file, tests) \in SUBSET QualifiedNames
      /\ IsFiniteSet(SymbolsInFile(delta, file, tests))
  <2>1. Refs(file, delta.disk[file]) \in SUBSET QualifiedNames
        /\ IsFiniteSet(Refs(file, delta.disk[file]))
    BY <1>1, RefsAreNames
  <2> QED
    BY <1>3, <2>1, FS_EmptySet
<1>5. ASSUME NEW r \in Refs(file, DeclsAtRef(delta, file))
      PROVE  ShapeOf(file, DeclsAtRef(delta, file), r) \in Shapes(delta)
  <2>1. PICK d \in DeclsAtRef(delta, file) : ShapeOf(file, DeclsAtRef(delta, file), r) = d.shape
    BY ShapeIs
  <2>2. file \in DOMAIN delta.ref /\ d \in delta.ref[file]
    BY DEF DeclsAtRef, Files
  <2> QED
    BY <2>1, <2>2 DEF Shapes
<1>6. ASSUME NEW r \in Refs(file, delta.disk[file])
      PROVE  ShapeOf(file, delta.disk[file], r) \in Shapes(delta)
  <2>1. PICK d \in delta.disk[file] : ShapeOf(file, delta.disk[file], r) = d.shape
    BY ShapeIs
  <2> QED
    BY <2>1 DEF Shapes
<1> QED
  BY <1>2, <1>3, <1>4, <1>5, <1>6

(* What a report of a changed file says.                                    *)
TellsFile(delta, file, tests, seen, reported) ==
  LET old == DeclsAtRef(delta, file)
      cur == delta.disk[file]
      here == SymbolsInFile(delta, file, tests)
  IN  /\ Plain(delta, reported)
      /\ ToldAs(reported, "added") = (here \ seen) \ Refs(file, old)
      /\ ToldAs(reported, "modified") =
            {r \in (here \ seen) \cap Refs(file, old) :
                ShapeOf(file, cur, r) # ShapeOf(file, old, r)}
      /\ ToldAs(reported, "removed") = Refs(file, old) \ (here \cup seen)

ReportFile(delta, file, tests, seen) ==
  LET old == DeclsAtRef(delta, file)
      cur == delta.disk[file]
      here == SymbolsInFile(delta, file, tests)
      unseen == NamesInOrder(here \ seen)
      classified == [i \in DOMAIN unseen |->
          Changed(unseen[i], classifySymbol(unseen[i], file, cur, old),
                  ShapeOf(file, cur, unseen[i]))]
      gone == NamesInOrder(Refs(file, old) \ (here \cup seen))
      removed == [i \in DOMAIN gone |->
          Changed(gone[i], "removed", ShapeOf(file, old, gone[i]))]
  IN  Worth(classified) \o removed

IsTold(delta, file, tests, seen) ==
  LET lost == Refs(file, DeclsAtRef(delta, file))
              \ (SymbolsInFile(delta, file, tests) \cup seen)
  IN  /\ TellsFile(delta, file, tests, seen, ReportFile(delta, file, tests, seen))
      /\ Range(NamesInOrder(lost)) = lost

LEMMA FileTold ==
  ASSUME NEW delta, IsDelta(delta), NEW file \in DOMAIN delta.disk, NEW tests, NEW seen
  PROVE  IsTold(delta, file, tests, seen)
<1> DEFINE old == DeclsAtRef(delta, file)
           cur == delta.disk[file]
           here == SymbolsInFile(delta, file, tests)
           new == here \ seen
           unseen == NamesInOrder(new)
           Class(r) == classifySymbol(r, file, cur, old)
           classified == [i \in DOMAIN unseen |->
                 Changed(unseen[i], Class(unseen[i]), ShapeOf(file, cur, unseen[i]))]
           lost == Refs(file, old) \ (here \cup seen)
           gone == NamesInOrder(lost)
           removed == [i \in DOMAIN gone |->
                 Changed(gone[i], "removed", ShapeOf(file, old, gone[i]))]
           reported == Worth(classified) \o removed
           T == Tellings(delta)
           differ == {r \in new \cap Refs(file, old) :
                         ShapeOf(file, cur, r) # ShapeOf(file, old, r)}
<1>1. /\ Refs(file, old) \in SUBSET QualifiedNames /\ IsFiniteSet(Refs(file, old))
      /\ here \in {{}, Refs(file, cur)}
      /\ here \in SUBSET QualifiedNames /\ IsFiniteSet(here)
      /\ \A r \in Refs(file, old) : ShapeOf(file, old, r) \in Shapes(delta)
      /\ \A r \in Refs(file, cur) : ShapeOf(file, cur, r) \in Shapes(delta)
  BY FileIs
<1>2. /\ new \in SUBSET QualifiedNames /\ IsFiniteSet(new)
      /\ lost \in SUBSET QualifiedNames /\ IsFiniteSet(lost)
      /\ new \subseteq here /\ lost \subseteq Refs(file, old)
  BY <1>1, FS_Subset
<1>3. /\ unseen \in Seq(new)
      /\ \A r : r \in new <=> \E i \in 1 .. Len(unseen) : unseen[i] = r
      /\ \A i, j \in 1 .. Len(unseen) : unseen[i] = unseen[j] => i = j
  <2> HIDE DEF new
  <2> QED
    BY <1>2, NamesAreOrdered
<1>4. /\ gone \in Seq(lost)
      /\ \A r : r \in lost <=> \E i \in 1 .. Len(gone) : gone[i] = r
      /\ \A i, j \in 1 .. Len(gone) : gone[i] = gone[j] => i = j
  <2> HIDE DEF lost
  <2> QED
    BY <1>2, NamesAreOrdered
<1>5. DOMAIN unseen = 1 .. Len(unseen) /\ DOMAIN gone = 1 .. Len(gone)
  BY <1>3, <1>4
<1>6. ASSUME NEW r \in new
      PROVE  /\ Class(r) = IF r \notin Refs(file, old) THEN "added"
                           ELSE IF r \in differ THEN "modified" ELSE ""
             /\ ShapeOf(file, cur, r) \in Shapes(delta)
  <2>1. r \in Refs(file, cur)
    BY <1>1
  <2> QED
    BY <1>1, <2>1 DEF classifySymbol
<1>7. ASSUME NEW r \in lost PROVE ShapeOf(file, old, r) \in Shapes(delta)
  BY <1>1
<1> DEFINE One(r) == Changed(r, Class(r), ShapeOf(file, cur, r))
           Lost(r) == Changed(r, "removed", ShapeOf(file, old, r))
<1>8. ASSUME NEW r \in new
      PROVE  One(r) \in T /\ One(r).ref = r /\ One(r).change = Class(r)
  <2>1. Class(r) \in ChangeTypes \cup {"", "renamed"} /\ r \in ChangedNames
    BY <1>2, <1>6 DEF ChangeTypes, ChangedNames
  <2> HIDE DEF Class
  <2> QED
    BY <1>6, <2>1 DEF Changed, Tellings
<1>9. ASSUME NEW r \in lost
      PROVE  Lost(r) \in T /\ Lost(r).ref = r /\ Lost(r).change = "removed"
  <2>1. r \in ChangedNames
    BY <1>2 DEF ChangedNames
  <2> QED
    BY <1>7, <2>1 DEF Changed, Tellings, ChangeTypes
<1>10. /\ classified = [i \in 1 .. Len(unseen) |-> One(unseen[i])]
       /\ removed = [i \in 1 .. Len(gone) |-> Lost(gone[i])]
  BY <1>5
<1> HIDE DEF unseen, gone, classified, removed, new, lost, One, Lost, Class, T, differ
<1>11. \A i \in 1 .. Len(unseen) : unseen[i] \in new
  BY <1>3
<1>12. \A i \in 1 .. Len(gone) : gone[i] \in lost
  BY <1>4
<1>13. /\ classified \in Seq(T) /\ Len(classified) = Len(unseen)
       /\ \A i \in 1 .. Len(unseen) : /\ classified[i].ref = unseen[i]
                                      /\ classified[i].change = Class(unseen[i])
  <2>1. Len(unseen) \in Nat
    BY <1>3
  <2>2. classified \in [1 .. Len(unseen) -> T]
    BY <1>8, <1>10, <1>11
  <2>3. classified \in Seq(T) /\ Len(classified) = Len(unseen)
    BY <2>1, <2>2
  <2> QED
    BY <1>8, <1>10, <1>11, <2>3
<1>14. /\ removed \in Seq(T) /\ Len(removed) = Len(gone)
       /\ \A i \in 1 .. Len(gone) : /\ removed[i].ref = gone[i]
                                    /\ removed[i].change = "removed"
  <2>1. Len(gone) \in Nat
    BY <1>4
  <2>2. removed \in [1 .. Len(gone) -> T]
    BY <1>9, <1>10, <1>12
  <2>3. removed \in Seq(T) /\ Len(removed) = Len(gone)
    BY <2>1, <2>2
  <2> QED
    BY <1>9, <1>10, <1>12, <2>3
<1> DEFINE P == {i \in 1 .. Len(classified) : classified[i].change # ""}
           worth == Worth(classified)
<1>15. /\ worth = Picked(classified, P)
       /\ worth \in Seq(T)
       /\ \A i \in 1 .. Len(worth) : Nth(P, i) \in P /\ worth[i] = classified[Nth(P, i)]
       /\ \A i, j \in 1 .. Len(worth) : Nth(P, i) = Nth(P, j) => i = j
       /\ \A p \in P : \E i \in 1 .. Len(worth) : Nth(P, i) = p
  <2>1. DOMAIN classified = 1 .. Len(classified)
    BY <1>13
  <2>2. worth = Picked(classified, P) /\ P \in SUBSET (1 .. Len(classified))
    BY <2>1 DEF Worth
  <2> HIDE DEF P, worth
  <2> QED
    BY <1>13, <2>2, PickedIs
<1>16. ASSUME NEW i \in 1 .. Len(worth)
       PROVE  /\ worth[i].ref \in new
              /\ worth[i].change = Class(worth[i].ref)
              /\ worth[i].change # ""
  <2>1. Nth(P, i) \in 1 .. Len(unseen) /\ classified[Nth(P, i)].change # ""
    BY <1>13, <1>15
  <2> HIDE DEF P, worth
  <2> QED
    BY <1>11, <1>13, <1>15, <2>1
<1>17. ASSUME NEW r \in new, Class(r) # ""
       PROVE  \E i \in 1 .. Len(worth) : worth[i].ref = r /\ worth[i].change = Class(r)
  <2>1. PICK p \in 1 .. Len(unseen) : unseen[p] = r
    BY <1>3
  <2>2. p \in P
    BY <1>13, <1>17, <2>1
  <2> HIDE DEF P, worth
  <2>3. PICK i \in 1 .. Len(worth) : Nth(P, i) = p
    BY <1>15, <2>2
  <2> QED
    BY <1>13, <1>15, <2>1, <2>3
<1>18. Distinct(worth)
  <2> SUFFICES ASSUME NEW i \in 1 .. Len(worth), NEW j \in 1 .. Len(worth),
                      worth[i].ref = worth[j].ref
               PROVE  i = j
    BY DEF Distinct
  <2>1. /\ Nth(P, i) \in 1 .. Len(unseen) /\ Nth(P, j) \in 1 .. Len(unseen)
        /\ worth[i] = classified[Nth(P, i)] /\ worth[j] = classified[Nth(P, j)]
    BY <1>13, <1>15
  <2> HIDE DEF P, worth
  <2>2. unseen[Nth(P, i)] = unseen[Nth(P, j)]
    BY <1>13, <2>1
  <2> QED
    BY <1>3, <1>15, <2>1, <2>2
<1> HIDE DEF worth, P
<1>19. \A r \in new : Class(r) = IF r \notin Refs(file, old) THEN "added"
                                 ELSE IF r \in differ THEN "modified" ELSE ""
  BY <1>6 DEF Class, differ, new
<1>20. Plain(delta, worth)
  <2>1. \A i \in 1 .. Len(worth) : worth[i].change \in ChangeTypes
    BY <1>16, <1>19 DEF ChangeTypes
  <2> QED
    BY <1>15, <1>18, <2>1 DEF Plain, T
<1>21. Plain(delta, removed)
  <2>1. Distinct(removed)
    BY <1>4, <1>14 DEF Distinct
  <2> QED
    BY <1>14, <2>1 DEF Plain, T, ChangeTypes
<1>22. Plain(delta, reported)
  <2>1. \A i \in 1 .. Len(worth) : worth[i].ref \in here
    BY <1>2, <1>16
  <2>2. \A i \in 1 .. Len(removed) : removed[i].ref \notin here
    BY <1>12, <1>14 DEF lost
  <2>3. reported = worth \o removed
    BY DEF worth
  <2> HIDE DEF reported, here
  <2> QED
    BY <1>20, <1>21, <2>1, <2>2, <2>3, PlainJoined
<1>23. \A c : ToldAs(reported, c) = ToldAs(worth, c) \cup ToldAs(removed, c)
  <2>1. reported = worth \o removed
    BY DEF worth
  <2> HIDE DEF reported
  <2> QED
    BY <1>14, <1>15, <2>1, ToldJoined
<1>24. \A s, c, r : r \in ToldAs(s, c) <=>
          \E i \in 1 .. Len(s) : s[i].change = c /\ s[i].ref = r
  BY DEF ToldAs, PlacesOf
<1>25. \A r, c : c # "" => (r \in ToldAs(worth, c) <=> r \in new /\ Class(r) = c)
  <2>1. ASSUME NEW r, NEW c, r \in ToldAs(worth, c) PROVE r \in new /\ Class(r) = c
    <3>1. PICK i \in 1 .. Len(worth) : worth[i].change = c /\ worth[i].ref = r
      BY <1>24, <2>1
    <3> QED
      BY <1>16, <3>1
  <2>2. ASSUME NEW r \in new, Class(r) # "" PROVE r \in ToldAs(worth, Class(r))
    <3>1. PICK i \in 1 .. Len(worth) : worth[i].ref = r /\ worth[i].change = Class(r)
      BY <1>17, <2>2
    <3> QED
      BY <1>24, <3>1
  <2> QED
    BY <2>1, <2>2
<1>26. /\ ToldAs(removed, "removed") = lost
       /\ ToldAs(removed, "added") = {} /\ ToldAs(removed, "modified") = {}
  <2>1. \A r : r \in ToldAs(removed, "removed") <=> r \in lost
    BY <1>4, <1>14, <1>24
  <2>2. \A c : c # "removed" => \A r : r \notin ToldAs(removed, c)
    BY <1>14, <1>24
  <2> QED
    BY <2>1, <2>2
<1>27. /\ ToldAs(worth, "added") = new \ Refs(file, old)
       /\ ToldAs(worth, "modified") = new \cap differ
       /\ ToldAs(worth, "removed") = {}
  <2>1. differ \subseteq Refs(file, old)
    BY DEF differ
  <2>2. \A r \in new : Class(r) = "added" <=> r \notin Refs(file, old)
    BY <1>19
  <2>3. \A r \in new : Class(r) = "modified" <=> r \in differ
    BY <1>19, <2>1
  <2>4. \A r \in new : Class(r) # "removed"
    BY <1>19
  <2> QED
    BY <1>25, <2>2, <2>3, <2>4
<1>28. /\ ToldAs(reported, "added") = new \ Refs(file, old)
       /\ ToldAs(reported, "modified") = new \cap differ
       /\ ToldAs(reported, "removed") = lost
  BY <1>23, <1>26, <1>27
<1>29. new \cap differ = differ /\ new = here \ seen
  BY DEF differ, new
<1>30. TellsFile(delta, file, tests, seen, reported)
  <2> HIDE DEF reported
  <2> QED
    BY <1>22, <1>28, <1>29 DEF TellsFile, differ, lost, new
<1>31. Range(gone) = lost
  BY <1>4, <1>5 DEF Range
<1>32. reported = ReportFile(delta, file, tests, seen)
  BY DEF ReportFile, reported, classified, removed, gone, lost, unseen, Class, new
<1> QED
  BY <1>30, <1>31, <1>32 DEF gone, lost, IsTold

(* What is told of a file that is gone.                                     *)
ReportGone(delta, file, seen) ==
  LET names == {d.name[2] : d \in delta.ref[file]}
      fresh == InOrder({n \in names : <<file, n>> \notin seen})
  IN  [i \in DOMAIN fresh |-> Changed(<<file, fresh[i]>>, "removed", NoShape)]

LEMMA GoneTold ==
  ASSUME NEW delta, IsDelta(delta), NEW file \in DOMAIN delta.ref, NEW seen
  PROVE  LET reported == ReportGone(delta, file, seen) IN
         /\ Plain(delta, reported)
         /\ ToldAs(reported, "added") = {} /\ ToldAs(reported, "modified") = {}
         /\ ToldAs(reported, "removed") =
               {<<file, n>> : n \in {d.name[2] : d \in delta.ref[file]}} \ seen
<1> DEFINE names == {d.name[2] : d \in delta.ref[file]}
           N == {n \in names : <<file, n>> \notin seen}
           fresh == InOrder(N)
           Lost(n) == Changed(<<file, n>>, "removed", NoShape)
           reported == [i \in DOMAIN fresh |-> Lost(fresh[i])]
           T == Tellings(delta)
<1>1. file \in Range(TextOrder) /\ names \subseteq Range(TextOrder)
  <2>1. file \in Range(TextOrder) /\ \A d \in delta.ref[file] : d.name \in [1 .. 2 -> Range(TextOrder)]
    BY DEF IsDelta, IsTree
  <2>2. \A d \in delta.ref[file] : d.name[2] \in Range(TextOrder)
    BY <2>1
  <2> QED
    BY <2>1, <2>2
<1> HIDE DEF names
<1>2. N \in SUBSET Range(TextOrder)
  BY <1>1
<1>3. ASSUME NEW n \in N
      PROVE  Lost(n) \in T /\ Lost(n).ref = <<file, n>> /\ Lost(n).change = "removed"
  <2>1. <<file, n>> \in ChangedNames
    BY <1>1, <1>2 DEF ChangedNames
  <2>2. NoShape \in Shapes(delta)
    BY DEF Shapes
  <2> QED
    BY <2>1, <2>2 DEF Changed, Tellings, ChangeTypes
<1> HIDE DEF N, T, Lost
<1>4. /\ fresh \in Seq(N)
      /\ \A t \in N : \E i \in 1 .. Len(fresh) : fresh[i] = t
      /\ \A i, j \in 1 .. Len(fresh) : fresh[i] = fresh[j] => i = j
  BY <1>2, TextsAreOrdered
<1> HIDE DEF fresh
<1>5. reported = [i \in 1 .. Len(fresh) |-> Lost(fresh[i])]
  <2>1. DOMAIN fresh = 1 .. Len(fresh)
    BY <1>4
  <2> QED
    BY <2>1
<1> HIDE DEF reported
<1>6. \A i \in 1 .. Len(fresh) : fresh[i] \in N
  BY <1>4
<1>7. /\ reported \in Seq(T) /\ Len(reported) = Len(fresh)
      /\ \A i \in 1 .. Len(fresh) : /\ reported[i].ref = <<file, fresh[i]>>
                                    /\ reported[i].change = "removed"
  <2>1. Len(fresh) \in Nat
    BY <1>4
  <2>2. reported \in [1 .. Len(fresh) -> T]
    BY <1>3, <1>5, <1>6
  <2>3. reported \in Seq(T) /\ Len(reported) = Len(fresh)
    BY <2>1, <2>2
  <2> QED
    BY <1>3, <1>5, <1>6, <2>3
<1>8. Plain(delta, reported)
  <2>1. Distinct(reported)
    <3> SUFFICES ASSUME NEW i \in 1 .. Len(fresh), NEW j \in 1 .. Len(fresh),
                        reported[i].ref = reported[j].ref
                 PROVE  i = j
      BY <1>7 DEF Distinct
    <3>1. <<file, fresh[i]>> = <<file, fresh[j]>>
      BY <1>7
    <3>2. fresh[i] = fresh[j]
      BY <3>1
    <3> QED
      BY <1>4, <3>2
  <2> QED
    BY <1>7, <2>1 DEF Plain, T, ChangeTypes
<1>9. \A s, c, r : r \in ToldAs(s, c) <=>
          \E i \in 1 .. Len(s) : s[i].change = c /\ s[i].ref = r
  BY DEF ToldAs, PlacesOf
<1>10. \A r : r \in ToldAs(reported, "removed") <=> \E n \in N : r = <<file, n>>
  <2>1. ASSUME NEW r, r \in ToldAs(reported, "removed") PROVE \E n \in N : r = <<file, n>>
    <3>1. PICK i \in 1 .. Len(fresh) : reported[i].ref = r
      BY <1>7, <1>9, <2>1
    <3> QED
      BY <1>6, <1>7, <3>1
  <2>2. ASSUME NEW n \in N PROVE <<file, n>> \in ToldAs(reported, "removed")
    <3>1. PICK i \in 1 .. Len(fresh) : fresh[i] = n
      BY <1>4
    <3>2. reported[i].ref = <<file, n>> /\ reported[i].change = "removed"
      BY <1>7, <3>1
    <3> QED
      BY <1>7, <1>9, <3>2
  <2> QED
    BY <2>1, <2>2
<1>11. \A c : c # "removed" => \A r : r \notin ToldAs(reported, c)
  BY <1>7, <1>9
<1>12. ToldAs(reported, "removed") = {<<file, n>> : n \in names} \ seen
  <2>1. \A n : n \in N <=> n \in names /\ <<file, n>> \notin seen
    BY DEF N
  <2> QED
    BY <1>10, <2>1
<1>13. ToldAs(reported, "added") = {} /\ ToldAs(reported, "modified") = {}
  BY <1>11
<1>14. reported = ReportGone(delta, file, seen)
  BY DEF ReportGone, reported, fresh, N, names, Lost
<1> QED
  BY <1>8, <1>12, <1>13, <1>14 DEF names

-----------------------------------------------------------------------------
(* The files one after another.                                             *)

InSight(delta, tests) == {f \in DOMAIN delta.disk : SymbolsInFile(delta, f, tests) # {}}

NowNames(delta, tests) == UNION {Refs(f, delta.disk[f]) : f \in InSight(delta, tests)}

ThenNames(delta, tests) == UNION {Refs(f, DeclsAtRef(delta, f)) : f \in InSight(delta, tests)}

EditedIn(delta, f) ==
  {r \in Refs(f, delta.disk[f]) \cap Refs(f, DeclsAtRef(delta, f)) :
      ShapeOf(f, delta.disk[f], r) # ShapeOf(f, DeclsAtRef(delta, f), r)}

Edits(delta, tests) == UNION {EditedIn(delta, f) : f \in InSight(delta, tests)}

GoneFiles(statuses) == {statuses[i].path : i \in {k \in 1 .. Len(statuses) : statuses[k].status = "D"}}

LostIn(delta, f) == {<<f, d.name[2]>> : d \in delta.ref[f]}

LostWith(delta, files) == UNION {LostIn(delta, f) : f \in files}

(* What is told is so.                                                      *)
Sound(w) ==
  /\ ToldAs(w.symbols, "modified") \subseteq Edits(w.delta, w.includeTests)
  /\ ToldAs(w.symbols, "added") \subseteq
        NowNames(w.delta, w.includeTests) \ ThenNames(w.delta, w.includeTests)
  /\ ToldAs(w.symbols, "removed") \subseteq
        (ThenNames(w.delta, w.includeTests) \ NowNames(w.delta, w.includeTests))
        \cup LostWith(w.delta, GoneFiles(w.statuses))

(* What there is to tell of the names looked at is told.                    *)
ToldOf(w, r) ==
  /\ r \in Edits(w.delta, w.includeTests) => r \in ToldAs(w.symbols, "modified")
  /\ (/\ r \in NowNames(w.delta, w.includeTests)
      /\ r \notin ThenNames(w.delta, w.includeTests)) => r \in ToldAs(w.symbols, "added")
  /\ (/\ r \in ThenNames(w.delta, w.includeTests)
      /\ r \notin NowNames(w.delta, w.includeTests)) => r \in ToldAs(w.symbols, "removed")
  /\ r \notin QualifiedNames => r \in ToldAs(w.symbols, "removed")

LookedAt(w) == \A r \in w.seen : ToldOf(w, r)

(* A file that is not to come is as it was, or all its names are looked at. *)
ToCome(w, f, gone) ==
  \E i \in 1 .. Len(w.todo) : w.todo[i].path = f /\ (gone <=> w.todo[i].status = "D")

AllPassed(w) ==
  /\ \A f \in InSight(w.delta, w.includeTests) :
        \/ ToCome(w, f, FALSE)
        \/ f \in DOMAIN w.delta.ref /\ w.delta.ref[f] = w.delta.disk[f]
        \/ Refs(f, w.delta.disk[f]) \cup Refs(f, DeclsAtRef(w.delta, f)) \subseteq w.seen
  /\ \A f \in GoneFiles(w.statuses) :
        \/ ToCome(w, f, TRUE)
        \/ LostIn(w.delta, f) \subseteq ToldAs(w.symbols, "removed")
  /\ \A i \in 1 .. Len(w.todo) :
        w.todo[i].status = "D" => w.todo[i].path \in GoneFiles(w.statuses)

Summaries == [added : Nat, modified : Nat, removed : Nat, renamed : Nat, filesChanged : Nat]

ChangeWalks(delta) ==
  [op : {"changes"}, delta : {delta}, includeTests : BOOLEAN, done : BOOLEAN,
   statuses : Seq(Entries(delta)), todo : Seq(Entries(delta)), seen : SUBSET ChangedNames,
   symbols : Seq(Tellings(delta)),
   renamed : Seq([from : DOMAIN delta.ref \cup {""}, to : DOMAIN delta.disk]),
   summary : Summaries]

IsChanges(w) == IsDelta(w.delta) /\ w \in ChangeWalks(w.delta)

Counted(w) ==
  \A c \in ChangeTypes : w.summary[c] = Count(w.symbols, c)

ListKept(w) ==
  /\ Plain(w.delta, w.symbols)
  /\ \A i \in 1 .. Len(w.symbols) : w.symbols[i].ref \in w.seen
  /\ Counted(w)
  /\ w.summary.renamed = Len(w.renamed)

Complete(w) == StaysPut(w.delta) => Sound(w) /\ LookedAt(w) /\ AllPassed(w)

(* The comparison begins.                                                   *)
LEMMA DeltasAre ==
  ASSUME index \in Indexes, NEW request \in Requests(index), request.op = "changes"
  PROVE  IsDelta(request.delta) /\ request.includeTests \in BOOLEAN
<1> DEFINE delta == request.delta
<1>1. /\ request.includeTests \in BOOLEAN
      /\ delta.untracked \subseteq DOMAIN delta.disk
      /\ \A tree \in {delta.ref, delta.disk} : \A file \in DOMAIN tree :
            /\ {file, PackageOf(file)} \subseteq Range(TextOrder)
            /\ IsFiniteSet(tree[file])
            /\ \A d \in tree[file] : d.name \in [1 .. 2 -> Range(TextOrder)]
  BY ChangedSymbolsAssumption
<1> QED
  BY <1>1 DEF IsDelta, IsTree

LEMMA NothingTold ==
  /\ \A delta : Plain(delta, << >>)
  /\ \A change : ToldAs(<< >>, change) = {} /\ Count(<< >>, change) = 0
<1>1. \A A : << >> \in Seq(A) /\ Len(<< >>) = 0
  OBVIOUS
<1>2. 1 .. 0 = {}
  OBVIOUS
<1>3. \A change : PlacesOf(<< >>, change) = {}
  BY <1>1, <1>2 DEF PlacesOf
<1>4. \A delta : Plain(delta, << >>)
  BY <1>1, <1>2 DEF Plain, Distinct
<1>5. \A change : ToldAs(<< >>, change) = {}
  BY <1>3 DEF ToldAs
<1>6. \A change : Count(<< >>, change) = 0
  <2> TAKE change
  <2>1. Count(<< >>, change) = Cardinality(PlacesOf(<< >>, change))
    BY <1>1, OfCounts
  <2> QED
    BY <1>3, <2>1, FS_EmptySet
<1> QED
  BY <1>4, <1>5, <1>6

LEMMA ChangesBegin ==
  ASSUME index \in Indexes, NEW request \in Requests(index), request.op = "changes",
         BeginChanges(request)
  PROVE  /\ walk'.op = "changes" /\ ~walk'.done
         /\ IsChanges(walk') /\ ListKept(walk') /\ Complete(walk')
<1> DEFINE delta == request.delta
           untracked == GitUntrackedFiles(delta)
<1>1. IsDelta(delta) /\ request.includeTests \in BOOLEAN
  BY DeltasAre
<1>2. PICK statuses \in GitFileStatuses(delta) :
         walk' = [op |-> "changes", delta |-> request.delta,
                  includeTests |-> request.includeTests, done |-> FALSE,
                  statuses |-> statuses, todo |-> statuses \o untracked, seen |-> {},
                  symbols |-> << >>, renamed |-> << >>,
                  summary |-> [added |-> 0, modified |-> 0, removed |-> 0, renamed |-> 0,
                               filesChanged |-> Len(statuses \o untracked)]]
  BY DEF BeginChanges
<1> DEFINE todo == statuses \o untracked
           E == Entries(delta)
<1>3. /\ statuses \in Seq(E) /\ untracked \in Seq(E)
      /\ \A i \in 1 .. Len(untracked) : untracked[i].status # "D"
      /\ ListsChanges(delta, todo)
  BY <1>1, StatusesList
<1> HIDE DEF delta, untracked, E
<1>4. todo \in Seq(E) /\ Len(todo) \in Nat
  BY <1>3
<1>5. /\ \A i \in 1 .. Len(statuses) : i \in 1 .. Len(todo) /\ todo[i] = statuses[i]
      /\ \A k \in 1 .. Len(todo) : \/ k \in 1 .. Len(statuses)
                                   \/ \E i \in 1 .. Len(untracked) : todo[k] = untracked[i]
  BY <1>3, Joined
<1> HIDE DEF todo
<1>6. /\ walk'.op = "changes" /\ walk'.delta = delta /\ ~walk'.done
      /\ walk'.includeTests = request.includeTests /\ walk'.statuses = statuses
      /\ walk'.todo = todo /\ walk'.seen = {} /\ walk'.symbols = << >>
      /\ walk'.renamed = << >>
      /\ walk'.summary = [added |-> 0, modified |-> 0, removed |-> 0, renamed |-> 0,
                          filesChanged |-> Len(todo)]
  BY <1>2 DEF todo, delta
<1>7. IsChanges(walk')
  <2>1. walk'.summary \in Summaries
    BY <1>4, <1>6 DEF Summaries
  <2>2. walk' = [op |-> walk'.op, delta |-> walk'.delta, includeTests |-> walk'.includeTests,
                 done |-> walk'.done, statuses |-> walk'.statuses, todo |-> walk'.todo,
                 seen |-> walk'.seen, symbols |-> walk'.symbols, renamed |-> walk'.renamed,
                 summary |-> walk'.summary]
    BY <1>2 DEF todo
  <2>3. /\ walk'.symbols \in Seq(Tellings(delta))
        /\ walk'.renamed \in Seq([from : DOMAIN delta.ref \cup {""}, to : DOMAIN delta.disk])
    BY <1>6
  <2>4. walk' \in ChangeWalks(delta)
    <3>1. /\ walk'.op \in {"changes"} /\ walk'.delta \in {delta}
          /\ walk'.includeTests \in BOOLEAN /\ walk'.done \in BOOLEAN
          /\ walk'.statuses \in Seq(Entries(delta)) /\ walk'.todo \in Seq(Entries(delta))
          /\ walk'.seen \in SUBSET ChangedNames
      <4>1. walk'.done = FALSE
        BY <1>2
      <4> QED
        BY <1>1, <1>3, <1>4, <1>6, <4>1 DEF E
    <3> QED
      BY <2>1, <2>2, <2>3, <3>1 DEF ChangeWalks
  <2> QED
    BY <1>1, <1>6, <2>4 DEF IsChanges, delta
<1>8. ListKept(walk')
  <2>1. Plain(walk'.delta, walk'.symbols) /\ Len(walk'.symbols) = 0 /\ Len(walk'.renamed) = 0
    BY <1>6, NothingTold
  <2>2. Counted(walk')
    BY <1>6, NothingTold DEF Counted, ChangeTypes
  <2> QED
    BY <1>6, <2>1, <2>2 DEF ListKept
<1>9. Complete(walk')
  <2>1. Sound(walk') /\ LookedAt(walk')
    BY <1>6, NothingTold DEF Sound, LookedAt
  <2>2. ASSUME NEW f \in InSight(walk'.delta, walk'.includeTests)
        PROVE  \/ ToCome(walk', f, FALSE)
               \/ f \in DOMAIN walk'.delta.ref /\ walk'.delta.ref[f] = walk'.delta.disk[f]
    <3>1. f \in DOMAIN delta.disk
      BY <1>6 DEF InSight
    <3>2. \/ f \in DOMAIN delta.ref /\ delta.ref[f] = delta.disk[f]
          \/ \E i \in 1 .. Len(todo) : todo[i].status # "D" /\ todo[i].path = f
      BY <1>3, <3>1 DEF ListsChanges
    <3> QED
      BY <1>6, <3>2 DEF ToCome
  <2>3. ASSUME NEW f \in GoneFiles(walk'.statuses) PROVE ToCome(walk', f, TRUE)
    <3>1. PICK i \in 1 .. Len(statuses) : statuses[i].status = "D" /\ statuses[i].path = f
      BY <1>6 DEF GoneFiles
    <3> QED
      BY <1>5, <1>6, <3>1 DEF ToCome
  <2>4. ASSUME NEW k \in 1 .. Len(walk'.todo), walk'.todo[k].status = "D"
        PROVE  walk'.todo[k].path \in GoneFiles(walk'.statuses)
    <3>1. k \in 1 .. Len(statuses) /\ todo[k] = statuses[k]
      BY <1>3, <1>5, <1>6, <2>4
    <3> QED
      BY <1>6, <2>4, <3>1 DEF GoneFiles
  <2>5. AllPassed(walk')
    BY <2>2, <2>3, <2>4 DEF AllPassed
  <2> QED
    BY <2>1, <2>5 DEF Complete
<1> QED
  BY <1>6, <1>7, <1>8, <1>9

(* More told than before.                                                   *)
Grows(w, v, rep, S) ==
  /\ IsChanges(w) /\ ListKept(w) /\ Plain(w.delta, rep)
  /\ \A i \in 1 .. Len(rep) : rep[i].ref \in S /\ rep[i].ref \notin w.seen
  /\ v.delta = w.delta /\ v.symbols = w.symbols \o rep /\ v.seen = w.seen \cup S
  /\ v.summary.added = w.summary.added + Count(rep, "added")
  /\ v.summary.modified = w.summary.modified + Count(rep, "modified")
  /\ v.summary.removed = w.summary.removed + Count(rep, "removed")
  /\ v.summary.renamed = Len(v.renamed)

LEMMA MoreTold ==
  ASSUME NEW w, NEW v, NEW rep, NEW S, Grows(w, v, rep, S)
  PROVE  /\ ListKept(v)
         /\ \A c : ToldAs(v.symbols, c) = ToldAs(w.symbols, c) \cup ToldAs(rep, c)
<1> DEFINE T == Tellings(w.delta)
<1> USE DEF Grows
<1>1. w.symbols \in Seq(T) /\ rep \in Seq(T)
  BY DEF Plain, ListKept
<1> HIDE DEF T
<1>2. \A c : ToldAs(v.symbols, c) = ToldAs(w.symbols, c) \cup ToldAs(rep, c)
  BY <1>1, ToldJoined
<1>3. Plain(v.delta, v.symbols)
  <2>1. /\ \A i \in 1 .. Len(w.symbols) : w.symbols[i].ref \in w.seen
        /\ \A i \in 1 .. Len(rep) : rep[i].ref \notin w.seen
        /\ Plain(w.delta, w.symbols)
    BY DEF ListKept
  <2>2. Plain(w.delta, w.symbols \o rep)
    BY <2>1, PlainJoined
  <2> QED
    BY <2>2
<1>4. \A i \in 1 .. Len(v.symbols) : v.symbols[i].ref \in v.seen
  <2> DEFINE ab == w.symbols \o rep
  <2> SUFFICES ASSUME NEW k \in 1 .. Len(ab) PROVE ab[k].ref \in v.seen
    OBVIOUS
  <2>1. /\ \A i \in 1 .. Len(w.symbols) : ab[i] = w.symbols[i]
        /\ \A i \in 1 .. Len(rep) : ab[Len(w.symbols) + i] = rep[i]
        /\ \/ k \in 1 .. Len(w.symbols)
           \/ \E i \in 1 .. Len(rep) : k = Len(w.symbols) + i
    BY <1>1, Joined
  <2> HIDE DEF ab
  <2>2. \/ \E i \in 1 .. Len(w.symbols) : ab[k] = w.symbols[i]
        \/ \E i \in 1 .. Len(rep) : ab[k] = rep[i]
    BY <2>1
  <2> QED
    BY <2>2 DEF ListKept
<1>5. Counted(v)
  <2>1. \A c : Count(v.symbols, c) = Count(w.symbols, c) + Count(rep, c)
    <3> TAKE c
    <3>1. Cardinality(PlacesOf(w.symbols \o rep, c)) =
             Cardinality(PlacesOf(w.symbols, c)) + Cardinality(PlacesOf(rep, c))
      BY <1>1, PlacesJoined
    <3>2. w.symbols \o rep \in Seq(T)
      BY <1>1
    <3>3. /\ Count(w.symbols, c) = Cardinality(PlacesOf(w.symbols, c))
          /\ Count(rep, c) = Cardinality(PlacesOf(rep, c))
          /\ Count(w.symbols \o rep, c) = Cardinality(PlacesOf(w.symbols \o rep, c))
      BY <1>1, <3>2, OfCounts
    <3> QED
      BY <3>1, <3>3
  <2>2. /\ w.summary.added = Count(w.symbols, "added")
        /\ w.summary.modified = Count(w.symbols, "modified")
        /\ w.summary.removed = Count(w.symbols, "removed")
    BY DEF ListKept, Counted, ChangeTypes
  <2> QED
    BY <2>1, <2>2 DEF Counted, ChangeTypes
<1> QED
  BY <1>2, <1>3, <1>4, <1>5 DEF ListKept

(* What is to come once the first is taken.                                 *)
Taken(w, v, A) == w.todo \in Seq(A) /\ w.todo # << >> /\ v.todo = Tail(w.todo)

LEMMA StillToCome ==
  ASSUME NEW w, NEW v, NEW A, Taken(w, v, A)
  PROVE  /\ \A f, gone : ToCome(w, f, gone) =>
               \/ ToCome(v, f, gone)
               \/ Head(w.todo).path = f /\ (gone <=> Head(w.todo).status = "D")
         /\ \A i \in 1 .. Len(v.todo) : \E k \in 1 .. Len(w.todo) : v.todo[i] = w.todo[k]
         /\ Head(w.todo) \in A /\ \E k \in 1 .. Len(w.todo) : Head(w.todo) = w.todo[k]
         /\ v.todo \in Seq(A)
<1>1. /\ Len(w.todo) \in Nat \ {0} /\ Len(v.todo) = Len(w.todo) - 1
      /\ \A i \in 1 .. Len(v.todo) : v.todo[i] = w.todo[i + 1]
      /\ Head(w.todo) = w.todo[1]
  BY DEF Taken
<1>2. v.todo \in Seq(A) /\ Head(w.todo) \in A
  BY DEF Taken
<1>3. ASSUME NEW f, NEW gone, ToCome(w, f, gone), ~ToCome(v, f, gone)
      PROVE  Head(w.todo).path = f /\ (gone <=> Head(w.todo).status = "D")
  <2>1. PICK i \in 1 .. Len(w.todo) :
           w.todo[i].path = f /\ (gone <=> w.todo[i].status = "D")
    BY <1>3 DEF ToCome
  <2>2. CASE i = 1
    BY <1>1, <2>1, <2>2
  <2>3. CASE i # 1
    <3>1. i - 1 \in 1 .. Len(v.todo) /\ v.todo[i - 1] = w.todo[i]
      BY <1>1, <2>3
    <3> QED
      BY <1>3, <2>1, <3>1 DEF ToCome
  <2> QED
    BY <2>2, <2>3
<1>4. \A i \in 1 .. Len(v.todo) : \E k \in 1 .. Len(w.todo) : v.todo[i] = w.todo[k]
  <2> TAKE i \in 1 .. Len(v.todo)
  <2>1. i + 1 \in 1 .. Len(w.todo)
    BY <1>1
  <2> QED
    BY <1>1, <2>1
<1>5. \E k \in 1 .. Len(w.todo) : Head(w.todo) = w.todo[k]
  <2>1. 1 \in 1 .. Len(w.todo)
    BY <1>1
  <2> QED
    BY <1>1, <2>1
<1> QED
  BY <1>2, <1>3, <1>4, <1>5

(* What is told is told, what is looked at is looked at.                    *)
LEMMA ToldStays ==
  ASSUME NEW w, NEW v, v.delta = w.delta, v.includeTests = w.includeTests,
         \A c : ToldAs(w.symbols, c) \subseteq ToldAs(v.symbols, c), NEW r, ToldOf(w, r)
  PROVE  ToldOf(v, r)
BY DEF ToldOf

(* The names of declarations are qualified.                                 *)
LEMMA NamesQualified ==
  ASSUME NEW delta, IsDelta(delta), NEW tests
  PROVE  /\ NowNames(delta, tests) \subseteq QualifiedNames
         /\ ThenNames(delta, tests) \subseteq QualifiedNames
         /\ Edits(delta, tests) \subseteq NowNames(delta, tests) \cap ThenNames(delta, tests)
<1>1. \A f \in InSight(delta, tests) :
         /\ Refs(f, DeclsAtRef(delta, f)) \subseteq QualifiedNames
         /\ Refs(f, delta.disk[f]) \subseteq QualifiedNames
  <2> TAKE f \in InSight(delta, tests)
  <2>1. f \in DOMAIN delta.disk
    BY DEF InSight
  <2> QED
    BY <2>1, FileIs, RefsAreNames DEF IsDelta
<1> QED
  BY <1>1 DEF NowNames, ThenNames, Edits, EditedIn

(* Where names stay put, one file has a name then and now.                  *)
LEMMA OneFile ==
  ASSUME NEW delta, StaysPut(delta), NEW f \in DOMAIN delta.disk, NEW g \in DOMAIN delta.disk,
         NEW r, r \in Refs(f, delta.disk[f]), r \in Refs(g, DeclsAtRef(delta, g))
  PROVE  f = g
<1>1. g \in DOMAIN delta.ref /\ DeclsAtRef(delta, g) = delta.ref[g]
  BY DEF DeclsAtRef, Refs, Files
<1> QED
  BY <1>1 DEF StaysPut, Files

(* Counts are added up.                                                     *)
Adds(sum, rep, moved) ==
  sum \in Summaries /\ Len(moved) \in Nat /\ \A c : Count(rep, c) \in Nat

LEMMA SummaryGrows ==
  ASSUME NEW sum, NEW rep, NEW moved, Adds(sum, rep, moved)
  PROVE  /\ Counting(sum, rep, moved) \in Summaries
         /\ Counting(sum, rep, moved).added = sum.added + Count(rep, "added")
         /\ Counting(sum, rep, moved).modified = sum.modified + Count(rep, "modified")
         /\ Counting(sum, rep, moved).removed = sum.removed + Count(rep, "removed")
         /\ Counting(sum, rep, moved).renamed = sum.renamed + Len(moved)
<1> DEFINE a == Count(rep, "added")
           m == Count(rep, "modified")
           r == Count(rep, "removed")
           k == Len(moved)
<1>1. a \in Nat /\ m \in Nat /\ r \in Nat /\ k \in Nat /\ sum \in Summaries
  BY DEF Adds
<1>2. Counting(sum, rep, moved) =
         [sum EXCEPT !.added = sum.added + a, !.modified = sum.modified + m,
                     !.removed = sum.removed + r, !.renamed = sum.renamed + k]
  BY DEF Counting
<1> HIDE DEF a, m, r, k
<1>3. Counting(sum, rep, moved) =
         [added |-> sum.added + a, modified |-> sum.modified + m, removed |-> sum.removed + r,
          renamed |-> sum.renamed + k, filesChanged |-> sum.filesChanged]
  BY <1>1, <1>2 DEF Summaries
<1> QED
  BY <1>1, <1>3 DEF Summaries, a, m, r, k

(* A file that is gone is taken.                                            *)
LEMMA GoneTaken ==
  ASSUME IsChanges(walk), ~walk.done, ListKept(walk), Complete(walk), processDeletedFile
  PROVE  /\ walk'.op = "changes" /\ ~walk'.done
         /\ IsChanges(walk') /\ ListKept(walk') /\ Complete(walk')
<1> DEFINE delta == walk.delta
           E == Entries(delta)
           head == Head(walk.todo)
           file == head.path
           names == {d.name[2] : d \in delta.ref[file]}
           rep == ReportGone(delta, file, walk.seen)
           S == {s.ref : s \in Range(rep)}
<1>1. /\ walk.todo # << >> /\ head.status = "D"
      /\ appendChangedSymbols(rep)
  BY DEF processDeletedFile, ReportGone
<1>2. IsDelta(delta) /\ walk \in ChangeWalks(delta) /\ walk.todo \in Seq(E)
  BY DEF IsChanges, ChangeWalks
<1>3. head \in E
  BY <1>1, <1>2
<1>4. file \in DOMAIN delta.ref /\ file \notin DOMAIN delta.disk
  BY <1>1, <1>3 DEF Entries
<1>5. /\ Plain(delta, rep)
      /\ ToldAs(rep, "added") = {} /\ ToldAs(rep, "modified") = {}
      /\ ToldAs(rep, "removed") = {<<file, n>> : n \in names} \ walk.seen
  <2> HIDE DEF delta, file
  <2> QED
    BY <1>2, <1>4, GoneTold
<1>6. LostIn(delta, file) = {<<file, n>> : n \in names}
  BY DEF LostIn
<1> DEFINE sum == Counting(walk.summary, rep, << >>)
<1> HIDE DEF rep
<1>7. walk' = [walk EXCEPT !.todo = Tail(walk.todo), !.seen = walk.seen \cup S,
                           !.symbols = walk.symbols \o rep, !.summary = sum]
  BY <1>1 DEF appendChangedSymbols
<1> HIDE DEF delta, E, head, names, S
<1>8. rep \in Seq(Tellings(delta)) /\ walk.symbols \in Seq(Tellings(delta))
      /\ walk.summary \in Summaries
  BY <1>2, <1>5 DEF Plain, ChangeWalks
<1>10. /\ sum \in Summaries
       /\ sum.added = walk.summary.added + Count(rep, "added")
       /\ sum.modified = walk.summary.modified + Count(rep, "modified")
       /\ sum.removed = walk.summary.removed + Count(rep, "removed")
       /\ sum.renamed = walk.summary.renamed
  <2>1. Len(<< >>) = 0 /\ 0 \in Nat /\ \A c : Count(rep, c) \in Nat
    BY <1>8, OfCounts
  <2>2. walk.summary.renamed \in Nat /\ walk.summary.renamed + 0 = walk.summary.renamed
    BY <1>8 DEF Summaries
  <2>3. Adds(walk.summary, rep, << >>)
    BY <1>8, <2>1 DEF Adds
  <2> QED
    BY <2>1, <2>2, <2>3, SummaryGrows
<1> HIDE DEF sum
<1>11. /\ walk'.op = "changes" /\ walk'.delta = delta /\ walk'.done = walk.done
       /\ walk'.includeTests = walk.includeTests /\ walk'.statuses = walk.statuses
       /\ walk'.todo = Tail(walk.todo) /\ walk'.seen = walk.seen \cup S
       /\ walk'.symbols = walk.symbols \o rep /\ walk'.renamed = walk.renamed
       /\ walk'.summary = sum
  BY <1>2, <1>7 DEF ChangeWalks, delta
<1>12. /\ \A i \in 1 .. Len(rep) : /\ rep[i].ref \in ToldAs(rep, "removed")
                                   /\ rep[i].ref \in S
       /\ S = ToldAs(rep, "removed")
  <2>1. \A i \in 1 .. Len(rep) : rep[i].change = "removed"
    <3> SUFFICES ASSUME NEW i \in 1 .. Len(rep), rep[i].change # "removed" PROVE FALSE
      OBVIOUS
    <3>1. rep[i].change \in {"added", "modified"}
      BY <1>5 DEF Plain, ChangeTypes
    <3>2. rep[i].ref \in ToldAs(rep, rep[i].change)
      BY DEF ToldAs, PlacesOf
    <3> QED
      BY <1>5, <3>1, <3>2
  <2>2. \A i \in 1 .. Len(rep) : rep[i].ref \in ToldAs(rep, "removed")
    BY <2>1 DEF ToldAs, PlacesOf
  <2>3. Range(rep) = {rep[i] : i \in 1 .. Len(rep)}
    <3>1. DOMAIN rep = 1 .. Len(rep)
      BY <1>8
    <3> QED
      BY <3>1 DEF Range
  <2>4. ToldAs(rep, "removed") \subseteq S
    BY <2>3 DEF ToldAs, PlacesOf, S
  <2>5. S \subseteq ToldAs(rep, "removed")
    BY <2>2, <2>3 DEF S
  <2>6. S = ToldAs(rep, "removed")
    BY <2>4, <2>5
  <2> QED
    BY <2>2, <2>6
<1>13. S \subseteq ChangedNames
  <2>1. \A i \in 1 .. Len(rep) : rep[i].ref \in ChangedNames
    <3>1. \A i \in 1 .. Len(rep) : rep[i] \in Tellings(delta)
      BY <1>8
    <3> QED
      BY <3>1 DEF Tellings
  <2> QED
    BY <1>12, <2>1 DEF ToldAs, PlacesOf
<1>14. IsChanges(walk')
  <2>1. /\ walk.symbols \o rep \in Seq(Tellings(delta))
        /\ Tail(walk.todo) \in Seq(E)
        /\ walk.seen \cup S \in SUBSET ChangedNames
    <3>1. walk.seen \in SUBSET ChangedNames
      BY <1>2 DEF ChangeWalks
    <3> QED
      BY <1>1, <1>2, <1>8, <1>13, <3>1
  <2>2. walk' \in ChangeWalks(delta)
    BY <1>2, <1>7, <1>10, <2>1 DEF ChangeWalks, E
  <2> QED
    BY <1>2, <1>11, <2>2 DEF IsChanges
<1>15. /\ ListKept(walk')
       /\ \A c : ToldAs(walk'.symbols, c) = ToldAs(walk.symbols, c) \cup ToldAs(rep, c)
  <2>1. \A i \in 1 .. Len(rep) : rep[i].ref \in S /\ rep[i].ref \notin walk.seen
    BY <1>5, <1>12
  <2>2. walk'.summary.renamed = Len(walk'.renamed)
    BY <1>10, <1>11 DEF ListKept
  <2>3. Plain(walk.delta, rep) /\ walk'.delta = walk.delta
    BY <1>5, <1>11 DEF delta
  <2>4. /\ walk'.summary.added = walk.summary.added + Count(rep, "added")
        /\ walk'.summary.modified = walk.summary.modified + Count(rep, "modified")
        /\ walk'.summary.removed = walk.summary.removed + Count(rep, "removed")
    BY <1>10, <1>11
  <2>5. walk'.symbols = walk.symbols \o rep /\ walk'.seen = walk.seen \cup S
    BY <1>11
  <2>6. Grows(walk, walk', rep, S)
    BY <2>1, <2>2, <2>3, <2>4, <2>5 DEF Grows
  <2> QED
    BY <2>6, MoreTold
<1>16. Complete(walk')
  <2> SUFFICES ASSUME StaysPut(delta) PROVE Sound(walk') /\ LookedAt(walk') /\ AllPassed(walk')
    BY <1>11 DEF Complete
  <2> DEFINE tests == walk.includeTests
             gone == LostIn(delta, file)
  <2>0. Sound(walk) /\ LookedAt(walk) /\ AllPassed(walk)
    BY DEF Complete, delta
  <2>1. /\ \A f, g : ToCome(walk, f, g) =>
              \/ ToCome(walk', f, g)
              \/ Head(walk.todo).path = f /\ (g <=> Head(walk.todo).status = "D")
        /\ \A i \in 1 .. Len(walk'.todo) :
              \E k \in 1 .. Len(walk.todo) : walk'.todo[i] = walk.todo[k]
        /\ \E k \in 1 .. Len(walk.todo) : Head(walk.todo) = walk.todo[k]
    <3>1. walk'.todo = Tail(walk.todo) /\ walk.todo \in Seq(E) /\ walk.todo # << >>
      BY <1>1, <1>2, <1>11
    <3>2. Taken(walk, walk', E)
      BY <3>1 DEF Taken
    <3> QED
      BY <3>2, StillToCome
  <2>2. file \in GoneFiles(walk.statuses)
    BY <1>1, <2>0, <2>1 DEF AllPassed, head
  <2>3. ToldAs(rep, "removed") = gone \ walk.seen
    BY <1>5, <1>6
  <2>4. \A c : ToldAs(walk.symbols, c) \subseteq ToldAs(walk'.symbols, c)
    BY <1>15
  <2>5. Sound(walk')
    <3>1. gone \subseteq LostWith(delta, GoneFiles(walk.statuses))
      BY <2>2 DEF LostWith
    <3> HIDE DEF gone
    <3> QED
      BY <1>5, <1>11, <1>15, <2>0, <2>3, <3>1 DEF Sound, delta
  <2>6. \A r \in gone : r \notin QualifiedNames
    BY GoneNames DEF LostIn
  <2>7. LookedAt(walk')
    <3>1. ASSUME NEW r \in walk.seen PROVE ToldOf(walk', r)
      <4>1. ToldOf(walk, r)
        BY <2>0 DEF LookedAt
      <4> QED
        BY <1>11, <2>4, <4>1, ToldStays DEF delta
    <3>2. ASSUME NEW r \in S PROVE ToldOf(walk', r)
      <4>1. r \in gone /\ r \in ToldAs(walk'.symbols, "removed")
        BY <1>12, <1>15, <2>3
      <4>2. r \notin NowNames(delta, tests) /\ r \notin ThenNames(delta, tests)
            /\ r \notin Edits(delta, tests)
        BY <1>2, <2>6, <4>1, NamesQualified
      <4> QED
        BY <1>11, <4>1, <4>2 DEF ToldOf
    <3> QED
      BY <1>11, <3>1, <3>2 DEF LookedAt
  <2>8. AllPassed(walk')
    <3>1. ASSUME NEW f \in InSight(delta, tests)
          PROVE  \/ ToCome(walk', f, FALSE)
                 \/ f \in DOMAIN delta.ref /\ delta.ref[f] = delta.disk[f]
                 \/ Refs(f, delta.disk[f]) \cup Refs(f, DeclsAtRef(delta, f)) \subseteq walk'.seen
      <4>1. \/ ToCome(walk, f, FALSE)
            \/ f \in DOMAIN delta.ref /\ delta.ref[f] = delta.disk[f]
            \/ Refs(f, delta.disk[f]) \cup Refs(f, DeclsAtRef(delta, f)) \subseteq walk.seen
        BY <2>0 DEF AllPassed, delta
      <4> QED
        BY <1>1, <1>11, <2>1, <4>1 DEF head
    <3>2. ASSUME NEW f \in GoneFiles(walk.statuses)
          PROVE  ToCome(walk', f, TRUE) \/ LostIn(delta, f) \subseteq ToldAs(walk'.symbols, "removed")
      <4>1. CASE ToCome(walk, f, TRUE) /\ ~ToCome(walk', f, TRUE)
        <5>1. f = file
          BY <2>1, <4>1 DEF head
        <5>2. ASSUME NEW r \in gone PROVE r \in ToldAs(walk'.symbols, "removed")
          <6>1. CASE r \in walk.seen
            BY <2>0, <2>4, <2>6, <6>1 DEF LookedAt, ToldOf
          <6>2. CASE r \notin walk.seen
            BY <1>15, <2>3, <6>2
          <6> QED
            BY <6>1, <6>2
        <5> QED
          BY <5>1, <5>2
      <4>2. CASE LostIn(delta, f) \subseteq ToldAs(walk.symbols, "removed")
        BY <2>4, <4>2
      <4> QED
        BY <2>0, <4>1, <4>2 DEF AllPassed, delta
    <3>3. ASSUME NEW i \in 1 .. Len(walk'.todo), walk'.todo[i].status = "D"
          PROVE  walk'.todo[i].path \in GoneFiles(walk.statuses)
      BY <2>0, <2>1, <3>3 DEF AllPassed
    <3> QED
      BY <1>11, <3>1, <3>2, <3>3 DEF AllPassed
  <2> QED
    BY <2>5, <2>7, <2>8
<1> QED
  BY <1>11, <1>14, <1>15, <1>16

(* A file on disk is taken.                                                 *)
LEMMA ChangedTaken ==
  ASSUME IsChanges(walk), ~walk.done, ListKept(walk), Complete(walk), processChangedFile
  PROVE  /\ walk'.op = "changes" /\ ~walk'.done
         /\ IsChanges(walk') /\ ListKept(walk') /\ Complete(walk')
<1> DEFINE delta == walk.delta
           tests == walk.includeTests
           E == Entries(delta)
           head == Head(walk.todo)
           file == head.path
           here == SymbolsInFile(delta, file, tests)
           old == DeclsAtRef(delta, file)
           lost == Refs(file, old) \ (here \cup walk.seen)
           all == ReportFile(delta, file, tests, walk.seen)
           rep == IF here = {} THEN << >> ELSE all
           M == [from : DOMAIN delta.ref \cup {""}, to : DOMAIN delta.disk]
           moved == IF head.status = "R" THEN <<[from |-> head.old, to |-> file]>> ELSE << >>
           left == IF here = {} THEN {} ELSE lost
           S == here \cup left
           sum == Counting(walk.summary, rep, moved)
<1>1. /\ walk.todo # << >> /\ head.status # "D"
      /\ walk' = [walk EXCEPT !.todo = Tail(walk.todo), !.renamed = walk.renamed \o moved,
                              !.seen = IF here = {} THEN walk.seen
                                       ELSE walk.seen \cup here \cup Range(NamesInOrder(lost)),
                              !.symbols = walk.symbols \o rep, !.summary = sum]
  BY DEF processChangedFile, ReportFile
<1>2. IsDelta(delta) /\ walk \in ChangeWalks(delta) /\ walk.todo \in Seq(E)
  BY DEF IsChanges, ChangeWalks
<1>3. head \in E
  BY <1>1, <1>2
<1>4. /\ file \in DOMAIN delta.disk
      /\ moved \in Seq(M) /\ Len(moved) \in Nat
  <2>1. file \in DOMAIN delta.disk /\ head.old \in DOMAIN delta.ref \cup {""}
    BY <1>1, <1>3 DEF Entries
  <2> DEFINE m == [from |-> head.old, to |-> file]
  <2>2. m \in M
    BY <2>1
  <2> HIDE DEF m, M, file
  <2>3. <<m>> \in Seq(M) /\ << >> \in Seq(M) /\ Len(<<m>>) = 1 /\ Len(<< >>) = 0
    BY <2>2
  <2> QED
    BY <2>1, <2>3 DEF m
<1>5. /\ TellsFile(delta, file, tests, walk.seen, all) /\ Range(NamesInOrder(lost)) = lost
  <2> HIDE DEF delta, file, tests
  <2>1. IsDelta(delta) /\ file \in DOMAIN delta.disk
    BY <1>2, <1>4
  <2>2. IsTold(delta, file, tests, walk.seen)
    BY <2>1, FileTold
  <2> QED
    BY <2>2 DEF IsTold
<1>6. /\ Plain(delta, rep)
      /\ ToldAs(rep, "added") = (here \ walk.seen) \ Refs(file, old)
      /\ ToldAs(rep, "modified") =
            {r \in (here \ walk.seen) \cap Refs(file, old) :
                ShapeOf(file, delta.disk[file], r) # ShapeOf(file, old, r)}
      /\ ToldAs(rep, "removed") = left
  <2> HIDE DEF all
  <2>1. CASE here = {}
    BY <2>1, NothingTold
  <2>2. CASE here # {}
    BY <1>5, <2>2 DEF TellsFile
  <2> QED
    BY <2>1, <2>2
<1>7. /\ here \in {{}, Refs(file, delta.disk[file])}
      /\ here \subseteq QualifiedNames /\ lost \subseteq QualifiedNames
  <2> HIDE DEF delta, file, tests
  <2> QED
    BY <1>2, <1>4, FileIs
<1>8. /\ left \subseteq Refs(file, old) /\ left \cap (here \cup walk.seen) = {}
      /\ S \subseteq QualifiedNames /\ here \subseteq S /\ left \subseteq S
      /\ (here # {} => Refs(file, old) \subseteq walk.seen \cup S)
  BY <1>7
<1>9. walk' = [walk EXCEPT !.todo = Tail(walk.todo), !.renamed = walk.renamed \o moved,
                           !.seen = walk.seen \cup S,
                           !.symbols = walk.symbols \o rep, !.summary = sum]
  <2>1. (IF here = {} THEN walk.seen
         ELSE walk.seen \cup here \cup Range(NamesInOrder(lost))) = walk.seen \cup S
    BY <1>5
  <2> HIDE DEF rep, moved, lost, here, S, sum
  <2> QED
    BY <1>1, <2>1
<1> HIDE DEF rep, moved, all, left, S, M, E, head, lost
<1>10. rep \in Seq(Tellings(delta)) /\ walk.symbols \in Seq(Tellings(delta))
       /\ walk.summary \in Summaries /\ walk.renamed \in Seq(M)
  BY <1>2, <1>6 DEF Plain, ChangeWalks, M
<1>11. /\ sum \in Summaries
       /\ sum.added = walk.summary.added + Count(rep, "added")
       /\ sum.modified = walk.summary.modified + Count(rep, "modified")
       /\ sum.removed = walk.summary.removed + Count(rep, "removed")
       /\ sum.renamed = walk.summary.renamed + Len(moved)
  <2>1. \A c : Count(rep, c) \in Nat
    BY <1>10, OfCounts
  <2>2. Adds(walk.summary, rep, moved)
    BY <1>4, <1>10, <2>1 DEF Adds
  <2> QED
    BY <2>2, SummaryGrows
<1> HIDE DEF sum
<1>12. /\ walk'.op = "changes" /\ walk'.delta = delta /\ walk'.done = walk.done
       /\ walk'.includeTests = tests /\ walk'.statuses = walk.statuses
       /\ walk'.todo = Tail(walk.todo) /\ walk'.seen = walk.seen \cup S
       /\ walk'.symbols = walk.symbols \o rep /\ walk'.renamed = walk.renamed \o moved
       /\ walk'.summary = sum
  BY <1>2, <1>9 DEF ChangeWalks, delta, tests
<1>13. IsChanges(walk')
  <2>1. /\ walk.symbols \o rep \in Seq(Tellings(delta)) /\ walk.renamed \o moved \in Seq(M)
        /\ Tail(walk.todo) \in Seq(E)
    BY <1>1, <1>2, <1>4, <1>10
  <2>2. walk.seen \cup S \in SUBSET ChangedNames
    <3>1. walk.seen \in SUBSET ChangedNames
      BY <1>2 DEF ChangeWalks
    <3> QED
      BY <1>8, <3>1 DEF ChangedNames
  <2> HIDE DEF delta
  <2>3. walk' \in ChangeWalks(delta)
    BY <1>2, <1>9, <1>11, <2>1, <2>2 DEF ChangeWalks, E, M
  <2> QED
    BY <1>2, <1>12, <2>3 DEF IsChanges
<1>14. /\ ListKept(walk')
       /\ \A c : ToldAs(walk'.symbols, c) = ToldAs(walk.symbols, c) \cup ToldAs(rep, c)
  <2>1. \A i \in 1 .. Len(rep) : rep[i].ref \in S /\ rep[i].ref \notin walk.seen
    <3> TAKE i \in 1 .. Len(rep)
    <3>1. rep[i].change \in ChangeTypes /\ rep[i].ref \in ToldAs(rep, rep[i].change)
      BY <1>6 DEF Plain, ToldAs, PlacesOf
    <3>2. \A c \in ChangeTypes : ToldAs(rep, c) \subseteq S \ walk.seen
      BY <1>6, <1>8 DEF ChangeTypes
    <3> QED
      BY <3>1, <3>2
  <2>2. walk'.summary.renamed = Len(walk'.renamed)
    <3>1. Len(walk.renamed \o moved) = Len(walk.renamed) + Len(moved)
      BY <1>4, <1>10
    <3> QED
      BY <1>11, <1>12, <3>1 DEF ListKept
  <2>3. Plain(walk.delta, rep) /\ walk'.delta = walk.delta
    BY <1>6, <1>12 DEF delta
  <2>4. /\ walk'.summary.added = walk.summary.added + Count(rep, "added")
        /\ walk'.summary.modified = walk.summary.modified + Count(rep, "modified")
        /\ walk'.summary.removed = walk.summary.removed + Count(rep, "removed")
    BY <1>11, <1>12
  <2>5. walk'.symbols = walk.symbols \o rep /\ walk'.seen = walk.seen \cup S
    BY <1>12
  <2>6. Grows(walk, walk', rep, S)
    BY <2>1, <2>2, <2>3, <2>4, <2>5 DEF Grows
  <2> QED
    BY <2>6, MoreTold
<1>15. Complete(walk')
  <2> SUFFICES ASSUME StaysPut(delta) PROVE Sound(walk') /\ LookedAt(walk') /\ AllPassed(walk')
    BY <1>12 DEF Complete
  <2>1. Sound(walk) /\ LookedAt(walk) /\ AllPassed(walk)
    BY DEF Complete, delta
  <2>2. /\ \A f, g : ToCome(walk, f, g) =>
              \/ ToCome(walk', f, g)
              \/ Head(walk.todo).path = f /\ (g <=> Head(walk.todo).status = "D")
        /\ \A i \in 1 .. Len(walk'.todo) :
              \E k \in 1 .. Len(walk.todo) : walk'.todo[i] = walk.todo[k]
    <3>1. walk'.todo = Tail(walk.todo) /\ walk.todo \in Seq(E) /\ walk.todo # << >>
      BY <1>1, <1>2, <1>12
    <3>2. Taken(walk, walk', E)
      BY <3>1 DEF Taken
    <3> QED
      BY <3>2, StillToCome
  <2> DEFINE now == Refs(file, delta.disk[file])
             was == Refs(file, old)
  <2>3. here # {} => file \in InSight(delta, tests) /\ here = now
    BY <1>4, <1>7 DEF InSight
  <2>4. \A f \in InSight(delta, tests) : f \in DOMAIN delta.disk
    BY DEF InSight
  <2>5. \A f \in InSight(delta, tests), r \in now : r \in Refs(f, DeclsAtRef(delta, f)) => f = file
    BY <1>4, <2>4, OneFile
  <2>6. \A f \in InSight(delta, tests), r \in was : r \in Refs(f, delta.disk[f]) => f = file
    BY <1>4, <2>4, OneFile
  <2> HIDE DEF here, file, tests, delta, old
  <2>7. \A r \in here : /\ r \in NowNames(delta, tests)
                        /\ r \in ThenNames(delta, tests) <=> r \in was
                        /\ r \in Edits(delta, tests) <=> r \in EditedIn(delta, file)
    <3> SUFFICES ASSUME NEW r \in here
                 PROVE  /\ r \in NowNames(delta, tests)
                        /\ r \in ThenNames(delta, tests) <=> r \in was
                        /\ r \in Edits(delta, tests) <=> r \in EditedIn(delta, file)
      OBVIOUS
    <3>1. file \in InSight(delta, tests) /\ r \in now
      BY <2>3
    <3>2. r \in NowNames(delta, tests)
      BY <3>1 DEF NowNames
    <3>3. r \in ThenNames(delta, tests) <=> r \in was
      BY <2>5, <3>1 DEF ThenNames, old
    <3>4. r \in Edits(delta, tests) <=> r \in EditedIn(delta, file)
      BY <2>5, <3>1 DEF Edits, EditedIn
    <3> QED
      BY <3>2, <3>3, <3>4
  <2>8. \A r \in left : r \in ThenNames(delta, tests) /\ r \notin NowNames(delta, tests)
    <3> SUFFICES ASSUME NEW r \in left
                 PROVE  r \in ThenNames(delta, tests) /\ r \notin NowNames(delta, tests)
      OBVIOUS
    <3>1. file \in InSight(delta, tests) /\ here = now /\ r \in was /\ r \notin now
      BY <1>8, <2>3 DEF left
    <3>2. r \in ThenNames(delta, tests)
      BY <3>1 DEF ThenNames, old
    <3>3. r \notin NowNames(delta, tests)
      BY <2>6, <3>1 DEF NowNames
    <3> QED
      BY <3>2, <3>3
  <2>9. \A r : r \in ToldAs(rep, "modified") <=>
                  r \in here /\ r \notin walk.seen /\ r \in EditedIn(delta, file)
    <3>1. EditedIn(delta, file) =
             {r \in now \cap was : ShapeOf(file, delta.disk[file], r) # ShapeOf(file, old, r)}
      BY DEF EditedIn, old
    <3>2. \A r \in here : r \in now
      BY <2>3
    <3> HIDE DEF now, was
    <3> QED
      BY <1>6, <3>1, <3>2 DEF was
  <2>10. \A c : ToldAs(walk.symbols, c) \subseteq ToldAs(walk'.symbols, c)
                /\ ToldAs(rep, c) \subseteq ToldAs(walk'.symbols, c)
    BY <1>14
  <2>11. Sound(walk')
    <3>1. \A r \in ToldAs(rep, "modified") : r \in Edits(delta, tests)
      BY <2>7, <2>9
    <3>2. \A r \in ToldAs(rep, "added") : r \in NowNames(delta, tests) \ ThenNames(delta, tests)
      BY <1>6, <2>7
    <3>3. \A r \in ToldAs(rep, "removed") : r \in ThenNames(delta, tests) \ NowNames(delta, tests)
      BY <1>6, <2>8
    <3> QED
      BY <1>12, <1>14, <2>1, <3>1, <3>2, <3>3 DEF Sound, delta, tests
  <2>12. LookedAt(walk')
    <3>1. ASSUME NEW r \in walk.seen PROVE ToldOf(walk', r)
      <4>1. ToldOf(walk, r)
        BY <2>1 DEF LookedAt
      <4> QED
        BY <1>12, <2>10, <4>1, ToldStays DEF delta, tests
    <3>2. ASSUME NEW r \in S, r \notin walk.seen PROVE ToldOf(walk', r)
      <4>1. CASE r \in here
        <5>1. r \in Edits(delta, tests) => r \in ToldAs(walk'.symbols, "modified")
          BY <2>7, <2>9, <2>10, <3>2, <4>1
        <5>2. r \notin ThenNames(delta, tests) => r \in ToldAs(walk'.symbols, "added")
          BY <1>6, <2>7, <2>10, <3>2, <4>1
        <5> QED
          BY <1>8, <1>12, <2>7, <4>1, <5>1, <5>2 DEF ToldOf
      <4>2. CASE r \in left
        <5>1. Edits(delta, tests) \subseteq NowNames(delta, tests)
          BY <1>2, NamesQualified
        <5> QED
          BY <1>6, <1>12, <2>8, <2>10, <4>2, <5>1 DEF ToldOf
      <4> QED
        BY <4>1, <4>2 DEF S
    <3> QED
      BY <1>12, <3>1, <3>2 DEF LookedAt
  <2>13. AllPassed(walk')
    <3>1. ASSUME NEW f \in InSight(delta, tests)
          PROVE  \/ ToCome(walk', f, FALSE)
                 \/ f \in DOMAIN delta.ref /\ delta.ref[f] = delta.disk[f]
                 \/ Refs(f, delta.disk[f]) \cup Refs(f, DeclsAtRef(delta, f)) \subseteq walk'.seen
      <4>1. \/ ToCome(walk, f, FALSE)
            \/ f \in DOMAIN delta.ref /\ delta.ref[f] = delta.disk[f]
            \/ Refs(f, delta.disk[f]) \cup Refs(f, DeclsAtRef(delta, f)) \subseteq walk.seen
        BY <2>1 DEF AllPassed, delta, tests
      <4>2. CASE f # file
        BY <1>12, <2>2, <4>1, <4>2 DEF file, head
      <4>3. CASE f = file
        <5>1. here # {}
          BY <4>3 DEF InSight, here
        <5>2. now \cup was \subseteq walk'.seen
          BY <1>8, <1>12, <2>3, <5>1
        <5> QED
          BY <4>3, <5>2 DEF old
      <4> QED
        BY <4>2, <4>3
    <3>2. ASSUME NEW f \in GoneFiles(walk.statuses)
          PROVE  ToCome(walk', f, TRUE) \/ LostIn(delta, f) \subseteq ToldAs(walk'.symbols, "removed")
      <4>1. ToCome(walk, f, TRUE) => ToCome(walk', f, TRUE)
        BY <1>1, <2>2 DEF head
      <4> QED
        BY <2>1, <2>10, <4>1 DEF AllPassed, delta
    <3>3. ASSUME NEW i \in 1 .. Len(walk'.todo), walk'.todo[i].status = "D"
          PROVE  walk'.todo[i].path \in GoneFiles(walk.statuses)
      BY <2>1, <2>2, <3>3 DEF AllPassed
    <3> QED
      BY <1>12, <3>1, <3>2, <3>3 DEF AllPassed
  <2> QED
    BY <2>11, <2>12, <2>13
<1> QED
  BY <1>12, <1>13, <1>14, <1>15

-----------------------------------------------------------------------------
(* New names for lost ones.                                                 *)

Alike(symbols, change, shape) ==
  {i \in 1 .. Len(symbols) : symbols[i].change = change /\ symbols[i].shape = shape}

(* The places of one change and shape are counted from the first.           *)
LEMMA PlaceIs ==
  ASSUME NEW A, NEW symbols \in Seq(A), NEW change, NEW shape
  PROVE  LET P == Alike(symbols, change, shape) IN
         /\ Cardinality(P) \in Nat
         /\ \A i \in P : PlaceAmong(symbols, i) \in 1 .. Cardinality(P)
         /\ \A i, j \in P : PlaceAmong(symbols, i) = PlaceAmong(symbols, j) => i = j
         /\ \A k \in 1 .. Cardinality(P) : \E i \in P : PlaceAmong(symbols, i) = k
<1> DEFINE P == Alike(symbols, change, shape)
           Earlier(i) == {q \in P : q < i}
<1>0. Len(symbols) \in Nat /\ P \subseteq 1 .. Len(symbols)
  BY DEF Alike
<1>1. IsFiniteSet(P) /\ P \in SUBSET Nat
  <2>1. IsFiniteSet(1 .. Len(symbols)) /\ 1 .. Len(symbols) \subseteq Nat
    BY <1>0, FS_Interval
  <2> HIDE DEF P
  <2> QED
    BY <1>0, <2>1, FS_Subset
<1>2. ASSUME NEW i \in P
      PROVE  /\ Cardinality(Earlier(i)) \in Nat
             /\ PlaceAmong(symbols, i) = Cardinality(Earlier(i)) + 1
  <2>1. i \in 1 .. Len(symbols) /\ symbols[i].change = change /\ symbols[i].shape = shape
    BY DEF Alike
  <2> DEFINE to == {j \in 1 .. i : /\ symbols[j].change = symbols[i].change
                                   /\ symbols[j].shape = symbols[i].shape}
  <2>2. \A j \in 1 .. i : j \in 1 .. Len(symbols) /\ (j < i \/ j = i)
    BY <1>0, <2>1
  <2>3. \A j \in 1 .. Len(symbols) : j < i => j \in 1 .. i
    BY <1>0, <2>1
  <2>4. i \in 1 .. i /\ ~(i < i)
    BY <2>1
  <2>5. to = Earlier(i) \cup {i} /\ i \notin Earlier(i)
    BY <2>1, <2>2, <2>3, <2>4 DEF Alike
  <2>6. IsFiniteSet(Earlier(i))
    <3>1. Earlier(i) \subseteq P
      OBVIOUS
    <3> HIDE DEF P, Earlier
    <3> QED
      BY <1>1, <3>1, FS_Subset
  <2>7. PlaceAmong(symbols, i) = Cardinality(to)
    BY DEF PlaceAmong
  <2> HIDE DEF to, Earlier
  <2> QED
    BY <2>5, <2>6, <2>7, FS_AddElement, FS_CardinalityType
<1>3. /\ Cardinality(P) \in Nat
      /\ \A r \in P : Cardinality(Earlier(r)) \in 0 .. Cardinality(P) - 1
      /\ \A r, s \in P : Cardinality(Earlier(r)) = Cardinality(Earlier(s)) => r = s
      /\ \A i \in 1 .. Cardinality(P) : \E r \in P : Cardinality(Earlier(r)) = i - 1
  <2> HIDE DEF P
  <2> QED
    BY <1>1, PlacesOrdered
<1> HIDE DEF P, Earlier
<1>4. \A i \in P : PlaceAmong(symbols, i) \in 1 .. Cardinality(P)
  BY <1>2, <1>3
<1>5. \A i, j \in P : PlaceAmong(symbols, i) = PlaceAmong(symbols, j) => i = j
  BY <1>2, <1>3
<1>6. \A k \in 1 .. Cardinality(P) : \E i \in P : PlaceAmong(symbols, i) = k
  <2> TAKE k \in 1 .. Cardinality(P)
  <2>1. PICK i \in P : Cardinality(Earlier(i)) = k - 1
    BY <1>3
  <2> QED
    BY <1>2, <2>1
<1> QED
  BY <1>3, <1>4, <1>5, <1>6 DEF P

(* Pairs match lost names and new ones, none of either twice, until one or  *)
(* the other of a shape are used up.                                        *)
Matches(symbols, pairs) ==
  /\ \A x \in pairs : /\ x[1] \in 1 .. Len(symbols) /\ symbols[x[1]].change = "removed"
                      /\ x[2] \in 1 .. Len(symbols) /\ symbols[x[2]].change = "added"
  /\ \A x, y \in pairs : x[1] = y[1] <=> x[2] = y[2]
  /\ \A i, j \in 1 .. Len(symbols) :
        /\ symbols[i].change = "removed" /\ symbols[j].change = "added"
        /\ symbols[i].shape = symbols[j].shape /\ symbols[i].shape # NoShape
        => (\E x \in pairs : x[1] = i) \/ (\E x \in pairs : x[2] = j)

LEMMA PairsMatch ==
  ASSUME NEW A, NEW symbols \in Seq(A)
  PROVE  Matches(symbols, Paired(symbols))
<1> DEFINE pairs == Paired(symbols)
           D == 1 .. Len(symbols)
           Place(i) == PlaceAmong(symbols, i)
           P(shape) == Alike(symbols, "removed", shape)
           Q(shape) == Alike(symbols, "added", shape)
<1>1. \A x : x \in pairs <=>
         /\ x \in D \X D
         /\ symbols[x[1]].change = "removed" /\ symbols[x[2]].change = "added"
         /\ symbols[x[1]].shape = symbols[x[2]].shape /\ symbols[x[1]].shape # NoShape
         /\ Place(x[1]) = Place(x[2])
  <2>1. DOMAIN symbols = D
    OBVIOUS
  <2> QED
    BY <2>1 DEF Paired
<1> HIDE DEF pairs, D
<1>2. ASSUME NEW shape
      PROVE  /\ Cardinality(P(shape)) \in Nat /\ Cardinality(Q(shape)) \in Nat
             /\ \A i \in P(shape) : Place(i) \in 1 .. Cardinality(P(shape))
             /\ \A i \in Q(shape) : Place(i) \in 1 .. Cardinality(Q(shape))
             /\ \A i, j \in P(shape) : Place(i) = Place(j) => i = j
             /\ \A i, j \in Q(shape) : Place(i) = Place(j) => i = j
             /\ \A k \in 1 .. Cardinality(P(shape)) : \E i \in P(shape) : Place(i) = k
             /\ \A k \in 1 .. Cardinality(Q(shape)) : \E i \in Q(shape) : Place(i) = k
  BY PlaceIs
<1>3. \A shape : \A i : /\ i \in P(shape) <=> /\ i \in D /\ symbols[i].change = "removed"
                                              /\ symbols[i].shape = shape
                        /\ i \in Q(shape) <=> /\ i \in D /\ symbols[i].change = "added"
                                              /\ symbols[i].shape = shape
  BY DEF Alike, D
<1> HIDE DEF P, Q, Place
<1>4. ASSUME NEW x \in pairs, NEW y \in pairs PROVE x[1] = y[1] <=> x[2] = y[2]
  <2>1. /\ x[1] \in P(symbols[x[1]].shape) /\ x[2] \in Q(symbols[x[1]].shape)
        /\ y[1] \in P(symbols[y[1]].shape) /\ y[2] \in Q(symbols[y[1]].shape)
        /\ Place(x[1]) = Place(x[2]) /\ Place(y[1]) = Place(y[2])
        /\ symbols[x[1]].shape = symbols[x[2]].shape
        /\ symbols[y[1]].shape = symbols[y[2]].shape
    BY <1>1, <1>3
  <2>2. CASE x[1] = y[1]
    BY <1>2, <2>1, <2>2
  <2>3. CASE x[2] = y[2]
    BY <1>2, <2>1, <2>3
  <2> QED
    BY <2>2, <2>3
<1>5. ASSUME NEW i \in D, NEW j \in D,
             symbols[i].change = "removed", symbols[j].change = "added",
             symbols[i].shape = symbols[j].shape, symbols[i].shape # NoShape
      PROVE  (\E x \in pairs : x[1] = i) \/ (\E x \in pairs : x[2] = j)
  <2> DEFINE shape == symbols[i].shape
             p == Cardinality(P(shape))
             q == Cardinality(Q(shape))
  <2>1. i \in P(shape) /\ j \in Q(shape)
    BY <1>3, <1>5
  <2>2. p \in Nat /\ q \in Nat /\ Place(i) \in 1 .. p /\ Place(j) \in 1 .. q
    BY <1>2, <2>1
  <2>3. CASE Place(i) \in 1 .. q
    <3>1. PICK k \in Q(shape) : Place(k) = Place(i)
      BY <1>2, <2>3
    <3>2. <<i, k>> \in pairs
      BY <1>1, <1>3, <1>5, <3>1
    <3> QED
      BY <3>2
  <2>4. CASE Place(i) \notin 1 .. q
    <3>1. Place(j) \in 1 .. p
      BY <2>2, <2>4
    <3>2. PICK k \in P(shape) : Place(k) = Place(j)
      BY <1>2, <3>1
    <3>3. <<k, j>> \in pairs
      BY <1>1, <1>3, <1>5, <3>2
    <3> QED
      BY <3>3
  <2> QED
    BY <2>3, <2>4
<1>6. \A x \in pairs : /\ x[1] \in D /\ symbols[x[1]].change = "removed"
                       /\ x[2] \in D /\ symbols[x[2]].change = "added"
  BY <1>1
<1> QED
  BY <1>4, <1>5, <1>6 DEF Matches, pairs, D

(* All of a sequence is the sequence.                                       *)
LEMMA PickedAll ==
  ASSUME NEW A, NEW s \in Seq(A)
  PROVE  Picked(s, 1 .. Len(s)) = s
<1> DEFINE n == Len(s)
           P == 1 .. n
           CountTo(i) == Cardinality({q \in P : q < i})
<1>0. n \in Nat
  OBVIOUS
<1>1. IsFiniteSet(P) /\ Cardinality(P) = n /\ P \in SUBSET Nat
  <2> HIDE DEF n
  <2> QED
    BY <1>0, FS_Interval
<1>2. ASSUME NEW i \in P PROVE CountTo(i) = i - 1
  <2>1. {q \in P : q < i} = 1 .. i - 1 /\ i - 1 \in Nat
    BY <1>0
  <2>2. Cardinality(1 .. i - 1) = i - 1
    <3> DEFINE k == i - 1
    <3> HIDE DEF k
    <3>1. k \in Nat
      BY <2>1 DEF k
    <3>2. Cardinality(1 .. k) = k
      BY <3>1, FS_Interval
    <3> QED
      BY <3>2 DEF k
  <2> QED
    BY <2>1, <2>2
<1>3. ASSUME NEW i \in P PROVE Nth(P, i) = i
  <2>1. \A p \in P : CountTo(p) = i - 1 <=> p = i
    BY <1>0, <1>2
  <2>2. Nth(P, i) = CHOOSE p \in P : CountTo(p) = i - 1
    BY DEF Nth
  <2> HIDE DEF CountTo, P
  <2> QED
    BY <2>1, <2>2
<1>4. Picked(s, P) = [i \in P |-> s[Nth(P, i)]]
  BY <1>1 DEF Picked
<1> HIDE DEF P
<1>5. Picked(s, P) = [i \in P |-> s[i]]
  BY <1>3, <1>4
<1> QED
  BY <1>5 DEF P

(* The list once the pairs are told as renames.                             *)
Renamed(symbols) ==
  LET pairs == Paired(symbols)
      From(i) == CHOOSE x \in pairs : x[2] = i
  IN  [i \in DOMAIN symbols |->
          IF \E x \in pairs : x[2] = i
          THEN [symbols[i] EXCEPT !.change = "renamed",
                                  !.from = symbols[From(i)[1]].ref]
          ELSE IF \E x \in pairs : x[1] = i
          THEN [symbols[i] EXCEPT !.change = ""]
          ELSE symbols[i]]

TheirFroms(symbols) == {symbols[i].from : i \in PlacesOf(symbols, "renamed")}

IsReport(delta, symbols, kept) ==
  /\ kept \in Seq(Tellings(delta))
  /\ \A i, j \in PlacesOf(kept, "renamed") : i # j => kept[i].from # kept[j].from
  /\ \A i, j \in 1 .. Len(kept) :
        kept[i].change = "removed" /\ kept[j].change = "added" /\ kept[i].shape = kept[j].shape
            => kept[i].shape = NoShape
  /\ ToldAs(kept, "modified") = ToldAs(symbols, "modified")
  /\ ToldAs(kept, "added") \cup ToldAs(kept, "renamed") = ToldAs(symbols, "added")
  /\ ToldAs(kept, "removed") \cup TheirFroms(kept) = ToldAs(symbols, "removed")

LEMMA ReportIs ==
  ASSUME NEW delta, NEW symbols, Plain(delta, symbols)
  PROVE  /\ IsReport(delta, symbols, Worth(Renamed(symbols)))
         /\ Paired(symbols) = {} => Worth(Renamed(symbols)) = symbols
<1> DEFINE T == Tellings(delta)
           n == Len(symbols)
           pairs == Paired(symbols)
           First(i) == \E x \in pairs : x[1] = i
           Second(i) == \E x \in pairs : x[2] = i
           From(i) == (CHOOSE x \in pairs : x[2] = i)[1]
           r == Renamed(symbols)
           W == {i \in 1 .. Len(r) : r[i].change # ""}
           kept == Worth(r)
           N(k) == Nth(W, k)
<1>1. /\ symbols \in Seq(T) /\ n \in Nat /\ DOMAIN symbols = 1 .. n
      /\ \A i \in 1 .. n : symbols[i].change \in ChangeTypes /\ symbols[i] \in T
  <2>1. symbols \in Seq(T) /\ \A i \in 1 .. n : symbols[i].change \in ChangeTypes
    BY DEF Plain
  <2> HIDE DEF T
  <2> QED
    BY <2>1
<1>2. Matches(symbols, pairs)
  <2> HIDE DEF T, pairs
  <2> QED
    BY <1>1, PairsMatch DEF pairs
<1>3. r = [i \in 1 .. n |->
             IF Second(i)
             THEN [symbols[i] EXCEPT !.change = "renamed", !.from = symbols[From(i)].ref]
             ELSE IF First(i) THEN [symbols[i] EXCEPT !.change = ""] ELSE symbols[i]]
  BY <1>1 DEF Renamed
<1> HIDE DEF r, pairs, W, kept
<1>4. ASSUME NEW i \in 1 .. n
      PROVE  /\ First(i) => ~Second(i) /\ symbols[i].change = "removed"
             /\ Second(i) => /\ symbols[i].change = "added"
                             /\ From(i) \in 1 .. n
                             /\ \E x \in pairs : x[2] = i /\ From(i) = x[1]
  <2>1. First(i) => symbols[i].change = "removed"
    BY <1>2 DEF Matches
  <2>2. Second(i) => symbols[i].change = "added"
    BY <1>2 DEF Matches
  <2>3. Second(i) => /\ (CHOOSE x \in pairs : x[2] = i) \in pairs
                     /\ (CHOOSE x \in pairs : x[2] = i)[2] = i
    OBVIOUS
  <2> QED
    BY <1>2, <2>1, <2>2, <2>3 DEF Matches
<1> HIDE DEF From
<1>5. ASSUME NEW i \in 1 .. n
      PROVE  /\ r[i] \in T /\ r[i].ref = symbols[i].ref /\ r[i].shape = symbols[i].shape
             /\ r[i].change = IF Second(i) THEN "renamed"
                              ELSE IF First(i) THEN "" ELSE symbols[i].change
             /\ Second(i) => r[i].from = symbols[From(i)].ref
  <2>1. symbols[i] \in T
    BY <1>1
  <2>2. CASE Second(i)
    <3>1. r[i] = [symbols[i] EXCEPT !.change = "renamed", !.from = symbols[From(i)].ref]
      BY <1>3, <2>2
    <3>2. symbols[From(i)] \in T
      BY <1>1, <1>4, <2>2
    <3>3. symbols[From(i)].ref \in ChangedNames
      BY <3>2 DEF Tellings
    <3> HIDE DEF Second, First
    <3> QED
      BY <2>1, <2>2, <3>1, <3>3 DEF Tellings
  <2>3. CASE ~Second(i) /\ First(i)
    <3>1. r[i] = [symbols[i] EXCEPT !.change = ""]
      BY <1>3, <2>3
    <3> HIDE DEF Second, First
    <3> QED
      BY <2>1, <2>3, <3>1 DEF Tellings
  <2>4. CASE ~Second(i) /\ ~First(i)
    <3>1. r[i] = symbols[i]
      BY <1>3, <2>4
    <3> HIDE DEF Second, First
    <3> QED
      BY <2>1, <2>4, <3>1
  <2> QED
    BY <2>2, <2>3, <2>4
<1>6. r \in Seq(T) /\ Len(r) = n /\ DOMAIN r = 1 .. n
  <2>1. DOMAIN r = 1 .. n
    BY <1>3
  <2>2. r = [i \in 1 .. n |-> r[i]]
    BY <1>3
  <2>3. r \in [1 .. n -> T]
    BY <1>5, <2>2
  <2> HIDE DEF T, n
  <2> QED
    BY <1>1, <2>1, <2>3
<1>7. /\ kept \in Seq(T)
      /\ \A k \in 1 .. Len(kept) : N(k) \in W /\ kept[k] = r[N(k)]
      /\ \A k, l \in 1 .. Len(kept) : N(k) = N(l) => k = l
      /\ \A i \in W : \E k \in 1 .. Len(kept) : N(k) = i
  <2>1. kept = Picked(r, W) /\ W \in SUBSET (1 .. Len(r))
    BY <1>6 DEF kept, Worth, W
  <2> HIDE DEF T
  <2>2. r \in Seq(T) /\ W \in SUBSET (1 .. Len(r))
    BY <1>6, <2>1
  <2>3. /\ Picked(r, W) \in Seq(T)
        /\ \A k \in 1 .. Len(Picked(r, W)) : N(k) \in W /\ Picked(r, W)[k] = r[N(k)]
        /\ \A k, l \in 1 .. Len(Picked(r, W)) : N(k) = N(l) => k = l
        /\ \A i \in W : \E k \in 1 .. Len(Picked(r, W)) : N(k) = i
    BY <2>2, PickedIs
  <2> QED
    BY <2>1, <2>3
<1>8. \A i : i \in W <=> i \in 1 .. n /\ ~First(i)
  <2>1. \A i : i \in W <=> i \in 1 .. n /\ r[i].change # ""
    BY <1>6 DEF W
  <2>2. \A i \in 1 .. n : r[i].change # "" <=> ~First(i)
    <3> TAKE i \in 1 .. n
    <3>1. symbols[i].change # ""
      BY <1>1 DEF ChangeTypes
    <3> HIDE DEF First, Second
    <3> QED
      BY <1>4, <1>5, <3>1
  <2> QED
    BY <2>1, <2>2
<1> HIDE DEF N
<1>9. ASSUME NEW k \in 1 .. Len(kept)
      PROVE  /\ N(k) \in 1 .. n /\ ~First(N(k))
             /\ kept[k].ref = symbols[N(k)].ref /\ kept[k].shape = symbols[N(k)].shape
             /\ kept[k].change = IF Second(N(k)) THEN "renamed" ELSE symbols[N(k)].change
             /\ Second(N(k)) => kept[k].from = symbols[From(N(k))].ref
  <2>1. N(k) \in 1 .. n /\ ~First(N(k)) /\ kept[k] = r[N(k)]
    BY <1>7, <1>8
  <2> HIDE DEF First, Second
  <2> QED
    BY <1>5, <2>1
<1>10. ASSUME NEW i \in 1 .. n, ~First(i)
       PROVE  \E k \in 1 .. Len(kept) :
                 /\ kept[k].ref = symbols[i].ref
                 /\ kept[k].change = IF Second(i) THEN "renamed" ELSE symbols[i].change
                 /\ Second(i) => kept[k].from = symbols[From(i)].ref
  <2>1. PICK k \in 1 .. Len(kept) : N(k) = i
    BY <1>7, <1>8, <1>10
  <2> HIDE DEF First, Second
  <2> QED
    BY <1>9, <2>1
<1>11. \A k \in 1 .. Len(kept) :
          kept[k].change = "renamed" <=> Second(N(k))
  <2> TAKE k \in 1 .. Len(kept)
  <2>1. symbols[N(k)].change # "renamed"
    BY <1>1, <1>9 DEF ChangeTypes
  <2> HIDE DEF First, Second
  <2> QED
    BY <1>9, <2>1
<1>12. ASSUME NEW k \in PlacesOf(kept, "renamed"), NEW l \in PlacesOf(kept, "renamed"),
              kept[k].from = kept[l].from
       PROVE  k = l
  <2>1. /\ k \in 1 .. Len(kept) /\ l \in 1 .. Len(kept)
        /\ Second(N(k)) /\ Second(N(l)) /\ N(k) \in 1 .. n /\ N(l) \in 1 .. n
    BY <1>9, <1>11 DEF PlacesOf
  <2>2. symbols[From(N(k))].ref = symbols[From(N(l))].ref
    BY <1>9, <1>12, <2>1
  <2>3. /\ From(N(k)) \in 1 .. n /\ From(N(l)) \in 1 .. n
        /\ \E x \in pairs : x[2] = N(k) /\ From(N(k)) = x[1]
        /\ \E x \in pairs : x[2] = N(l) /\ From(N(l)) = x[1]
    BY <1>4, <2>1
  <2>4. From(N(k)) = From(N(l))
    BY <2>2, <2>3 DEF Plain, Distinct
  <2>5. N(k) = N(l)
    <3>1. PICK x \in pairs : x[2] = N(k) /\ From(N(k)) = x[1]
      BY <2>3
    <3>2. PICK y \in pairs : y[2] = N(l) /\ From(N(l)) = y[1]
      BY <2>3
    <3>3. x[1] = y[1]
      BY <2>4, <3>1, <3>2
    <3> QED
      BY <1>2, <3>1, <3>2, <3>3 DEF Matches
  <2> QED
    BY <1>7, <2>1, <2>5
<1>13. ASSUME NEW k \in 1 .. Len(kept), NEW l \in 1 .. Len(kept),
              kept[k].change = "removed", kept[l].change = "added", kept[k].shape = kept[l].shape
       PROVE  kept[k].shape = NoShape
  <2>1. ~Second(N(k)) /\ ~Second(N(l))
    BY <1>11, <1>13
  <2>2. /\ N(k) \in 1 .. n /\ N(l) \in 1 .. n /\ ~First(N(k)) /\ ~First(N(l))
        /\ symbols[N(k)].change = "removed" /\ symbols[N(l)].change = "added"
        /\ symbols[N(k)].shape = symbols[N(l)].shape
        /\ kept[k].shape = symbols[N(k)].shape
    <3> HIDE DEF First, Second
    <3> QED
      BY <1>9, <1>13, <2>1
  <2> QED
    BY <1>2, <2>1, <2>2 DEF Matches
<1>14. \A s, c, ref : ref \in ToldAs(s, c) <=>
          \E i \in 1 .. Len(s) : s[i].change = c /\ s[i].ref = ref
  BY DEF ToldAs, PlacesOf
<1>15. ToldAs(kept, "modified") = ToldAs(symbols, "modified")
  <2>1. ASSUME NEW k \in 1 .. Len(kept), kept[k].change = "modified"
        PROVE  kept[k].ref \in ToldAs(symbols, "modified")
    BY <1>9, <1>11, <1>14, <2>1
  <2>2. ASSUME NEW i \in 1 .. n, symbols[i].change = "modified"
        PROVE  symbols[i].ref \in ToldAs(kept, "modified")
    <3>1. ~First(i) /\ ~Second(i)
      BY <1>4, <2>2
    <3> QED
      BY <1>10, <1>14, <2>2, <3>1
  <2>3. ToldAs(kept, "modified") \subseteq ToldAs(symbols, "modified")
    BY <1>14, <2>1
  <2>4. ToldAs(symbols, "modified") \subseteq ToldAs(kept, "modified")
    BY <1>14, <2>2
  <2> QED
    BY <2>3, <2>4
<1>16. ToldAs(kept, "added") \cup ToldAs(kept, "renamed") = ToldAs(symbols, "added")
  <2>1. ASSUME NEW k \in 1 .. Len(kept), kept[k].change = "added" \/ kept[k].change = "renamed"
        PROVE  kept[k].ref \in ToldAs(symbols, "added")
    <3>1. N(k) \in 1 .. n /\ kept[k].ref = symbols[N(k)].ref
      BY <1>9
    <3>2. symbols[N(k)].change = "added"
      BY <1>4, <1>9, <1>11, <2>1
    <3> QED
      BY <1>14, <3>1, <3>2
  <2>2. ASSUME NEW i \in 1 .. n, symbols[i].change = "added"
        PROVE  symbols[i].ref \in ToldAs(kept, "added") \cup ToldAs(kept, "renamed")
    <3>1. ~First(i)
      BY <1>4, <2>2
    <3>2. PICK k \in 1 .. Len(kept) :
             /\ kept[k].ref = symbols[i].ref
             /\ kept[k].change = IF Second(i) THEN "renamed" ELSE symbols[i].change
      BY <1>10, <3>1
    <3> QED
      BY <1>14, <2>2, <3>2
  <2>3. ToldAs(kept, "added") \cup ToldAs(kept, "renamed") \subseteq ToldAs(symbols, "added")
    BY <1>14, <2>1
  <2>4. ToldAs(symbols, "added") \subseteq ToldAs(kept, "added") \cup ToldAs(kept, "renamed")
    BY <1>14, <2>2
  <2> QED
    BY <2>3, <2>4
<1>17. ToldAs(kept, "removed") \cup TheirFroms(kept) = ToldAs(symbols, "removed")
  <2>0. \A ref : ref \in TheirFroms(kept) <=>
           \E k \in 1 .. Len(kept) : kept[k].change = "renamed" /\ kept[k].from = ref
    BY DEF TheirFroms, PlacesOf
  <2>1. ASSUME NEW k \in 1 .. Len(kept), kept[k].change = "removed"
        PROVE  kept[k].ref \in ToldAs(symbols, "removed")
    BY <1>9, <1>11, <1>14, <2>1
  <2>2. ASSUME NEW k \in 1 .. Len(kept), kept[k].change = "renamed"
        PROVE  kept[k].from \in ToldAs(symbols, "removed")
    <3>1. Second(N(k)) /\ N(k) \in 1 .. n /\ kept[k].from = symbols[From(N(k))].ref
      BY <1>9, <1>11, <2>2
    <3>2. PICK x \in pairs : From(N(k)) = x[1]
      BY <1>4, <3>1
    <3>3. x[1] \in 1 .. n /\ symbols[x[1]].change = "removed"
      BY <1>2 DEF Matches
    <3> QED
      BY <1>14, <3>1, <3>2, <3>3
  <2>3. ASSUME NEW i \in 1 .. n, symbols[i].change = "removed"
        PROVE  symbols[i].ref \in ToldAs(kept, "removed") \cup TheirFroms(kept)
    <3>1. CASE ~First(i)
      <4>1. ~Second(i)
        BY <1>4, <2>3
      <4>2. PICK k \in 1 .. Len(kept) :
               kept[k].ref = symbols[i].ref /\ kept[k].change = "removed"
        BY <1>10, <2>3, <3>1, <4>1
      <4> QED
        BY <1>14, <4>2
    <3>2. CASE First(i)
      <4>1. PICK x \in pairs : x[1] = i
        BY <3>2
      <4>2. x[2] \in 1 .. n /\ Second(x[2]) /\ ~First(x[2])
        BY <1>2, <1>4, <4>1 DEF Matches
      <4>3. From(x[2]) = i
        <5>1. PICK y \in pairs : y[2] = x[2] /\ From(x[2]) = y[1]
          BY <1>4, <4>2
        <5> QED
          BY <1>2, <4>1, <5>1 DEF Matches
      <4>4. PICK k \in 1 .. Len(kept) :
               kept[k].change = "renamed" /\ kept[k].from = symbols[i].ref
        BY <1>10, <4>2, <4>3
      <4> QED
        BY <2>0, <4>4
    <3> QED
      BY <3>1, <3>2
  <2> QED
    BY <1>14, <2>0, <2>1, <2>2, <2>3
<1>18. ASSUME pairs = {} PROVE kept = symbols
  <2>1. \A i \in 1 .. n : r[i] = symbols[i]
    BY <1>3, <1>18
  <2>2. r = symbols
    BY <1>1, <1>6, <2>1
  <2>3. W = 1 .. Len(r)
    BY <1>6, <1>8, <1>18
  <2>4. kept = Picked(r, W)
    BY <1>6 DEF kept, Worth, W
  <2> HIDE DEF T
  <2> QED
    BY <1>1, <2>2, <2>3, <2>4, PickedAll
<1> QED
  <2>1. IsReport(delta, symbols, kept)
    BY <1>7, <1>12, <1>13, <1>15, <1>16, <1>17 DEF IsReport
  <2> QED
    BY <1>18, <2>1 DEF kept, r, pairs

-----------------------------------------------------------------------------
(* What the answer accounts for.                                            *)

Accounted(w) ==
  /\ w.symbols \in Seq(Tellings(w.delta)) /\ Counted(w)
  /\ w.summary.renamed = Count(w.symbols, "renamed") + Len(w.renamed)
  /\ \A i, j \in PlacesOf(w.symbols, "renamed") :
        i # j => w.symbols[i].from # w.symbols[j].from
  /\ \A i, j \in 1 .. Len(w.symbols) :
        /\ w.symbols[i].change = "removed" /\ w.symbols[j].change = "added"
        /\ w.symbols[i].shape = w.symbols[j].shape
        => w.symbols[i].shape = NoShape
  /\ StaysPut(w.delta) =>
        /\ ToldAs(w.symbols, "modified") = Edits(w.delta, w.includeTests)
        /\ ToldAs(w.symbols, "added") \cup ToldAs(w.symbols, "renamed") =
              NowNames(w.delta, w.includeTests) \ ThenNames(w.delta, w.includeTests)
        /\ ToldAs(w.symbols, "removed") \cup TheirFroms(w.symbols) =
              (ThenNames(w.delta, w.includeTests) \ NowNames(w.delta, w.includeTests))
              \cup LostWith(w.delta, GoneFiles(w.statuses))

(* When no file is to come, all there is to tell is told.                   *)
LEMMA AllTold ==
  ASSUME NEW w, IsChanges(w), w.todo = << >>, Sound(w), LookedAt(w), AllPassed(w)
  PROVE  /\ ToldAs(w.symbols, "modified") = Edits(w.delta, w.includeTests)
         /\ ToldAs(w.symbols, "added") =
               NowNames(w.delta, w.includeTests) \ ThenNames(w.delta, w.includeTests)
         /\ ToldAs(w.symbols, "removed") =
               (ThenNames(w.delta, w.includeTests) \ NowNames(w.delta, w.includeTests))
               \cup LostWith(w.delta, GoneFiles(w.statuses))
<1> DEFINE delta == w.delta
           tests == w.includeTests
           Was(f) == Refs(f, DeclsAtRef(delta, f))
           Is(f) == Refs(f, delta.disk[f])
<1>1. \A f, gone : ~ToCome(w, f, gone)
  <2>1. Len(w.todo) = 0 /\ 1 .. 0 = {}
    OBVIOUS
  <2> QED
    BY <2>1 DEF ToCome
<1>2. ASSUME NEW f \in InSight(delta, tests)
      PROVE  \/ Is(f) = Was(f) /\ EditedIn(delta, f) = {}
             \/ Is(f) \cup Was(f) \subseteq w.seen
  <2>1. \/ f \in DOMAIN delta.ref /\ delta.ref[f] = delta.disk[f]
        \/ Is(f) \cup Was(f) \subseteq w.seen
    BY <1>1 DEF AllPassed
  <2>2. ASSUME f \in DOMAIN delta.ref, delta.ref[f] = delta.disk[f]
        PROVE  Is(f) = Was(f) /\ EditedIn(delta, f) = {}
    <3>1. DeclsAtRef(delta, f) = delta.disk[f]
      BY <2>2 DEF DeclsAtRef, Files
    <3> QED
      BY <3>1 DEF EditedIn
  <2> QED
    BY <2>1, <2>2
<1>3. \A f \in GoneFiles(w.statuses) : LostIn(delta, f) \subseteq ToldAs(w.symbols, "removed")
  BY <1>1 DEF AllPassed
<1>4. \A r \in w.seen :
         /\ r \in Edits(delta, tests) => r \in ToldAs(w.symbols, "modified")
         /\ (/\ r \in NowNames(delta, tests)
             /\ r \notin ThenNames(delta, tests)) => r \in ToldAs(w.symbols, "added")
         /\ (/\ r \in ThenNames(delta, tests)
             /\ r \notin NowNames(delta, tests)) => r \in ToldAs(w.symbols, "removed")
  BY DEF LookedAt, ToldOf
<1>5. Edits(delta, tests) \subseteq ToldAs(w.symbols, "modified")
  <2> SUFFICES ASSUME NEW f \in InSight(delta, tests), NEW r \in EditedIn(delta, f)
               PROVE  r \in ToldAs(w.symbols, "modified")
    BY DEF Edits
  <2>1. r \in Is(f)
    BY DEF EditedIn
  <2>2. r \in w.seen /\ r \in Edits(delta, tests)
    BY <1>2, <2>1 DEF Edits
  <2> QED
    BY <1>4, <2>2
<1>6. NowNames(delta, tests) \ ThenNames(delta, tests) \subseteq ToldAs(w.symbols, "added")
  <2> SUFFICES ASSUME NEW f \in InSight(delta, tests), NEW r \in Is(f),
                      r \notin ThenNames(delta, tests)
               PROVE  r \in ToldAs(w.symbols, "added")
    BY DEF NowNames
  <2>1. r \notin Was(f) /\ r \in NowNames(delta, tests)
    BY DEF ThenNames, NowNames
  <2>2. r \in w.seen
    BY <1>2, <2>1
  <2> QED
    BY <1>4, <2>1, <2>2
<1>7. ThenNames(delta, tests) \ NowNames(delta, tests) \subseteq ToldAs(w.symbols, "removed")
  <2> SUFFICES ASSUME NEW f \in InSight(delta, tests), NEW r \in Was(f),
                      r \notin NowNames(delta, tests)
               PROVE  r \in ToldAs(w.symbols, "removed")
    BY DEF ThenNames
  <2>1. r \notin Is(f) /\ r \in ThenNames(delta, tests)
    BY DEF ThenNames, NowNames
  <2>2. r \in w.seen
    BY <1>2, <2>1
  <2> QED
    BY <1>4, <2>1, <2>2
<1>8. LostWith(delta, GoneFiles(w.statuses)) \subseteq ToldAs(w.symbols, "removed")
  BY <1>3 DEF LostWith
<1> QED
  BY <1>5, <1>6, <1>7, <1>8 DEF Sound

(* The answer is made.                                                      *)
LEMMA ChangesReported ==
  ASSUME IsChanges(walk), ListKept(walk), Complete(walk), reportRenames
  PROVE  /\ walk'.op = "changes" /\ walk'.done /\ walk'.todo = << >>
         /\ IsChanges(walk') /\ Accounted(walk')
<1> DEFINE delta == walk.delta
           T == Tellings(delta)
           symbols == walk.symbols
           kept == Worth(Renamed(symbols))
           sum == IF Paired(symbols) = {} THEN walk.summary
                  ELSE recountChangedSummary(kept, walk.summary)
<1>1. /\ walk.todo = << >>
      /\ walk' = [walk EXCEPT !.done = TRUE, !.symbols = kept, !.summary = sum]
  BY DEF reportRenames, Renamed
<1>2. Plain(delta, symbols) /\ Counted(walk) /\ walk.summary.renamed = Len(walk.renamed)
  BY DEF ListKept
<1>3. IsReport(delta, symbols, kept) /\ (Paired(symbols) = {} => kept = symbols)
  <2> HIDE DEF delta, symbols
  <2> QED
    BY <1>2, ReportIs
<1>4. /\ IsDelta(delta) /\ walk \in ChangeWalks(delta) /\ walk.summary \in Summaries
      /\ symbols \in Seq(T) /\ kept \in Seq(T) /\ Len(walk.renamed) \in Nat
  <2>1. IsDelta(delta) /\ walk \in ChangeWalks(delta)
    BY DEF IsChanges
  <2>2. /\ walk.summary \in Summaries
        /\ walk.renamed \in Seq([from : DOMAIN delta.ref \cup {""}, to : DOMAIN delta.disk])
    BY <2>1 DEF ChangeWalks
  <2>3. symbols \in Seq(T) /\ kept \in Seq(T)
    BY <1>2, <1>3 DEF Plain, IsReport
  <2>4. Len(walk.renamed) \in Nat
    <3> DEFINE R == [from : DOMAIN delta.ref \cup {""}, to : DOMAIN delta.disk]
    <3>1. walk.renamed \in Seq(R)
      BY <2>2
    <3> HIDE DEF R
    <3> QED
      BY <3>1
  <2> QED
    BY <2>1, <2>2, <2>3, <2>4
<1>5. \A c : Count(symbols, c) \in Nat /\ Count(kept, c) \in Nat
  <2> HIDE DEF symbols, kept, T
  <2> QED
    BY <1>4, OfCounts
<1>6. /\ sum \in Summaries
      /\ \A c \in ChangeTypes : sum[c] = Count(kept, c)
      /\ sum.renamed = Count(kept, "renamed") + Len(walk.renamed)
  <2>1. CASE Paired(symbols) = {}
    <3>1. kept = symbols /\ sum = walk.summary
      BY <1>3, <2>1
    <3>2. Count(symbols, "renamed") = 0
      <4>1. PlacesOf(symbols, "renamed") = {}
        BY <1>2 DEF Plain, ChangeTypes, PlacesOf
      <4> QED
        BY <4>1, FS_EmptySet DEF Count
    <3> HIDE DEF sum, kept
    <3> QED
      BY <1>2, <1>4, <3>1, <3>2 DEF Counted
  <2>2. CASE Paired(symbols) # {}
    <3> HIDE DEF kept
    <3>1. sum = [added |-> Count(kept, "added"), modified |-> Count(kept, "modified"),
                 removed |-> Count(kept, "removed"),
                 renamed |-> walk.summary.renamed + Count(kept, "renamed"),
                 filesChanged |-> walk.summary.filesChanged]
      BY <2>2 DEF recountChangedSummary
    <3>2. walk.summary.filesChanged \in Nat
      BY <1>4 DEF Summaries
    <3>3. /\ sum.added = Count(kept, "added") /\ sum.modified = Count(kept, "modified")
          /\ sum.removed = Count(kept, "removed")
          /\ sum.renamed = walk.summary.renamed + Count(kept, "renamed")
      BY <3>1
    <3>4. \A c \in ChangeTypes : sum[c] = Count(kept, c)
      <4> HIDE DEF sum
      <4> QED
        BY <3>3 DEF ChangeTypes
    <3>5. sum.renamed = Count(kept, "renamed") + Len(walk.renamed)
          /\ walk.summary.renamed + Count(kept, "renamed") \in Nat
      <4> DEFINE k == Count(kept, "renamed")
                 m == Len(walk.renamed)
      <4>1. k \in Nat /\ m \in Nat /\ walk.summary.renamed = m
        BY <1>2, <1>4, <1>5
      <4>2. sum.renamed = walk.summary.renamed + k
        BY <3>3
      <4> HIDE DEF k, m, sum
      <4> QED
        BY <4>1, <4>2 DEF k, m
    <3>6. sum \in Summaries
      <4> HIDE DEF sum
      <4> QED
        BY <1>5, <3>1, <3>2, <3>5 DEF Summaries
    <3> QED
      BY <3>4, <3>5, <3>6
  <2> QED
    BY <2>1, <2>2
<1> HIDE DEF kept, sum, T
<1>7. /\ walk'.op = "changes" /\ walk'.delta = delta /\ walk'.done /\ walk'.todo = << >>
      /\ walk'.includeTests = walk.includeTests /\ walk'.statuses = walk.statuses
      /\ walk'.symbols = kept /\ walk'.renamed = walk.renamed /\ walk'.summary = sum
  BY <1>1, <1>4 DEF ChangeWalks
<1>8. IsChanges(walk')
  <2>1. walk' \in ChangeWalks(delta)
    BY <1>1, <1>4, <1>6 DEF ChangeWalks, T
  <2> QED
    BY <1>4, <1>7, <2>1 DEF IsChanges
<1>9. Accounted(walk')
  <2>1. Counted(walk')
    BY <1>6, <1>7 DEF Counted
  <2>2. ASSUME StaysPut(delta)
        PROVE  /\ ToldAs(kept, "modified") = Edits(delta, walk.includeTests)
               /\ ToldAs(kept, "added") \cup ToldAs(kept, "renamed") =
                     NowNames(delta, walk.includeTests) \ ThenNames(delta, walk.includeTests)
               /\ ToldAs(kept, "removed") \cup TheirFroms(kept) =
                     (ThenNames(delta, walk.includeTests) \ NowNames(delta, walk.includeTests))
                     \cup LostWith(delta, GoneFiles(walk.statuses))
    <3>1. Sound(walk) /\ LookedAt(walk) /\ AllPassed(walk)
      BY <2>2 DEF Complete
    <3> QED
      BY <1>1, <1>3, <3>1, AllTold DEF IsReport
  <2> QED
    BY <1>3, <1>4, <1>6, <1>7, <2>1, <2>2 DEF Accounted, IsReport, T
<1> QED
  BY <1>7, <1>8, <1>9

(* A comparison is under way, its list kept and complete, or answered.      *)
ChangesInv ==
  /\ index \in Indexes
  /\ walk.op = "changes" =>
        /\ IsChanges(walk)
        /\ ~walk.done => ListKept(walk) /\ Complete(walk)
        /\ walk.done => walk.todo = << >> /\ Accounted(walk)

LEMMA ChangesInvInit == Init => ChangesInv
BY DEF Init, ChangesInv, Idle

LEMMA ChangesInvNext == ChangesInv /\ [ChangeNext]_vars => ChangesInv'
<1> SUFFICES ASSUME ChangesInv, [ChangeNext]_vars PROVE ChangesInv'
  OBVIOUS
<1>1. CASE BeginDelta
  <2>1. index \in Indexes /\ index' = index
    BY <1>1 DEF BeginDelta, ChangesInv
  <2>2. PICK request \in Requests(index) : request.op = "changes" /\ BeginChanges(request)
    BY <1>1 DEF BeginDelta
  <2> QED
    BY <2>1, <2>2, ChangesBegin DEF ChangesInv
<1>2. CASE ChangeStep
  <2>1. /\ index \in Indexes /\ index' = index /\ walk.op = "changes" /\ IsChanges(walk)
        /\ ~walk.done => ListKept(walk) /\ Complete(walk)
        /\ walk.done => walk.todo = << >>
        /\ processDeletedFile \/ processChangedFile \/ reportRenames
    BY <1>2 DEF ChangeStep, ChangesInv
  <2>2. CASE processDeletedFile
    <3>1. ~walk.done
      BY <2>1, <2>2 DEF processDeletedFile
    <3> QED
      BY <2>1, <2>2, <3>1, GoneTaken DEF ChangesInv
  <2>3. CASE processChangedFile
    <3>1. ~walk.done
      BY <2>1, <2>3 DEF processChangedFile
    <3> QED
      BY <2>1, <2>3, <3>1, ChangedTaken DEF ChangesInv
  <2>4. CASE reportRenames
    <3>1. ~walk.done
      BY <2>4 DEF reportRenames
    <3> QED
      BY <2>1, <2>4, <3>1, ChangesReported DEF ChangesInv
  <2> QED
    BY <2>1, <2>2, <2>3, <2>4
<1>3. CASE UNCHANGED vars
  BY <1>3 DEF vars, ChangesInv, IsChanges, ListKept, Complete, Accounted, Counted, Sound,
      LookedAt, ToldOf, AllPassed, ToCome
<1> QED
  BY <1>1, <1>2, <1>3 DEF ChangeNext

LEMMA ChangesInvariant == ChangeSpec => []ChangesInv
BY ChangesInvInit, ChangesInvNext, PTL DEF ChangeSpec

(* The answer of one member alone is its list.                              *)
LEMMA SingleAnswer ==
  ASSUME NEW w, NEW A, w.symbols \in Seq(A)
  PROVE  WorkspaceChangedSymbols(<<w>>).symbols = w.symbols
<1> DEFINE answers == <<w>>
           lists == [i \in DOMAIN answers |-> answers[i].symbols]
           list == w.symbols
           Body(c) == [i \in 1 .. 1 |-> IF i = 1 THEN list ELSE c[i - 1] \o list]
           flatten == CHOOSE c : c = Body(c)
<1>1. lists = [i \in 1 .. 1 |-> list]
  OBVIOUS
<1>2. WorkspaceChangedSymbols(answers).symbols = FlattenSeq(lists)
  BY DEF WorkspaceChangedSymbols
<1>3. Len(lists) = 1 /\ \A i \in 1 .. 1 : lists[i] = list
  BY <1>1
<1> HIDE DEF lists, list
<1>4. FlattenSeq(lists) = flatten[1]
  <2> DEFINE Body2(c) == [i \in 1 .. Len(lists) |-> IF i = 1 THEN lists[i] ELSE c[i - 1] \o lists[i]]
             flatten2 == CHOOSE c : c = Body2(c)
  <2>1. FlattenSeq(lists) = flatten2[Len(lists)]
    BY <1>3 DEF FlattenSeq
  <2>2. \A c : Body2(c) = Body(c)
    BY <1>3
  <2>3. flatten2 = flatten
    BY <2>2
  <2> QED
    BY <1>3, <2>1, <2>3
<1>5. flatten = Body(flatten)
  <2> DEFINE h == [i \in 1 .. 1 |-> list]
  <2>1. h = Body(h)
    OBVIOUS
  <2> HIDE DEF h
  <2> QED
    BY <2>1
<1> HIDE DEF flatten
<1>6. flatten[1] = list
  BY <1>5
<1> QED
  BY <1>2, <1>4, <1>6 DEF list

(* What the invariant says of an answer.                                    *)
LEMMA ChangesAnswered == ChangesInv => ChangesAccounted
<1> DEFINE delta == walk.delta
           tests == walk.includeTests
           T == Tellings(delta)
<1> SUFFICES ASSUME ChangesInv, Answered PROVE ChangesAccounted
  BY DEF ChangesAccounted
<1>1. IsChanges(walk) /\ Accounted(walk) /\ walk.symbols \in Seq(T)
  BY DEF ChangesInv, Answered, Accounted
<1>2. walk.statuses \in Seq(Entries(delta))
  BY <1>1 DEF IsChanges, ChangeWalks
<1>3. Range(walk.symbols) = {walk.symbols[i] : i \in 1 .. Len(walk.symbols)}
  <2> HIDE DEF T
  <2>1. DOMAIN walk.symbols = 1 .. Len(walk.symbols)
    BY <1>1
  <2> QED
    BY <2>1 DEF Range
<1>4. Range(walk.statuses) = {walk.statuses[i] : i \in 1 .. Len(walk.statuses)}
  <2> DEFINE E == Entries(delta)
  <2> HIDE DEF E
  <2>1. DOMAIN walk.statuses = 1 .. Len(walk.statuses)
    <3>1. walk.statuses \in Seq(E)
      BY <1>2 DEF E
    <3> QED
      BY <3>1
  <2> QED
    BY <2>1 DEF Range
<1>5. Deleted = GoneFiles(walk.statuses)
  BY <1>4 DEF Deleted, GoneFiles
<1>6. Seen(delta) = InSight(delta, tests)
  BY DEF Seen, InSight, Files
<1>7. /\ Reported({"modified"}) = ToldAs(walk.symbols, "modified")
      /\ Reported({"added", "renamed"}) =
            ToldAs(walk.symbols, "added") \cup ToldAs(walk.symbols, "renamed")
      /\ Reported({"removed"}) = ToldAs(walk.symbols, "removed")
  BY <1>3 DEF Reported, ToldAs, PlacesOf
<1>8. WorkspaceChangedSymbols(<<walk>>).symbols = walk.symbols
  BY <1>1, SingleAnswer
<1>9. \A s, t \in Range(walk.symbols) :
         s.change = "removed" /\ t.change = "added" /\ s.shape = t.shape => s.shape = NoShape
  BY <1>1, <1>3 DEF Accounted
<1>10. StaysPut(delta) =>
          /\ Reported({"modified"}) = Edits(delta, tests)
          /\ Reported({"added", "renamed"}) = NowNames(delta, tests) \ ThenNames(delta, tests)
          /\ Reported({"removed"}) \cup TheirFroms(walk.symbols) =
                (ThenNames(delta, tests) \ NowNames(delta, tests)) \cup LostWith(delta, Deleted)
  BY <1>1, <1>5, <1>7 DEF Accounted
<1>11. /\ Edits(delta, tests) =
             UNION {{r \in Refs(f, delta.disk[f]) \cap Refs(f, DeclsAtRef(delta, f)) :
                       ShapeOf(f, delta.disk[f], r)
                          # ShapeOf(f, DeclsAtRef(delta, f), r)} : f \in Seen(delta)}
       /\ NowNames(delta, tests) = UNION {Refs(f, delta.disk[f]) : f \in Seen(delta)}
       /\ ThenNames(delta, tests) = UNION {Refs(f, DeclsAtRef(delta, f)) : f \in Seen(delta)}
       /\ LostWith(delta, Deleted) =
             UNION {{<<f, d.name[2]>> : d \in delta.ref[f]} : f \in Deleted}
       /\ TheirFroms(walk.symbols) =
             {walk.symbols[i].from : i \in PlacesOf(walk.symbols, "renamed")}
  BY <1>6 DEF Edits, EditedIn, NowNames, ThenNames, LostWith, LostIn, TheirFroms
<1>12. /\ \A change \in {"added", "modified", "removed"} :
             walk.summary[change] = Count(walk.symbols, change)
       /\ walk.summary.renamed =
             Cardinality(PlacesOf(walk.symbols, "renamed")) + Len(walk.renamed)
       /\ \A i, j \in PlacesOf(walk.symbols, "renamed") :
             i # j => walk.symbols[i].from # walk.symbols[j].from
  BY <1>1 DEF Accounted, Counted, ChangeTypes, Count
<1> QED
  BY <1>8, <1>9, <1>10, <1>11, <1>12 DEF ChangesAccounted

(* For any trees and whatever git takes for moved: when every shared name   *)
(* has stayed in its file, the answer accounts for every difference in the  *)
(* files it looks into, once, and its counts are those of its list          *)
(* (processDeletedFile, processChangedFile, reportRenames).                 *)
THEOREM ChangesAreAccounted == ChangeSpec => []ChangesAccounted
BY ChangesInvariant, ChangesAnswered, PTL
=============================================================================

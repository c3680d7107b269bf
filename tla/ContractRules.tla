---------------------------- MODULE ContractRules ----------------------------
(* What the contract analysis makes of an index: the links between message *)
(* constants of two repositories, the drift between their structs, and the *)
(* links suggested by shape alone (contract/contract.go, analyze.go,       *)
(* drift.go, the second half of runner.go; the queries over the rows in    *)
(* store.go).  When an analysis runs is the subject of ContractFreshness;  *)
(* here the index stays as it is and the analysis is repeated, because Go  *)
(* iterates over its maps in an order of its own each time.                *)
EXTENDS Integers, Sequences, FiniteSets, FiniteSetsExt

CONSTANTS
    Packages,      \* numbered in the order of their paths
    RepoOf(_),     \* a package's repository, numbered in the same order
    Names,         \* constants are MsgType<name>, structs <name>
    Hints(_),      \* the role words the text of a name or a line contains
    Contents,      \* what a package may hold
    Threshold,     \* ConfidenceThreshold, in tenths
    SuppressPairs  \* pairs of references the configuration leaves out

(* A package holds constants (a value for each name), structs (a sequence  *)
(* of fields for each name) and the uses of its constants, a sequence for  *)
(* each of its files.                                                      *)
ASSUME RulesAssumption ==
    /\ Packages \subseteq Nat
    /\ \A p \in Packages : RepoOf(p) \in Nat
    /\ \A p, q \in Packages : p < q => RepoOf(p) <= RepoOf(q)
    /\ \A c \in Contents :
          /\ DOMAIN c.consts \subseteq Names
          /\ DOMAIN c.structs \subseteq Names
          /\ \A n \in DOMAIN c.structs : LET s == c.structs[n] IN
                s \in Seq({s[i] : i \in DOMAIN s})
    /\ Threshold \in 0 .. 10
    /\ \A pair \in SuppressPairs : pair = <<pair[1], pair[2]>>

VARIABLES
    declared,     \* what each package holds
    contracts,    \* table contracts
    drifts,       \* table drift
    suppressed    \* table contract_suppressions

ruleVars == <<declared, contracts, drifts, suppressed>>

-----------------------------------------------------------------------------
(* Comparing two structs.                                                  *)

Fields(s) == {s[i] : i \in DOMAIN s}
Wires(s) == {f.wire : f \in Fields(s)}

(* Of two fields under one wire name the later one is kept.                *)
TypeUnder(s, w) ==
    s[CHOOSE i \in DOMAIN s :
        s[i].wire = w /\ \A j \in DOMAIN s : s[j].wire = w => j <= i].type

Compare(a, b) ==
    [both    |-> Wires(a) \cap Wires(b),
     onlyA   |-> Wires(a) \ Wires(b),
     onlyB   |-> Wires(b) \ Wires(a),
     changed |-> {w \in Wires(a) \cap Wires(b) :
                     TypeUnder(a, w) # TypeUnder(b, w)}]

Identical(a, b) ==
    LET c == Compare(a, b) IN
    /\ c.changed = {}
    /\ Cardinality(c.both) = Len(a)
    /\ Cardinality(c.both) = Len(b)

(* A field one side alone has is taken for an addition of that side.       *)
AdditionsCompatible(a, b) ==
    IF Compare(a, b).changed # {} THEN "breaking" ELSE "compatible"

Severity(a, b) ==
    IF ~Identical(a, b) /\ (Compare(a, b).changed # {} \/ Compare(a, b).onlyB # {})
    THEN "breaking" ELSE "compatible"

(* Fields missing on both sides are paired by type, each at most once, in  *)
(* the order the maps yield them; nothing else is reported beside them.    *)
DriftFields(a, b) ==
    LET c == Compare(a, b)
        Entry(w, status) == [wire |-> <<w>>, status |-> status]
        Pairings == {m \in SUBSET (c.onlyA \X c.onlyB) :
            /\ \A x \in m : TypeUnder(a, x[1]) = TypeUnder(b, x[2])
            /\ \A x, y \in m : x # y => x[1] # y[1] /\ x[2] # y[2]}
        Full(m) == \A n \in Pairings : m \subseteq n => n = m
    IN  IF c.onlyA # {} /\ c.onlyB # {}
        THEN {{[wire |-> x, status |-> "renamed"] : x \in m} :
                 m \in {n \in Pairings : Full(n)}}
        ELSE {{Entry(w, "removed") : w \in c.onlyA}
                 \cup {Entry(w, "added") : w \in c.onlyB}
                 \cup {Entry(w, "type_changed") : w \in c.changed}}

-----------------------------------------------------------------------------
(* The constants and the structs of the index.                             *)

Constant(p, n) == <<p, "MsgType", n>>
Struct(p, n) == <<p, "", n>>

Constants(ix) ==
    UNION {{[pkg |-> p, name |-> n, value |-> ix[p].consts[n],
             ref |-> Constant(p, n)] : n \in DOMAIN ix[p].consts} : p \in Packages}

Structs(ix) ==
    UNION {{[pkg |-> p, fields |-> ix[p].structs[n], ref |-> Struct(p, n)] :
                n \in DOMAIN ix[p].structs} : p \in Packages}

(* Every pair of constants that share a value, in whatever repositories.   *)
PairedAnywhere(ix) ==
    {pair \in Constants(ix) \X Constants(ix) :
        /\ pair[1].value = pair[2].value
        /\ pair[1].pkg < pair[2].pkg}

(* FindSharedTypeConstants: the side of the repository that sorts first    *)
(* comes first.                                                            *)
SharedPairs(ix) ==
    {pair \in Constants(ix) \X Constants(ix) :
        /\ pair[1].value = pair[2].value
        /\ RepoOf(pair[1].pkg) < RepoOf(pair[2].pkg)}

(* The struct named like the constant, or the one struct of the package,   *)
(* or any of them: the last case takes the first one a map yields.         *)
AssociatedStructs(ix, c) ==
    LET structs == ix[c.pkg].structs IN
    IF c.name \in DOMAIN structs THEN {structs[c.name]}
    ELSE {structs[n] : n \in DOMAIN structs}

-----------------------------------------------------------------------------
(* Directions.                                                             *)

encodeHints == {"marshal", "encode", "send", "publish", "write", "put"}
decodeHints == {"unmarshal", "decode", "receive", "subscribe", "read", "get"}

classifySiteRole(text) ==
    IF Hints(text) \cap encodeHints # {} THEN "producer"
    ELSE IF Hints(text) \cap decodeHints # {} THEN "consumer" ELSE "none"

(* The role of a constant is that of its last use in the file a map yields *)
(* last among those that use it; order says which one that is.             *)
WireSiteRole(ix, c, order) ==
    LET files == ix[c.pkg].uses
        Uses(f) == SelectSeq(files[f], LAMBDA use : use.name = c.name)
        using == {i \in DOMAIN order :
                     order[i] \in DOMAIN files /\ Uses(order[i]) # << >>}
        last == Uses(order[Max(using)])
    IN  IF using = {} THEN "none" ELSE classifySiteRole(last[Len(last)].text)

InferDirection(from, to) ==
    LET Produces(c) == Hints(c.name) \cap encodeHints # {}
        Consumes(c) == Hints(c.name) \cap decodeHints # {}
    IN  IF Produces(from) /\ Consumes(to) THEN "producer"
        ELSE IF Consumes(from) /\ Produces(to) THEN "consumer" ELSE "shared"

InferContractDirection(ix, from, to, order) ==
    LET roles == <<WireSiteRole(ix, from, order), WireSiteRole(ix, to, order)>> IN
    CASE roles = <<"producer", "consumer">> -> "producer"
      [] roles = <<"consumer", "producer">> -> "consumer"
      [] OTHER -> InferDirection(from, to)

-----------------------------------------------------------------------------
(* The analysis.                                                           *)

ConfidenceScore(signalA, signalB) ==
    (IF signalA THEN 6 ELSE 0) + (IF signalB THEN 4 ELSE 0)

Link(from, to, direction, confidence, severity, suggested) ==
    [from |-> from, to |-> to, direction |-> direction,
     confidence |-> confidence, severity |-> severity, suggested |-> suggested]

Drift(from, to, severity, fields) ==
    [from |-> from, to |-> to, severity |-> severity, fields |-> fields]

(* What comparing the structs of one pair may come to; a pair of which one  *)
(* struct is unknown is not compared, and of structs that are alike no      *)
(* drift is reported.                                                       *)
Verdict(match, severity, drift) ==
    [match |-> match, severity |-> severity, drift |-> drift]

Verdicts(ix, pair) ==
    LET sides == AssociatedStructs(ix, pair[1]) \X AssociatedStructs(ix, pair[2])
        Found(s) == IF Identical(s[1], s[2]) THEN {{}}
                    ELSE {{fields} : fields \in DriftFields(s[1], s[2])}
    IN  IF sides = {} THEN {Verdict(FALSE, "unknown", {})}
        ELSE UNION {{Verdict(Compare(s[1], s[2]).changed = {},
                             Severity(s[1], s[2]), drift) : drift \in Found(s)} :
                        s \in sides}

LinkOf(ix, pair, verdict, order) ==
    LET confidence == ConfidenceScore(TRUE, verdict.match) IN
    Link(pair[1].ref, pair[2].ref,
         InferContractDirection(ix, pair[1], pair[2], order),
         confidence, verdict.severity, confidence < Threshold)

ReportsOf(pair, verdict) ==
    {Drift(pair[1].ref, pair[2].ref, verdict.severity, fields) : fields \in verdict.drift}

(* DetectConstantDrift: one name with two values, or one value with two    *)
(* names.                                                                  *)
ConstantDrifts(ix) ==
    LET across == {pair \in Constants(ix) \X Constants(ix) :
                      RepoOf(pair[1].pkg) < RepoOf(pair[2].pkg)}
        Report(pair, severity, status) ==
            Drift(pair[1].ref, pair[2].ref, severity,
                  {[wire |-> <<"constant_value">>, status |-> status]})
    IN  {Report(pair, "breaking", "value_changed") : pair \in
            {x \in across : x[1].name = x[2].name /\ x[1].value # x[2].value}}
        \cup
        {Report(pair, "unknown", "same_value_different_name") : pair \in
            {x \in across : x[1].name # x[2].name /\ x[1].value = x[2].value}}

(* No attention is paid to a constant the packages share.                  *)
NeverShared(ix, p, q) == FALSE

HaveSharedConstant(ix, p, q) ==
    \E m \in DOMAIN ix[p].consts, n \in DOMAIN ix[q].consts :
        ix[p].consts[m] = ix[q].consts[n]

SuggestedShapePairs(ix) ==
    {Link(pair[1].ref, pair[2].ref, "shared", ConfidenceScore(FALSE, TRUE),
          "compatible", TRUE) : pair \in
        {x \in Structs(ix) \X Structs(ix) :
            /\ RepoOf(x[1].pkg) < RepoOf(x[2].pkg)
            /\ Wires(x[1].fields) \cap Wires(x[2].fields) # {}
            /\ ~HaveSharedConstant(ix, x[1].pkg, x[2].pkg)
            /\ Identical(x[1].fields, x[2].fields)}}

IsSuppressed(row, pairs) ==
    <<row.from, row.to>> \in pairs \/ <<row.to, row.from>> \in pairs

Kept(rows, pairs) == {row \in rows : ~IsSuppressed(row, pairs)}

(* RunAnalysis and WriteContractsAll: each pair comes to one verdict, and   *)
(* whatever was in the tables goes.                                         *)
Analyze ==
    LET pairs == SharedPairs(declared) IN
    \E order \in {<<1, 2>>, <<2, 1>>} :
    \E chosen \in [pairs -> UNION {Verdicts(declared, pair) : pair \in pairs}] :
        /\ \A pair \in pairs : chosen[pair] \in Verdicts(declared, pair)
        /\ contracts' = Kept({LinkOf(declared, pair, chosen[pair], order) : pair \in pairs}
                                 \cup SuggestedShapePairs(declared),
                             SuppressPairs)
        /\ drifts' = Kept(ConstantDrifts(declared)
                              \cup UNION {ReportsOf(pair, chosen[pair]) : pair \in pairs},
                          SuppressPairs)
        /\ UNCHANGED <<declared, suppressed>>

(* SuppressContracts, for a pair in either direction.                      *)
Suppress(from, to) ==
    /\ suppressed' = suppressed \cup {<<from, to>>}
    /\ UNCHANGED <<declared, contracts, drifts>>

RulesInit ==
    /\ declared \in [Packages -> Contents]
    /\ contracts = {}
    /\ drifts = {}
    /\ suppressed = SuppressPairs

-----------------------------------------------------------------------------
(* The queries.                                                            *)

QueryContracts == Kept(contracts, suppressed)

QueryDrift == Kept(drifts, suppressed)

(* BlastRadiusWithContracts adds the consumers a symbol's own links name.  *)
ContractConsumers(ref) ==
    {row \in QueryContracts :
        /\ ~row.suggested
        /\ \/ row.from = ref /\ row.direction = "producer"
           \/ row.to = ref /\ row.direction = "consumer"}

-----------------------------------------------------------------------------
(* What must hold.                                                         *)

Rows ==
    [from : {Constant(p, n) : p \in Packages, n \in Names}
               \cup {Struct(p, n) : p \in Packages, n \in Names},
     to   : {Constant(p, n) : p \in Packages, n \in Names}
               \cup {Struct(p, n) : p \in Packages, n \in Names}]

(* The tables hold links and reports between references of the index.      *)
TypeOK ==
    /\ declared \in [Packages -> Contents]
    /\ \A row \in contracts \cup drifts :
          [from |-> row.from, to |-> row.to] \in Rows
    /\ \A row \in contracts :
          /\ row.direction \in {"producer", "consumer", "shared"}
          /\ row.severity \in {"compatible", "breaking", "unknown"}
          /\ row.confidence \in {4, 6, 10}
          /\ row.suggested \in BOOLEAN

LinksOf(rows, x, y) == {row \in rows : {row.from, row.to} = {x, y}}

(* An analysis links two constants exactly once when they share a value    *)
(* across repositories and are not left out, and never otherwise; and it   *)
(* suggests a link by shape only between packages it links by no constant  *)
(* (findPairsAcrossRepos, shapeOnlyContract).                              *)
LinkedOnce ==
    [][contracts' # contracts =>
        /\ \A x, y \in Constants(declared) :
              Cardinality(LinksOf(contracts', x.ref, y.ref)) =
                  IF /\ RepoOf(x.pkg) # RepoOf(y.pkg)
                     /\ x.value = y.value
                     /\ {<<x.ref, y.ref>>, <<y.ref, x.ref>>} \cap SuppressPairs = {}
                  THEN 1 ELSE 0
        /\ \A x, y \in Structs(declared) :
              LinksOf(contracts', x.ref, y.ref) # {} =>
                  \A m, n \in Constants(declared) :
                      m.pkg = x.pkg /\ n.pkg = y.pkg => m.value # n.value]_ruleVars

(* b reads what a writes: it asks for no field a lacks or gives another    *)
(* type.                                                                   *)
Decodes(b, a) ==
    \A w \in Wires(b) : w \in Wires(a) /\ TypeUnder(a, w) = TypeUnder(b, w)

ConstantOf(ref) ==
    CHOOSE c \in Constants(declared) : c.ref = ref

(* A link called compatible is one whose second side can read what the     *)
(* first side writes (ClassifyDriftSeverity).                              *)
CompatibleDecodes ==
    \A row \in contracts :
        row.severity = "compatible" /\ row.from[2] = "MsgType" =>
            \E a \in AssociatedStructs(declared, ConstantOf(row.from)),
               b \in AssociatedStructs(declared, ConstantOf(row.to)) : Decodes(b, a)

(* A pair once dismissed, in either direction, is shown by no query, not   *)
(* after another analysis either (mcp/contract_handlers.go, the tool       *)
(* suppress_contract).                                                     *)
SuppressedHidden ==
    \A pair \in suppressed :
        /\ LinksOf(QueryContracts \cup QueryDrift, pair[1], pair[2]) = {}
        /\ \A ref \in {pair[1], pair[2]} :
              LinksOf(ContractConsumers(ref), pair[1], pair[2]) = {}

(* The rows shown are the links that hold and that nobody has dismissed.    *)
LinksHold == CompatibleDecodes /\ SuppressedHidden

(* Against the comment of ClassifyDriftSeverity: additions are compatible  *)
(* when they are the producer's.  Where the sites say that the second side *)
(* is the producer, the first one is taken for it all the same.            *)
SeverityFollowsDirection ==
    \A row \in contracts :
        row.severity = "compatible" /\ row.direction = "consumer" =>
            \E a \in AssociatedStructs(declared, ConstantOf(row.from)),
               b \in AssociatedStructs(declared, ConstantOf(row.to)) : Decodes(a, b)

(* Against the comment of collectCrossRepoPairs ("edge direction is        *)
(* deterministic across runs"): the same index gives the same links.       *)
SameIndexSameLinks ==
    [][contracts # {} => \A row \in contracts, new \in contracts' :
           row.from = new.from /\ row.to = new.to
               => row.direction = new.direction]_ruleVars

(* Against decodeHints, which names "unmarshal": a constant used in a line *)
(* that unmarshals is consumed there.                                      *)
UnmarshalConsumes ==
    \A x, y \in Constants(declared), row \in contracts :
        (/\ row.from = x.ref
         /\ row.to = y.ref
         /\ \A use \in UNION {{f[i] : i \in DOMAIN f} :
                f \in {declared[x.pkg].uses[k] : k \in DOMAIN declared[x.pkg].uses}} :
                    use.text = "send"
         /\ \A use \in UNION {{f[i] : i \in DOMAIN f} :
                f \in {declared[y.pkg].uses[k] : k \in DOMAIN declared[y.pkg].uses}} :
                    use.text = "unmarshal"
         /\ declared[x.pkg].uses # << >> /\ declared[y.pkg].uses # << >>)
        => row.direction = "producer"
=============================================================================

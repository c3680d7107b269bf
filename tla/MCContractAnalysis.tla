------------------------- MODULE MCContractAnalysis -------------------------
(* A small instance of ContractAnalysis: a package of one repository and   *)
(* two of another for the links, and the files of up to two statements,    *)
(* one nested in another, for the runtime contracts.  The two have nothing *)
(* to do with each other, so one of them is the plainest there is.         *)
EXTENDS ContractAnalysis

ThePackages == {1, 2, 3}
TheRepo(p) == IF p = 1 THEN 1 ELSE 2

TheHints(text) ==
    CASE text = "unmarshal" -> {"marshal", "unmarshal"}
      [] text = "Get" -> {"get"}
      [] text = "Put" -> {"put"}
      [] OTHER -> {text}

Fd(wire, type) == [wire |-> wire, type |-> type]
Use(name, text) == [name |-> name, text |-> text]
None == [n \in {} |-> n]
One(name, x) == [n \in {name} |-> x]
Two(x, y) == [n \in {"Get", "Put"} |-> IF n = "Get" THEN x ELSE y]

Small == <<Fd("id", "int")>>
Large == <<Fd("id", "int"), Fd("to", "string")>>
Other == <<Fd("id", "string"), Fd("at", "string")>>
Twice == <<Fd("id", "string"), Fd("id", "int")>>

Holds(consts, structs, uses) ==
    [consts |-> consts, structs |-> structs, uses |-> uses]

Sends == <<<<Use("Get", "send")>>>>
Reads == <<<<Use("Get", "read")>>>>
Mixed == <<<<Use("Get", "read"), Use("Put", "send")>>, <<Use("Get", "send")>>>>

TheContents ==
    {Holds(None, None, << >>)} \cup
    {Holds(c, s, << >>) : c \in {None, One("Put", "b")},
                          s \in {One("Get", Small), One("Get", Large), Two(Small, Other)}}
    \cup {Holds(One("Get", "a"), s, u) :
              s \in {None, One("Get", Small), One("Put", Large), Two(Large, Other),
                     One("Get", Twice)},
              u \in {Sends, Reads}}
    \cup {Holds(Two("a", "b"), One("Put", Large), u) :
              u \in {Mixed, <<<<Use("Get", "unmarshal")>>>>}}

ThePairs == {<<Constant(1, "Put"), Constant(3, "Put")>>}

-----------------------------------------------------------------------------
Extractor(kind, imports, producers, consumers, config, prefix) ==
    [kind |-> kind, imports |-> imports, producers |-> producers,
     consumers |-> consumers, config |-> config, prefix |-> prefix,
     shapes |-> IF kind = "redis" THEN <<"dir">> ELSE << >>,
     decode |-> prefix # "", argIndex |-> 0]

TheBuiltin ==
    <<Extractor("redis", {"redis"}, {"Set"}, {"Get"}, << >>, ""),
      Extractor("jetstream", {"nats"}, {"Publish"}, {},
                <<[word |-> "StreamConfig", fields |-> {"Name"}]>>, ""),
      Extractor("ws_type", {}, {}, {}, << >>, "MsgType")>>

TheCustom ==
    <<[Extractor("redis", {"valkey"}, {"Swap"}, {"Set"}, << >>, "")
          EXCEPT !.shapes = <<"any">>],
      Extractor("jetstream", {}, {}, {},
                <<[word |-> "Consumer", fields |-> {"Durable"}]>>, ""),
      [Extractor("amqp", {"amqp"}, {"Push"}, {}, << >>, "") EXCEPT !.argIndex = 1]>>

TheNormalize(e, literal) == IF literal = "k/2" THEN "k/" ELSE literal
TheShape(shape, literal) == shape = "any" \/ literal = "k/"
ThePrefix(word, prefix) == word = "MsgTypeAsk" /\ prefix = "MsgType"
TheMention(text, part) == text = part \/ (text = "msgType" /\ part = "msgtype")

T(mark) == [t |-> mark, v |-> mark]
I(word) == [t |-> "id", v |-> word]
L(literal) == [t |-> "lit", v |-> literal]

Call(method, args) == <<I("c"), T("."), I(method), T("(")>> \o args \o <<T(")")>>

Value(word, field, value) ==
    <<I(word), T("{"), I(field), T(":")>> \o value \o <<T("}")>>

Simple ==
    {<<Call("Set", <<I("x"), T(","), L("k/")>>)>>,
     <<Call("Set", <<I("f"), T("("), L("k/2"), T(")"), T(","), L("v")>>)>>,
     <<Call("Set", Call("Get", <<L("k/")>>) \o <<T(","), L("v")>>)>>,
     <<<<I("c"), T("."), I("Get"), T("(")>>, <<L("k/"), T(",")>>, <<T(")")>>>>,
     <<<<I("c"), T("."), I("Swap"), T("["), I("K"), T("]"), T("("), I("K"), T("{"),
         L("k/"), T("}"), T(","), L("v"), T(")")>>>>,
     <<Call("Push", <<L("v"), T(","), L("ask")>>)>>,
     <<<<I("p"), T("="), L("k/")>>>>,
     <<<<T("//")>> \o Call("Set", <<L("k/")>>)>>,
     <<<<I("c"), T("._")>>, <<I("Set"), T("("), L("k/"), T(")")>>>>,
     <<Call("Add", Value("StreamConfig", "Name", <<L("s")>>))>>,
     <<Call("Add", Value("StreamConfig", "Name", <<I("n")>>) \o <<T(","), L("v")>>)>>,
     <<<<T("//")>> \o Value("StreamConfig", "Name", Call("F", <<L("s")>>))>>,
     <<Call("Add", Value("Consumer", "Durable", <<L("s")>>))>>}

Block(head, inner) == <<head>> \o inner \o <<<<T("}")>>>>

Switch(subject, operands, inner) ==
    Block(<<I("switch")>> \o subject \o <<T("{")>>,
          <<<<I("case"), I("y"), T(":")>>>> \o inner \o operands)

Compound(inner) ==
    {Switch(<<I("m"), T("."), I("For")>>,
            <<<<I("case"), L("ask"), T(","), I("MsgTypeAsk"), T(","),
                I("q"), T("."), I("Done"), T(","), T("//"), I("end")>>,
              <<L("end"), T(":")>>>>, inner),
     Switch(<<I("status")>>, <<<<I("case"), L("v"), T(":")>>>>, inner),
     Block(<<I("if"), I("x"), T("{")>>, inner)}

Statements == Simple \cup UNION {Compound(x) : x \in Simple}

Texts ==
    Statements
    \cup UNION {Compound(x \o y) : x \in UNION {Compound(<< >>)}, y \in Statements}
    \cup {x \o y : x \in Simple, y \in Statements}

TheConsts ==
    {[pkg |-> "p", base |-> "p", name |-> "MsgTypeAsk", value |-> "ask",
      ref |-> "p.MsgTypeAsk", path |-> "b.go", line |-> 1],
     [pkg |-> "x/q", base |-> "q", name |-> "Done", value |-> "done",
      ref |-> "q.Done", path |-> "c.go", line |-> 1]}

NoSource == [files |-> {}, consts |-> {}]

TheSources ==
    {NoSource}
    \cup {[files |-> {[path |-> "a.go", pkg |-> "p", imports |-> imports, lines |-> text,
                       decls |-> {[line |-> 1, ref |-> "p.F"], [line |-> 3, ref |-> "p.G"]}]},
           consts |-> TheConsts] :
              text \in Texts,
              imports \in {{"redis", "nats", "amqp"}, {"nats"}}}

MCInit ==
    /\ \/ source = NoSource /\ RulesInit
       \/ /\ declared = [p \in Packages |-> Holds(None, None, << >>)]
          /\ source \in Sources
          /\ contracts = {} /\ drifts = {} /\ suppressed = SuppressPairs
    /\ runtime = {}
=============================================================================

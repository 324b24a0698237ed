----------------------------- MODULE MCToolCalls -----------------------------
(***************************************************************************)
(* ToolCalls for TLC: the parse trees of queries that hide a fragment at   *)
(* every place a pipe can stand, and the calls of every mutating action.   *)
(***************************************************************************)
EXTENDS ToolCalls, SequencesExt

-----------------------------------------------------------------------------
(***************************************************************************)
(* A node is written with its children, and is the sequence of its pairs,  *)
(* each with how many it spans.                                            *)
(***************************************************************************)

Node(rule, text, kids) ==
    LET inner == FlattenSeq(kids) IN
    <<[rule |-> rule, text |-> text, span |-> Len(inner) + 1]>> \o inner

Leaf(rule, text) == Node(rule, text, <<>>)

TreeOf(pairs) ==
    [size |-> Len(pairs),
     rule |-> [i \in DOMAIN pairs |-> pairs[i].rule],
     text |-> [i \in DOMAIN pairs |-> pairs[i].text],
     last |-> [i \in DOMAIN pairs |-> i + pairs[i].span - 1]]

\* Operators begin with their keyword.
Op(rule, kids) == Node(rule, "", <<Leaf("kw", "")>> \o kids)

Args(kids) == Node("call_args", "", kids)

Name(n) == Node("name_ref", n, <<Leaf("ident", "")>>)

Member(n) == Node("member", n, <<Leaf("ident", "")>>)

Chain(parts) == Node("postfix", "", parts)

Table(n) == Chain(<<Name(n)>>)

Expr(n) == Node("expr", "", <<n>>)

Pipe(head, ops) == Node("pipe_expr", "", <<Node("pipe_head", "", <<head>>)>> \o ops)

Paren(pipe) == Node("paren_pipe", "", <<pipe>>)

In(sources) ==
    <<Leaf("kw_in", "")>> \o [i \in DOMAIN sources |->
        Node("find_source", "", <<sources[i]>>)]

Operand(n) == Node("tabular_operand", "", <<n>>)

Devices == Pipe(Expr(Table("DeviceInfo")), <<Op("take_op", <<>>)>>)

-----------------------------------------------------------------------------
(***************************************************************************)
(* Queries: every fragment at every place a pipe can stand.                *)
(***************************************************************************)

\* The fragments a query is built around.
Fragment == [
    table      |-> Pipe(Expr(Table("DeviceInfo")), <<>>),
    custom     |-> Pipe(Expr(Table("Custom_CL")), <<Op("count_op", <<>>)>>),
    literal    |-> Pipe(Expr(Leaf("typed_literal", "1d")), <<>>),
    outside    |-> Pipe(Op("externaldata_op", <<Leaf("string_lit", "")>>), <<>>),
    external   |-> Pipe(Expr(Chain(<<Name("external_table"), Args(<<>>)>>)), <<>>),
    cluster    |-> Pipe(Expr(Chain(<<Name("cluster"), Args(<<>>),
                                     Member("Events")>>)), <<>>),
    member     |-> Pipe(Expr(Chain(<<Name("workspace"), Args(<<>>),
                                     Member("database"), Args(<<>>),
                                     Member("Events")>>)), <<>>),
    tableCall  |-> Pipe(Expr(Chain(<<Name("table"),
                          Args(<<Expr(Leaf("string_lit", "DeviceInfo"))>>)>>)),
                        <<>>),
    plugin     |-> Pipe(Op("print_op", <<Expr(Table("Id"))>>),
                        <<Op("evaluate_op",
                             <<Node("plugin_call", "",
                                    <<Name("http_request"), Args(<<>>)>>)>>)>>),
    search     |-> Pipe(Op("search_op", <<Expr(Table("Id"))>>), <<>>),
    searchIn   |-> Pipe(Op("search_op",
                           <<Leaf("find_param", "")>> \o In(<<Table("DeviceInfo")>>)
                             \o <<Expr(Table("Id"))>>), <<>>),
    wildcard   |-> Pipe(Expr(Table("DeviceInfo")),
                        <<Op("union_op", <<Leaf("table_pattern", "Device*")>>)>>) ]

\* "T | op", with something in the operator.
With(op, kids) == Pipe(Expr(Table("DeviceInfo")), <<Op(op, kids)>>)

Let(n, value) ==
    Node("let_stmt", "", <<Leaf("kw_let", ""),
                           Node("name_decl", n, <<Leaf("ident", "")>>), value>>)

Set(option) ==
    Node("set_stmt", "", <<Leaf("kw_set", ""), Leaf("option_name", option)>>)

\* The places a pipe can stand at.
Place == {"alone", "letValue", "function", "joined", "joinChain", "unioned",
          "listed", "argument", "findSource", "nested", "beforeLet", "afterSet"}

Hiding(place, p) ==
    CASE place = "alone"      -> <<p>>
      [] place = "letValue"   -> <<Let("x", p), Devices>>
      [] place = "function"   ->
           <<Let("f", Node("function_decl", "",
                           <<Node("fn_param", "", <<Leaf("name_decl", "n")>>),
                             Node("fn_body", "", <<p>>)>>)),
             Devices>>
      [] place = "joined"     -> <<With("join_op", <<Operand(Paren(p))>>)>>
      [] place = "joinChain"  ->
           <<With("join_op", <<Operand(Chain(<<Paren(p)>>))>>)>>
      [] place = "unioned"    -> <<With("union_op", <<Paren(p)>>)>>
      [] place = "listed"     ->
           <<With("where_op",
                  <<Node("expr", "", <<Table("Id"),
                                       Node("in_list", "", <<p>>)>>)>>)>>
      [] place = "argument"   ->
           <<With("where_op", <<Chain(<<Name("toscalar"), Args(<<p>>)>>)>>)>>
      [] place = "findSource" ->
           <<Pipe(Op("find_op", In(<<Paren(p)>>) \o <<Expr(Table("Id"))>>), <<>>)>>
      [] place = "nested"     ->
           <<Pipe(Expr(Chain(<<Paren(p)>>)), <<Op("summarize_op", <<>>)>>)>>
      [] place = "beforeLet"  -> <<p, Let("DeviceInfo", Devices)>>
      [] place = "afterSet"   -> <<Set("notruncation"), p>>

MCQuery == Place \X (DOMAIN Fragment)

MCTree ==
    [q \in MCQuery |->
        TreeOf(Node("query", "", Hiding(q[1], Fragment[q[2]])
                                   \o <<Leaf("EOI", "")>>))]

MCLimits == 0 .. GraphRowLimit + 1

-----------------------------------------------------------------------------
(***************************************************************************)
(* Calls of mutating actions: the fields an action needs or all it uses,   *)
(* but for one more or one less, with usual values but for one.            *)
(***************************************************************************)

Tables == INSTANCE MutationArguments WITH Call <- {}

MCAction == Tables!ResponseAction \cup Tables!DeviceAction
                \cup Tables!IndicatorAction \cup Tables!TriageAction

Usual(f) ==
    CASE f = "status" -> "resolved"
      [] f = "classification" -> "falsePositive"
      [] f = "determination" -> "notMalicious"
      [] f = "indicator_type" -> "FileSha1"
      [] f = "indicator_action" -> "Block"
      [] f \in {"generate_alert", "override_if_exists"} -> "true"
      [] f = "isolation_type" -> "Selective"
      [] f = "scan_type" -> "Quick"
      [] f \in {"device_value", "severity"} -> "High"
      [] OTHER -> "plain"

Calls(a, fields) ==
    {[action |-> a, args |-> [f \in fields |-> Usual(f)]]}
        \cup {[action |-> a,
               args |-> [f \in fields |-> IF f = g[1] THEN g[2] ELSE Usual(f)]] :
                g \in UNION {{f} \X Tables!Value(f) : f \in fields}}

FieldSets(a) ==
    LET few == Tables!Needs(a) \cup ({"comment", "justification"}
                                        \cap Tables!FieldOf(a))
        all == Tables!Uses(a)
    IN  UNION {{s, s \cup {f}, s \ {f}} :
                s \in {few, all}, f \in Tables!FieldOf(a)}

\* Every status with every pair, and every kind of indicator.
TriageCalls ==
    {[action |-> a,
      args |-> [f \in fields \cup {"id", "justification"} |->
                  CASE f = "status" -> v[1]
                    [] f = "classification" -> v[2]
                    [] f = "determination" -> v[3]
                    [] OTHER -> "plain"]] :
        a \in {"endpoint_alert_update", "xdr_incident_update"},
        fields \in SUBSET {"status", "classification", "determination"},
        v \in Tables!Status \X Tables!Classification \X Tables!Determination}
    \cup {[action |-> "endpoint_alert_batch_update",
           args |-> [f \in {"ids", "justification", "classification",
                            "determination"} |->
                       CASE f = "classification" -> v[1]
                         [] f = "determination" -> v[2]
                         [] OTHER -> "plain"]] :
            v \in Tables!Classification \X Tables!Determination}

IndicatorCalls ==
    {[action |-> "submit",
      args |-> [f \in Tables!Needs("submit") \cup {"comment"} \cup alert |->
                  CASE f = "indicator_type" -> v[1]
                    [] f = "indicator_action" -> v[2]
                    [] f = "generate_alert" -> v[3]
                    [] OTHER -> "plain"]] :
        alert \in {{}, {"generate_alert"}},
        v \in Tables!Value("indicator_type")
                \X Tables!Value("indicator_action") \X {"true", "false"}}

MCCall ==
    UNION {Calls(p[1], p[2]) :
              p \in UNION {{a} \X FieldSets(a) : a \in MCAction}}
        \cup TriageCalls \cup IndicatorCalls
====

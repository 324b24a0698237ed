----------------------------- MODULE KqlAnalysis -----------------------------
(***************************************************************************)
(* What the KQL crate learns from a parse tree (kql-parser/src/lib.rs) and *)
(* what its policy and the hunting tool refuse (policy.rs, hunting/mod.rs).*)
(*                                                                         *)
(* A tree is as pest keeps it: the pairs in the order of the text, numbered*)
(* from 1, each with its rule, the name it carries or "", and the number   *)
(* of the last pair inside it.  The grammar (kql.pest) is external.        *)
(***************************************************************************)
EXTENDS Integers

\* EXTERNAL_PLUGINS, one for seven, and the catalogue, one table for all.
ExternalPlugin == {"http_request"}
Catalog == {"DeviceInfo"}

Pairs(t) == 1 .. t.size

\* The pairs directly inside p: those that are in no other one inside it.
Children(t, p) ==
    {j \in p + 1 .. t.last[p] : \A k \in p + 1 .. j - 1 : t.last[k] < j}

\* Mutant: the keyword is looked for where no parameter precedes it.
HasChildSecond(t, p, rule) ==
    t.last[p] > p /\ t.last[p + 1] < t.last[p]
      /\ t.rule[t.last[p + 1] + 1] = rule

HasChild(t, p, rule) == \E j \in Children(t, p) : t.rule[j] = rule

\* p has one pair directly inside it.
OnlyChild(t, p) == t.last[p] > p /\ t.last[p + 1] = t.last[p]

\* What the analysis records: the flags and the sets of names of Analysis.
FlagKind == {"external_data", "cross_cluster", "unscoped_search",
             "ungrouped_aggregate"}
NameKind == {"table", "plugin", "table_pattern", "set_option", "let_name"}

FactType == [kind : FlagKind] \cup [kind : NameKind, text : STRING]

Flag(kind) == [kind |-> kind]

Fact(kind, text) == [kind |-> kind, text |-> text]

-----------------------------------------------------------------------------

\* The names called in a postfix chain: what stands before each argument
\* list, as a name or as a member.
Callees(t, p) ==
    {j \in Children(t, p) :
        /\ t.rule[j] \in {"name_ref", "member"}
        /\ t.last[j] < t.last[p]
        /\ t.rule[t.last[j] + 1] = "call_args"}

Called(t, p) == {t.text[j] : j \in Callees(t, p)}

\* Mutant: the head of a chain only.
CallFactsOfHead(t, p) ==
    IF p + 1 \notin Callees(t, p) THEN {}
    ELSE IF t.text[p + 1] \in {"cluster", "database"} THEN {Flag("cross_cluster")}
    ELSE IF t.text[p + 1] = "external_table" THEN {Flag("external_data")} ELSE {}

CallFacts(t, p) ==
    (IF Called(t, p) \cap {"cluster", "database"} # {}
     THEN {Flag("cross_cluster")} ELSE {})
    \cup (IF "external_table" \in Called(t, p)
          THEN {Flag("external_data")} ELSE {})

\* What a pair says by itself when it is walked.
OwnFacts(t, p) ==
    CASE t.rule[p] \in {"find_op", "search_op"} ->
           IF HasChild(t, p, "kw_in") THEN {} ELSE {Flag("unscoped_search")}
      [] t.rule[p] = "externaldata_op" -> {Flag("external_data")}
      [] t.rule[p] = "count_op" -> {Flag("ungrouped_aggregate")}
      [] t.rule[p] = "summarize_op" ->
           IF HasChild(t, p, "kw_by") THEN {} ELSE {Flag("ungrouped_aggregate")}
      [] t.rule[p] = "plugin_call" -> {Fact("plugin", t.text[p + 1])}
      [] t.rule[p] = "postfix" -> CallFacts(t, p)
      [] t.rule[p] = "table_pattern" -> {Fact("table_pattern", t.text[p])}
      [] t.rule[p] = "set_stmt" ->
           {Fact("set_option", t.text[j]) :
              j \in {k \in Children(t, p) : t.rule[k] = "option_name"}}
      [] t.rule[p] = "let_stmt" -> {Fact("let_name", t.text[t.last[p + 1] + 1])}
      [] OTHER -> {}

-----------------------------------------------------------------------------
(***************************************************************************)
(* The walk.  A call of walk, head_of or head_of_string in progress is a   *)
(* frame: the pairs from .. to stand side by side and are still to be seen,*)
(* and "how" says what is done with each:                                   *)
(*   table     walk(_, true): the source of a pipe is a table              *)
(*   value     walk(_, false)                                              *)
(*   operand   of join, lookup or union, or the source of a find or search *)
(*   source    head_of(the head of a pipe), which has come to at           *)
(*   callee    head_of(an operand), which has come to at                   *)
(*   string    head_of_string(an argument), which has come to at           *)
(***************************************************************************)

Walking == {"table", "value", "operand"}
Descending == {"source", "callee", "string"}

Rest(how, from, to) ==
    IF from > to THEN {}
    ELSE {[how |-> how, from |-> from, at |-> from, to |-> to]}

\* Nothing inside these is walked.
Opaque == {"set_stmt", "fn_param", "name_ref", "name_decl", "typed_literal",
           "table_pattern"}

\* The first argument of a call of table.
TableArguments(t, p) ==
    UNION {Rest("string", t.last[j] + 2, t.last[t.last[j] + 2]) :
        j \in {k \in Callees(t, p) :
                 /\ t.text[k] = "table"
                 /\ t.last[t.last[k] + 1] > t.last[k] + 1}}

\* A pipe: its operators, and its source, a table if it has operators or
\* stands where a table does.
PipeFrames(t, p, how) ==
    Rest("value", t.last[p + 1] + 1, t.last[p])
    \cup Rest(IF how = "table" \/ t.last[p + 1] < t.last[p]
              THEN "source" ELSE "value", p + 1, t.last[p + 1])

\* What walk goes on with inside p.
Inside(t, p, how) ==
    CASE t.rule[p] \in Opaque -> {}
      [] t.rule[p] = "let_stmt" ->
           Rest("table", t.last[t.last[p + 1] + 1] + 1, t.last[p])
      [] t.rule[p] = "pipe_expr" -> PipeFrames(t, p, how)
      [] t.rule[p] \in {"tabular_operand", "find_source"} ->
           Rest("operand", p + 1, t.last[p])
      [] t.rule[p] = "postfix" ->
           Rest("value", p + 1, t.last[p]) \cup TableArguments(t, p)
      [] OTHER -> Rest("value", p + 1, t.last[p])

\* One step of a walk that has the frame f: the facts it adds and the frames
\* that take the place of f.
Walk(t, f, how) ==
    [facts |-> OwnFacts(t, f.from),
     frames |-> Inside(t, f.from, how)
                  \cup Rest(f.how, t.last[f.from] + 1, f.to)]

WalkOperand(t, f) ==
    LET rule == t.rule[f.from]
        rest == Rest("operand", t.last[f.from] + 1, f.to)
    IN  IF rule = "paren_pipe"
        THEN [facts |-> {},
              frames |-> rest \cup Rest("table", f.from + 1, t.last[f.from])]
        ELSE IF rule = "postfix"
        THEN [facts |-> {},
              frames |-> rest \cup Rest("callee", f.from, t.last[f.from])]
        ELSE Walk(t, f, "table")

\* Follow only children down to a bare name or a parenthesised pipe; where
\* that leads to neither, walk what the descent started from.
Descend(t, f) ==
    LET rule == t.rule[f.at] IN
    IF rule = "name_ref"
    THEN [facts |-> {Fact("table", t.text[f.at])}, frames |-> {}]
    ELSE IF rule = "paren_pipe" /\ f.how = "source"
    THEN [facts |-> {}, frames |-> Rest("table", f.at + 1, t.last[f.at])]
    ELSE IF OnlyChild(t, f.at) /\ rule # "paren_pipe"
    THEN [facts |-> {}, frames |-> {[f EXCEPT !.at = f.at + 1]}]
    ELSE [facts |-> {}, frames |-> Rest("value", f.from, f.to)]

DescendString(t, f) ==
    IF t.rule[f.at] = "string_lit"
    THEN [facts |-> {Fact("table", t.text[f.at])}, frames |-> {}]
    ELSE [facts |-> {},
          frames |-> IF OnlyChild(t, f.at)
                     THEN {[f EXCEPT !.at = f.at + 1]} ELSE {}]

StepOf(t, f) ==
    CASE f.how \in {"table", "value"} -> Walk(t, f, f.how)
      [] f.how = "operand" -> WalkOperand(t, f)
      [] f.how \in {"source", "callee"} -> Descend(t, f)
      [] OTHER -> DescendString(t, f)

\* The statements of a query are walked as tables.
Statements(t) == Rest("table", 2, t.size)

-----------------------------------------------------------------------------

Texts(facts, kind) == {f.text : f \in {g \in facts : g.kind = kind}}

\* A name bound by let anywhere is no table.
Tables(facts) == Texts(facts, "table") \ Texts(facts, "let_name")

\* The last statement, before the end of input, is a pipe.
IsTabular(t) ==
    \E j \in Children(t, 1) :
        /\ t.rule[j] = "pipe_expr"
        /\ t.last[j] < t.size => t.rule[t.last[j] + 1] = "EOI"

\* What a query is refused for, wherever it is found.
Code == {"external_data", "cross_cluster", "external_plugin",
         "unscoped_search", "wildcard_table", "set_statement"}

Problem == Code \cup {"not_tabular", "no_table"}

\* What check makes of one fact.
CodeOf(f) ==
    CASE f.kind \in {"external_data", "cross_cluster", "unscoped_search"} ->
           {f.kind}
      [] f.kind = "plugin" /\ f.text \in ExternalPlugin -> {"external_plugin"}
      [] f.kind = "table_pattern" -> {"wildcard_table"}
      [] f.kind = "set_option" -> {"set_statement"}
      [] OTHER -> {}

Check(facts) == UNION {CodeOf(f) : f \in facts}

\* The errors of validate: the policy's, and a query that reads no table.
Errors(t, facts) ==
    Check(facts)
    \cup (IF IsTabular(t) THEN {} ELSE {"not_tabular"})
    \cup (IF Tables(facts) = {} THEN {"no_table"} ELSE {})

\* Its warnings, which do not stop the query and travel with its rows.
Warnings(facts) ==
    (IF Tables(facts) \subseteq Catalog THEN {} ELSE {"unknown_table"})
    \cup ({"ungrouped_aggregate"} \cap {f.kind : f \in facts})

-----------------------------------------------------------------------------
(***************************************************************************)
(* The reference: what a pair is refused for, wherever it stands.          *)
(***************************************************************************)

RefusedFor(t, p) ==
    {c \in Code :
        \/ c = "external_data" /\ t.rule[p] = "externaldata_op"
        \/ c = "external_data" /\ t.rule[p] = "postfix"
             /\ "external_table" \in Called(t, p)
        \/ c = "cross_cluster" /\ t.rule[p] = "postfix"
             /\ Called(t, p) \cap {"cluster", "database"} # {}
        \/ c = "external_plugin" /\ t.rule[p] = "plugin_call"
             /\ t.text[p + 1] \in ExternalPlugin
        \/ c = "unscoped_search" /\ t.rule[p] \in {"find_op", "search_op"}
             /\ \A j \in Children(t, p) : t.rule[j] # "kw_in"
        \/ c = "wildcard_table" /\ t.rule[p] = "table_pattern"
        \/ c = "set_statement" /\ t.rule[p] = "set_stmt"}

\* All that stands in a tree to be refused.
RefusedIn(t) == UNION {RefusedFor(t, p) : p \in Pairs(t)}

\* A numbering of pairs one inside the other.
IsTree(t) ==
    /\ t.size \in Nat \ {0}
    /\ t.rule \in [Pairs(t) -> STRING]
    /\ t.text \in [Pairs(t) -> STRING]
    /\ t.last \in [Pairs(t) -> Pairs(t)]
    /\ t.last[1] = t.size
    /\ \A p \in Pairs(t) :
        /\ t.last[p] >= p
        /\ \A q \in p .. t.last[p] : t.last[q] <= t.last[p]

\* What the walk takes from the grammar: a pipe has a head and a plugin call
\* a name; let binds a name; a name, a parameter or a literal holds no query;
\* set names its option; and what is refused never is a mere step on the way
\* from an expression to its one part, as operators begin with their keyword.
IsParsed(t) ==
    /\ IsTree(t)
    /\ t.rule[1] = "query"
    /\ \A p \in Pairs(t) :
        /\ t.rule[p] \in {"pipe_expr", "plugin_call"} => t.last[p] > p
        /\ t.rule[p] = "let_stmt" =>
             /\ p + 1 < t.last[p] /\ t.last[p + 1] = p + 1
             /\ t.rule[p + 1] = "kw_let" /\ t.rule[p + 2] = "name_decl"
        /\ t.rule[p] \in Opaque =>
             \A q \in p + 1 .. t.last[p] : RefusedFor(t, q) = {}
        /\ t.rule[p] = "set_stmt" => HasChild(t, p, "option_name")
        /\ RefusedFor(t, p) # {} => ~OnlyChild(t, p)
====

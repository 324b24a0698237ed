------------------------------ MODULE HuntingRun ------------------------------
(***************************************************************************)
(* One hunting query, from the call to its answer (hunting_run of          *)
(* server.rs, validate and compact of hunting/mod.rs, bounded of           *)
(* kql-parser/policy.rs), with the walk of KqlAnalysis over its parse tree.*)
(* Microsoft Graph is external.                                            *)
(***************************************************************************)
EXTENDS KqlAnalysis

CONSTANTS
    Query,            \* the queries that parse
    Tree,             \* their parse trees
    Asked,            \* the values of maxRows, the default one among them
    GraphRowLimit,    \* the rows Graph returns at most
    MaxMatched        \* bound on the rows a query matches

\* What is assumed of the constants.
HuntingAssumption ==
    /\ \A q \in Query : IsParsed(Tree[q])
    /\ GraphRowLimit \in Nat
    /\ MaxMatched \in Nat

VARIABLE call    \* the one call, or Idle

AtMost(n, bound) == IF n < bound THEN n ELSE bound

\* Mutant: as many rows as Graph returns.
MaxMaxRowsWhole == GraphRowLimit

MaxMaxRows == GraphRowLimit - 1

\* The "| take" appended to the query.
Bound(limit) == limit + 1

Idle == [state |-> "idle"]

Walks ==
    [state : {"walking"}, query : Query, limit : 1 .. MaxMaxRows,
     todo : SUBSET [how : Walking \cup Descending,
                    from : Nat, at : Nat, to : Nat],
     facts : SUBSET FactType]

Refused == [state : {"refused"}, query : Query, problems : SUBSET Problem]

Sent ==
    [state : {"sent"}, query : Query, limit : 1 .. MaxMaxRows, take : Nat,
     warned : BOOLEAN]

Answered ==
    [state : {"answered"}, query : Query, limit : 1 .. MaxMaxRows,
     matched : Nat, tooLarge : BOOLEAN, rowCount : Nat, truncated : BOOLEAN,
     warned : BOOLEAN]

Ended == [state : {"invalid", "unparsed", "failed"}]

TypeOK == call \in {Idle} \cup Ended \cup Walks \cup Refused \cup Sent \cup Answered

Init == call = Idle

\* maxRows out of range is a protocol error, before the query is looked at.
RunInvalid ==
    /\ call = Idle
    /\ \E limit \in Asked : limit \notin 1 .. MaxMaxRows
    /\ call' = [state |-> "invalid"]

\* A management command, or text the grammar does not understand.
RunUnparsed ==
    /\ call = Idle
    /\ \E limit \in Asked : limit \in 1 .. MaxMaxRows
    /\ call' = [state |-> "unparsed"]

\* The query parses and its walk begins.
Run(q, limit) ==
    /\ call = Idle
    /\ limit \in 1 .. MaxMaxRows
    /\ call' = [state |-> "walking", query |-> q, limit |-> limit,
                todo |-> Statements(Tree[q]), facts |-> {}]

\* The walk goes down before it goes on: the frame that stands first.
WalkOn(f) ==
    /\ call.state = "walking"
    /\ f \in call.todo
    /\ \A g \in call.todo : f.at <= g.at
    /\ LET step == StepOf(Tree[call.query], f) IN
       call' = [call EXCEPT !.todo = (call.todo \ {f}) \cup step.frames,
                            !.facts = call.facts \cup step.facts]

Problems == Errors(Tree[call.query], call.facts)

RunRefused ==
    /\ call.state = "walking" /\ call.todo = {}
    /\ Problems # {}
    /\ call' = [state |-> "refused", query |-> call.query,
                problems |-> Problems]

RunSent ==
    /\ call.state = "walking" /\ call.todo = {}
    /\ Problems = {}
    /\ call' = [state |-> "sent", query |-> call.query, limit |-> call.limit,
                take |-> Bound(call.limit),
                warned |-> Warnings(call.facts) # {}]

\* The answer, from the rows Graph returned; the query matched this many, and
\* its result was too large or not, which the server is not told.
Compact(matched, tooLarge, rows) ==
    [state |-> "answered", query |-> call.query, limit |-> call.limit,
     matched |-> matched, tooLarge |-> tooLarge,
     rowCount |-> AtMost(rows, call.limit),
     truncated |-> rows > call.limit,
     warned |-> call.warned]

\* External: Graph runs the query with its bound and cuts what is left at its
\* own limits, of rows and of 50 MB: "fit" rows are not too large for that.
GraphAnswers(matched, fit) ==
    LET rows == AtMost(AtMost(matched, call.take), GraphRowLimit)
    IN  /\ call.state = "sent"
        /\ call' = Compact(matched, fit < rows, AtMost(rows, fit))

\* No token, an error of Graph, or no answer in time.
GraphFails ==
    /\ call.state = "sent"
    /\ call' = [state |-> "failed"]

Return ==
    /\ call.state \in {"invalid", "unparsed", "refused", "failed", "answered"}
    /\ call' = Idle

Next ==
    \/ RunInvalid
    \/ RunUnparsed
    \/ \E q \in Query, limit \in Asked : Run(q, limit)
    \/ call.state = "walking" /\ \E f \in call.todo : WalkOn(f)
    \/ RunRefused
    \/ RunSent
    \/ \E matched, fit \in 0 .. MaxMatched : GraphAnswers(matched, fit)
    \/ GraphFails
    \/ Return

Spec == Init /\ [][Next]_call

-----------------------------------------------------------------------------

\* "asks for one row more than maxRows to tell a cut answer from a complete
\* one": an answer marked truncated always is, and unless its result was too
\* large for Graph it has as many rows as it may, up to the largest maxRows,
\* and is marked exactly if the query matches more.  Of one that Graph cut at
\* its 50 MB before the extra row the server knows nothing, and it is returned
\* as complete.
CutAnswersSaySo ==
    call.state = "answered" =>
        /\ call.truncated => call.matched > call.rowCount
        /\ ~call.tooLarge =>
             /\ call.rowCount = AtMost(call.matched, call.limit)
             /\ call.truncated <=> call.matched > call.rowCount

\* "Refused: externaldata, cluster(), outbound plugins, set statements, search
\* without in, wildcard table names, queries that do not end with a tabular
\* expression": a query in flight has none of them anywhere in its tree,
\* whichever way the walk took there, and ends with the pipe its bound is
\* appended to.
OnlyScopedSent ==
    call.state = "sent" =>
        /\ \A p \in Pairs(Tree[call.query]) :
             RefusedFor(Tree[call.query], p) = {}
        /\ IsTabular(Tree[call.query])

\* "decided on the parse tree, so a keyword inside a string literal or a
\* comment is never mistaken for an operator": what a refusal blames stands in
\* the tree, and all that stands in the tree is blamed at once.
RefusalsExact ==
    call.state = "refused" =>
        call.problems \ {"no_table"} =
            RefusedIn(Tree[call.query])
            \cup (IF IsTabular(Tree[call.query]) THEN {} ELSE {"not_tabular"})
====

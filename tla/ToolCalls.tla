------------------------------ MODULE ToolCalls ------------------------------
(***************************************************************************)
(* What tools make of their arguments: a hunting query (HuntingRun) or a   *)
(* mutating action (MutationArguments).  The two share no state, and calls *)
(* of either none with each other: there is one call at a time.            *)
(***************************************************************************)
EXTENDS Integers

CONSTANTS
    Query, Tree, Asked, GraphRowLimit, MaxMatched,  \* of HuntingRun
    Call                                            \* of MutationArguments

VARIABLES
    hunt,                  \* call of HuntingRun
    call, record, prompt, sent     \* of MutationArguments

Hunt == INSTANCE HuntingRun WITH call <- hunt

Mutation == INSTANCE MutationArguments

ASSUME ToolCallsAssumption ==
    Hunt!HuntingAssumption /\ Mutation!ArgumentAssumption

vars == <<hunt, call, record, prompt, sent>>

Init == Hunt!Init /\ Mutation!Init

RunQuery ==
    /\ call = Mutation!Idle
    /\ Hunt!Next
    /\ UNCHANGED <<call, record, prompt, sent>>

Mutate == hunt = Hunt!Idle /\ Mutation!Next /\ UNCHANGED hunt

Next == RunQuery \/ Mutate

Spec == Init /\ [][Next]_vars

-----------------------------------------------------------------------------

\* Stated in HuntingRun: a cut answer says so, unless Graph cut it
\* for its size.
CutAnswersSaySo == Hunt!CutAnswersSaySo

\* Stated in HuntingRun: no query is sent that should be refused.
OnlyScopedSent == Hunt!OnlyScopedSent

\* Stated in HuntingRun: a query is refused for what is in it.
RefusalsExact == Hunt!RefusalsExact

\* Stated in MutationArguments: nothing the client gives is dropped, but by
\* the two actions that do not look.
NothingDropped == Mutation!NothingDropped

\* Stated in MutationArguments: what is recorded, and shown of it up to 200
\* characters, is what is sent.
RecordedIsSent == Mutation!RecordedIsSent

\* Stated in MutationArguments: a determination keeps its meaning.
DeterminationKept == Mutation!DeterminationKept
====

--------------------------- MODULE AuditedMutation ---------------------------
(***************************************************************************)
(* What the audit log and the upstream API promise each other, whatever    *)
(* stages lie between: an attempt runs only after its intent is in the     *)
(* log, runs once, and is never both turned down and run.                  *)
(* MutationPipeline is shown to implement this.                            *)
(***************************************************************************)
EXTENDS Integers

CONSTANT Attempt    \* the attempts at a mutating action

VARIABLES
    intended,   \* the attempts with an intent record in the log
    refused,    \* the attempts with a final record in the log
    run         \* the attempts whose request has been sent to the API

vars == <<intended, refused, run>>

Init == intended = {} /\ refused = {} /\ run = {}

\* The intent record is written: from here on the attempt may run, and it is
\* too late to turn it down.
Intend(a) ==
    /\ a \notin intended \cup refused
    /\ intended' = intended \cup {a}
    /\ UNCHANGED <<refused, run>>

\* The attempt is turned down for good.
Refuse(a) ==
    /\ a \notin intended \cup refused
    /\ refused' = refused \cup {a}
    /\ UNCHANGED <<intended, run>>

Run(a) ==
    /\ a \in intended \ run
    /\ run' = run \cup {a}
    /\ UNCHANGED <<intended, refused>>

Next == \E a \in Attempt : Intend(a) \/ Refuse(a) \/ Run(a)

Spec == Init /\ [][Next]_vars
====

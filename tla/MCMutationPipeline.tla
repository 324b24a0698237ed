------------------------- MODULE MCMutationPipeline -------------------------
(***************************************************************************)
(* Instances of MutationPipeline for TLC.                                  *)
(***************************************************************************)
EXTENDS MutationPipeline, TLC

CONSTANTS a1, a2

MCAttempt == {a1, a2}

Symmetry == Permutations(MCAttempt)

Asks(tool, action, valid, forms) ==
    [tool |-> tool, action |-> action, valid |-> valid, forms |-> forms]

\* One call of each fate: a destructive one with and without a prompt to show
\* it in, the one with a flag of its own, one without a prompt, one that is
\* invalid, one no dispatcher knows.
MCRequest == {
    Asks("DeviceResponse", "listed", TRUE, TRUE),
    Asks("DeviceResponse", "listed", TRUE, FALSE),
    Asks("DeviceResponse", "offboard", TRUE, TRUE),
    Asks("Triage", "listed", TRUE, TRUE),
    Asks("Triage", "listed", FALSE, TRUE),
    Asks("Triage", "unlisted", TRUE, TRUE) }

Started(readOnly, enable, offboarding, confirm, explicitLog) ==
    [readOnly |-> readOnly, enable |-> enable, offboarding |-> offboarding,
     confirm |-> confirm, explicitLog |-> explicitLog]

\* Everything on; device response without offboarding or prompts; triage only,
\* with an offboarding flag that has no effect; read-only with and without a
\* log of its own.
MCFlags == {
    Started(FALSE, {"DeviceResponse", "Triage"}, TRUE, TRUE, FALSE),
    Started(FALSE, {"DeviceResponse"}, FALSE, FALSE, FALSE),
    Started(FALSE, {"Triage"}, TRUE, TRUE, FALSE),
    Started(TRUE, {"DeviceResponse", "Triage"}, TRUE, TRUE, TRUE),
    Started(TRUE, {"Triage"}, FALSE, TRUE, FALSE) }

\* The servers that have a log to record every call in.
MCFlagsWithLog ==
    {f \in MCFlags : f.explicitLog \/ (~f.readOnly /\ f.enable # {})}
====

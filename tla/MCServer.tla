------------------------------- MODULE MCServer -------------------------------
(***************************************************************************)
(* Server on a small instance: a mutation and a reading call that want     *)
(* tokens for the same audience or not, on a machine that can lose power.  *)
(***************************************************************************)
EXTENDS Server

Asks(tool, action) ==
    [tool |-> tool, action |-> action, valid |-> TRUE, forms |-> TRUE]

\* A call that needs the human's consent, and one that does not.
MCRequest == {Asks("DeviceResponse", "listed"), Asks("Triage", "listed")}

MCFlags ==
    {[readOnly |-> FALSE, enable |-> {"DeviceResponse", "Triage"},
      offboarding |-> FALSE, confirm |-> TRUE, explicitLog |-> FALSE]}
====

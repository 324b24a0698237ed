------------------------------ MODULE MCStaging ------------------------------
(***************************************************************************)
(* Three calls, two of them for one package; or those two alone.           *)
(***************************************************************************)
EXTENDS Staging

MCCalls == {"a", "b", "c"}

MCIsPackage == [c \in MCCalls |-> c # "c"]

\* Two blocks of the package, two of the quarantined file.
MCBody == [c \in MCCalls |-> IF c = "c" THEN <<"v", "w">> ELSE <<"x", "y">>]

\* a and b fetch the same package; c is alone.
MCName == [c \in MCCalls |-> IF c = "c" THEN "quarantine" ELSE "package"]

\* Two calls with one name, and the package both fetch.
MCTwoCalls == {"a", "b"}
MCTwoName == [c \in MCTwoCalls |-> "package"]
MCTwoIsPackage == [c \in MCTwoCalls |-> TRUE]
MCTwoBody == [c \in MCTwoCalls |-> <<"x", "y">>]

MCLeftover == {"quarantine"}
====

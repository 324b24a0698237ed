---------------------------- MODULE MCPermissions ----------------------------
(***************************************************************************)
(* Every set of --enable flags.                                            *)
(***************************************************************************)
EXTENDS Permissions

MCFlagSets == SUBSET Flags
====

--------------------------- MODULE MCTokenManager ---------------------------
(***************************************************************************)
(* TokenManager on a small instance: three calls, so that one can hold the *)
(* lock while two queue, over the two audiences.  A lifetime of 0 is a     *)
(* token too short-lived to be served from the cache; the other expires    *)
(* within the bound of the clock.  As in the code, an answer may take      *)
(* longer than the margin, so that a dead token can be in the cache.       *)
(***************************************************************************)
EXTENDS TokenManager, TLC

\* Callers are alike, and so are the two audiences.
Symmetry == Permutations(Caller) \cup Permutations(Audience)

====

----------------------------- MODULE MCApiCalls -----------------------------
(***************************************************************************)
(* Three calls are enough for one write to overtake another while a third  *)
(* one reports on its own; the calls are interchangeable.                  *)
(***************************************************************************)
EXTENDS ApiCalls, TLC

Symmetry == Permutations(Calls)
=============================================================================

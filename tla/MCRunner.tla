------------------------------ MODULE MCRunner ------------------------------
(***************************************************************************)
(* Projects and requests are interchangeable: none of them is singled out. *)
(***************************************************************************)
EXTENDS Runner, TLC

Alike == Permutations(Projects) \cup Permutations(Requests)
=============================================================================

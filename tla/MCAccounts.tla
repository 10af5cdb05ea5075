----------------------------- MODULE MCAccounts -----------------------------
(***************************************************************************)
(* People and requests are interchangeable: none of them is singled out.   *)
(***************************************************************************)
EXTENDS Accounts, TLC

Alike == Permutations(People) \cup Permutations(Slots)
=============================================================================

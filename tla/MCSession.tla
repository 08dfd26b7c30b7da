------------------------------ MODULE MCSession -----------------------------
(***************************************************************************)
(* An instance of Session for TLC: the calls of a kind are interchangeable. *)
(***************************************************************************)
EXTENDS Session, TLC

Interchangeable ==
  Permutations(Logins) \cup Permutations(Renewals) \cup Permutations(Checks)
=============================================================================

------------------------------ MODULE MCPayouts ------------------------------
(***************************************************************************)
(* Payouts on a small instance.                                            *)
(***************************************************************************)
EXTENDS Payouts, TLC

Symmetry == Permutations(Admins) \cup Permutations(PayoutIds)
=============================================================================

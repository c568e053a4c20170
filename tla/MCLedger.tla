------------------------------ MODULE MCLedger ------------------------------
(* Instances of Ledger small enough for TLC. *)
EXTENDS Ledger, TLC

Symmetric == Permutations(Clients)
=============================================================================

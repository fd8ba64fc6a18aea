------------------------------- MODULE MCLocked -------------------------------
(***************************************************************************)
(* Small instances of LockedBilling.                                       *)
(***************************************************************************)
EXTENDS LockedBilling, TLC

Simetria == Permutations(Sessions) \cup Permutations(Charges)
=============================================================================

------------------------------- MODULE MCMpToken -------------------------------
(***************************************************************************)
(* Small instances of MpToken.                                             *)
(***************************************************************************)
EXTENDS MpToken, TLC

Simetria == Permutations(Sessions)
=============================================================================

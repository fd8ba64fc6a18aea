------------------------------- MODULE MCBilling -------------------------------
(***************************************************************************)
(* Small instances of Billing for TLC, and the sub-systems in which each   *)
(* disagreement between the source's words and its behaviour is shown.     *)
(***************************************************************************)
EXTENDS Billing, TLC

Simetria == Permutations(Sessions) \cup Permutations(Charges)

(* Webhooks and the reconciliation job, the backup of the webhooks.        *)
ReconcileSpec ==
  Init /\ [][LockingNext \/ \E s \in Sessions : Reconcile(s)]_vars

(* Webhooks, PIX issuers and the daily delinquency pass.                   *)
DelinquencySpec ==
  Init /\ [][LockingNext \/ \E s \in Sessions : Tick(s)]_vars
=============================================================================

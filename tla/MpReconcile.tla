------------------------------ MODULE MpReconcile ------------------------------
(***************************************************************************)
(* The Celery job reconcile_mercadopago_payments: its two passes over open *)
(* charges.  Each pass reads all its rows first, keeps them in a list (so  *)
(* in the identity map) and visits them one by one, calling Mercado Pago   *)
(* before each decision.                                                   *)
(***************************************************************************)
EXTENDS WebhookConfirm

OpenWithOrder ==
  {i \in Cobrancas : IsOpen(cobranca[i]) /\ cobranca[i].order # None}

StartBatch(s, via) ==
  /\ ses[s].pc = "livre"
  /\ OpenWithOrder # {}
  /\ ses' = [ses EXCEPT ![s] =
       [Livre EXCEPT !.via = via, !.pc = "scan", !.pend = OpenWithOrder,
                     !.mapa = [i \in Cobrancas |->
                        IF i \in OpenWithOrder THEN cobranca[i] ELSE NoRow]]]
  /\ UNCHANGED <<hoje, contrato, cobranca, receitas, mp, lock>>

(* The batch takes its next row, in descending id order.  Reading an       *)
(* attribute of an expired row reloads it and keeps it.                    *)
Visiting(s, i) == ses[s].pc = "scan" /\ Last(ses[s].pend, i)

(* The token of the next row is renewed: the locks the batch still holds   *)
(* are freed and its rows expire.                                          *)
RenovaReconcile(s) ==
  /\ At(s, "reconcile", "scan")
  /\ ses[s].pend # {}
  /\ ses' = [ses EXCEPT ![s].mapa = Livre.mapa]
  /\ lock' = Unlocking(s)
  /\ UNCHANGED <<hoje, contrato, cobranca, receitas, mp>>

StartReconcile(s) == StartBatch(s, "reconcile")

(* get_order: not paid.  The payment id may still name an approved payment *)
(* of its own; otherwise the row is left for the next run.                 *)
PaidOrder(row) == row.order # None /\ Fetched(row.order)
PaidPayment(row) ==
  row.order # None /\ ~PaidOrder(row) /\ row.payment # None
    /\ Fetched(row.payment)

SkipUnpaid(s) ==
  /\ ses[s].via = "reconcile"
  /\ \E i \in Cobrancas :
       /\ Visiting(s, i)
       /\ ~PaidOrder(View(s, i)) /\ ~PaidPayment(View(s, i))
       /\ ses' = [ses EXCEPT ![s].pend = @ \ {i},
                             ![s].mapa = Holding(s, {i})]
  /\ UNCHANGED <<hoje, contrato, cobranca, receitas, mp, lock>>

(* Paid: handle_mercadopago_order_confirmed (or ..._payment_confirmed) in  *)
(* this same session, whose identity map holds the row already.            *)
ConfirmPaid(s) ==
  /\ ses[s].via = "reconcile"
  /\ \E i \in Cobrancas :
       LET row == View(s, i) IN
       /\ Visiting(s, i)
       /\ PaidOrder(row) \/ PaidPayment(row)
       /\ ses' = [ses EXCEPT
            ![s].pc = "fetch", ![s].pend = @ \ {i},
            ![s].mapa = Holding(s, {i}),
            ![s].charge = IF PaidOrder(row) THEN row.order ELSE row.payment]
  /\ UNCHANGED <<hoje, contrato, cobranca, receitas, mp, lock>>

(* The handler's SELECT starts after the call to Mercado Pago returned.    *)
SelectPaid(s) ==
  /\ At(s, "reconcile", "fetch")
  /\ ses' = [ses EXCEPT ![s].pc = "lock",
                        ![s].cand = Lookup("reconcile", ses[s].charge)]
  /\ UNCHANGED <<hoje, contrato, cobranca, receitas, mp, lock>>

(* No row carries that id any more: False, on to the next row.             *)
ReconcileNotFound(s) ==
  /\ At(s, "reconcile", "lock")
  /\ Lockable(s, ses[s].cand)
  /\ Matching(s) = {}
  /\ ses' = [ses EXCEPT ![s].pc = "scan", ![s].cand = {}, ![s].charge = None]
  /\ UNCHANGED <<hoje, contrato, cobranca, receitas, mp, lock>>

EndReconcile(s) ==
  /\ At(s, "reconcile", "scan")
  /\ ses[s].pend = {}
  /\ Close(s)
  /\ UNCHANGED <<hoje, contrato, cobranca, receitas, mp>>

Reconcile(s) ==
  \/ StartReconcile(s) \/ SkipUnpaid(s) \/ ConfirmPaid(s) \/ SelectPaid(s)
  \/ ReconcileNotFound(s) \/ RenovaReconcile(s) \/ EndReconcile(s)

-----------------------------------------------------------------------------
(* reconcile_expired_pix_orders: the ids of dead orders are wiped in the   *)
(* loaded rows, and all of them are committed at the end.                  *)

StartExpired(s) == StartBatch(s, "expired")

Dead(c) == c # None /\ mp[c].status \in {"expired", "cancelled"}

Cleared(row) == [row EXCEPT !.order = None, !.payment = None]

(* `cand' collects the rows the loop has wiped, still in memory.           *)
VisitExpired(s) ==
  /\ ses[s].via = "expired"
  /\ \E i \in Cobrancas :
       /\ Visiting(s, i)
       /\ ses' = [ses EXCEPT ![s].pend = @ \ {i},
            ![s].mapa = Holding(s, {i}),
            ![s].cand = IF Dead(View(s, i).order) THEN @ \cup {i} ELSE @]
  /\ UNCHANGED <<hoje, contrato, cobranca, receitas, mp, lock>>

StoreCleared(s) ==
  /\ At(s, "expired", "scan")
  /\ Lockable(s, ses[s].cand)
  /\ cobranca' = [i \in Cobrancas |->
       IF i \in ses[s].cand
       THEN Flush(cobranca[i], ses[s].mapa[i], Cleared(ses[s].mapa[i]))
       ELSE cobranca[i]]
  /\ UNCHANGED <<hoje, contrato, receitas, mp>>

(* A renewal commits the rows wiped so far and expires all of them.        *)
RenovaExpired(s) ==
  /\ ses[s].pend # {}
  /\ StoreCleared(s)
  /\ ses' = [ses EXCEPT ![s].cand = {}, ![s].mapa = Livre.mapa]
  /\ UNCHANGED lock

CommitExpired(s) ==
  /\ ses[s].pend = {}
  /\ StoreCleared(s)
  /\ Close(s)

ReconcileExpired(s) ==
  \/ StartExpired(s) \/ VisitExpired(s) \/ RenovaExpired(s) \/ CommitExpired(s)
=============================================================================

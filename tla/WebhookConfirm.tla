---------------------------- MODULE WebhookConfirm ----------------------------
(***************************************************************************)
(* POST /webhooks/mercadopago and the three confirmations it dispatches to: *)
(* handle_mercadopago_order_confirmed, ..._payment_confirmed and            *)
(* ..._subscription_payment.                                                *)
(*                                                                         *)
(* Mercado Pago may deliver a notification at any time after the charge is *)
(* approved, any number of times, in any order: a handler may start        *)
(* whenever the resource it fetches is approved.  A notification whose     *)
(* fetch fails, or finds the charge not approved, changes nothing and has  *)
(* no action.                                                              *)
(***************************************************************************)
EXTENDS BillingDb

FetchedSempre(c) == TRUE          \* mutant: the answer is not examined

Fetched(c) == mp[c].status = "approved"      \* is_order_paid / approved

WithOrder(c) == {i \in Cobrancas : cobranca[i].order = c}
WithPayment(c) == {i \in Cobrancas : cobranca[i].payment = c}

(* Which handler confirms c: the reconciliation calls the order handler    *)
(* for a paid order and the payment handler for a payment of its own.      *)
ByOrder(via, c) == via = "order" \/ (via = "reconcile" /\ mp[c].tipo = "order")

(* The WHERE of the confirmation's SELECT ... FOR UPDATE.                  *)
Lookup(via, c) == IF ByOrder(via, c) THEN WithOrder(c) ELSE WithPayment(c)

Receive(s, via, c) ==
  /\ ses[s].pc = "livre"
  /\ Fetched(c)
  /\ ses' = [ses EXCEPT ![s] = [Livre EXCEPT !.via = via, !.pc = "lock",
                                 !.charge = c, !.cand = Lookup(via, c)]]
  /\ UNCHANGED <<hoje, contrato, cobranca, receitas, mp, lock>>

(* Topic `order'.  No row with that order id: answered 200 and forgotten.  *)
RecvOrder(s, c) ==
  /\ mp[c].tipo = "order"
  /\ WithOrder(c) # {}
  /\ Receive(s, "order", c)

(* Topic `payment', no preapproval_id.                                     *)
RecvPayment(s, c) ==
  /\ mp[c].tipo = "order"
  /\ WithPayment(c) # {}
  /\ Receive(s, "payment", c)

(* Topic `payment' with a preapproval_id.                                  *)
RecvSubscription(s, c) ==
  /\ mp[c].tipo = "assinatura"
  /\ Receive(s, "subscription", c)

(* The rows that still satisfy the WHERE once the locks are granted.       *)
Matching(s) == ses[s].cand \cap Lookup(ses[s].via, ses[s].charge)

(* SELECT cobrancas ... FOR UPDATE of the handlers.  It locks every match  *)
(* and takes the first one.                                                *)
LockCobranca(s) ==
  LET found == Matching(s) IN
  /\ ses[s].pc = "lock"
  /\ Lockable(s, ses[s].cand)
  /\ \E i \in found :
       ses' = [ses EXCEPT ![s].pc = "finalize", ![s].cob = i,
                          ![s].cand = {}, ![s].mapa = Holding(s, found)]
  /\ lock' = Locking(s, found)
  /\ UNCHANGED <<hoje, contrato, cobranca, receitas, mp>>

(* Nothing matched: the order and payment handlers return False.           *)
NotFound(s) ==
  /\ ses[s].via \in {"order", "payment"}
  /\ ses[s].pc = "lock"
  /\ Lockable(s, ses[s].cand)
  /\ Matching(s) = {}
  /\ Close(s)
  /\ UNCHANGED <<hoje, contrato, cobranca, receitas, mp>>

(* A subscription payment no row carries yet: the contract is read (and    *)
(* kept in the identity map), then get_open_cobranca_locked starts.        *)
SubscriptionContract(s) ==
  LET k == mp[ses[s].charge].contrato IN
  /\ At(s, "subscription", "lock")
  /\ Lockable(s, ses[s].cand)
  /\ Matching(s) = {}
  /\ ses' = [ses EXCEPT
       ![s].pc = "lock_open", ![s].ct = k, ![s].ctrow = contrato[k],
       ![s].valor = Atraso(contrato[k].proximo_vencimento, hoje),
       ![s].cand = OpenOf(k)]
  /\ UNCHANGED <<hoje, contrato, cobranca, receitas, mp, lock>>

StillOpenTodas(s) == ses[s].cand   \* mutant: the WHERE is not re-checked

StillOpen(s) == ses[s].cand \cap OpenOf(ses[s].ct)

(* get_open_cobranca_locked found an open charge: the payment is put on it *)
(* and it is finalized.                                                    *)
SubscriptionOpen(s) ==
  LET found == StillOpen(s) IN
  /\ At(s, "subscription", "lock_open")
  /\ Lockable(s, ses[s].cand)
  /\ \E i \in found :
       /\ Last(found, i)
       /\ ses' = [ses EXCEPT ![s].pc = "commit", ![s].cob = i,
                             ![s].cand = {}, ![s].mapa = Holding(s, found)]
  /\ lock' = Locking(s, found)
  /\ UNCHANGED <<hoje, contrato, cobranca, receitas, mp>>

(* It found none: a new row is inserted and finalized in one transaction.  *)
(* `hoje' is the day the amount was computed; the due date is the loaded   *)
(* contract's.                                                             *)
SubscriptionInsert(s) ==
  LET c == ses[s].charge IN
  /\ At(s, "subscription", "lock_open")
  /\ Lockable(s, ses[s].cand)
  /\ StillOpen(s) = {}
  /\ \E i \in Cobrancas :
       /\ NextId(i)
       /\ cobranca' = [cobranca EXCEPT ![i] =
            [contrato |-> ses[s].ct, status |-> "recebido",
             vencimento |-> ses[s].ctrow.proximo_vencimento,
             valor |-> ses[s].valor, order |-> None, payment |-> c]]
       /\ Credit(s, i, c)
  /\ UNCHANGED <<hoje, mp>>

(* _finalize_payment on a charge already received: True, and no event.  A  *)
(* request closes its session; the reconciliation batch keeps its locks.   *)
AlreadyReceived(s) ==
  /\ ses[s].pc = "finalize"
  /\ JaRecebida(ses[s].mapa[ses[s].cob])
  /\ IF ses[s].via = "reconcile"
     THEN /\ ses' = [ses EXCEPT ![s].pc = "scan", ![s].cob = None,
                                ![s].charge = None]
          /\ UNCHANGED lock
     ELSE Close(s)
  /\ UNCHANGED <<hoje, contrato, cobranca, receitas, mp>>

(* What the session leaves in the row it finalizes.                        *)
Received(s) ==
  LET row == ses[s].mapa[ses[s].cob] IN
  IF ses[s].via = "subscription" /\ row.payment # ses[s].charge
  THEN [row EXCEPT !.status = "recebido", !.payment = ses[s].charge,
                   !.valor = IF ses[s].valor > 0 THEN ses[s].valor ELSE @]
  ELSE [row EXCEPT !.status = "recebido"]

(* The external id of the receipt: the order handler prefers the payment   *)
(* id the row holds, the payment handlers use the id they were given.      *)
Externo(s) ==
  LET row == ses[s].mapa[ses[s].cob] IN
  IF ByOrder(ses[s].via, ses[s].charge) /\ row.payment # None
  THEN row.payment ELSE ses[s].charge

CommitPayment(s) ==
  LET i == ses[s].cob IN
  /\ ses[s].pc = "commit"
  /\ ses[s].via \in {"order", "payment", "subscription", "reconcile"}
  /\ cobranca' = [cobranca EXCEPT ![i] =
                    Flush(@, ses[s].mapa[i], Received(s))]
  /\ Credit(s, i, Externo(s))
  /\ UNCHANGED <<hoje, mp>>

Finalize(s) == LoadContrato(s) \/ AlreadyReceived(s) \/ CommitPayment(s)

Webhook(s) ==
  \/ \E c \in Charges :
       RecvOrder(s, c) \/ RecvPayment(s, c) \/ RecvSubscription(s, c)
  \/ LockCobranca(s) \/ NotFound(s)
  \/ SubscriptionContract(s) \/ SubscriptionOpen(s) \/ SubscriptionInsert(s)
  \/ Finalize(s)
=============================================================================

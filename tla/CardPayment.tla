------------------------------ MODULE CardPayment ------------------------------
(***************************************************************************)
(* pay_cobranca_with_card: the charge and its contract are read without a  *)
(* lock, the card is charged at Mercado Pago, and the same session then    *)
(* stores the new ids and, if the card was approved at once, finalizes.    *)
(* The PIX order the charge may carry is not cancelled.                    *)
(***************************************************************************)
EXTENDS BillingDb

StartCard(s, i) ==
  LET k == cobranca[i].contrato IN
  /\ ses[s].pc = "livre"
  /\ IsOpen(cobranca[i])
  /\ ses' = [ses EXCEPT ![s] =
       [Livre EXCEPT !.via = "card", !.pc = "create", !.cob = i,
                     !.ct = k, !.ctrow = contrato[k],
                     !.valor = Atraso(cobranca[i].vencimento, hoje),
                     !.mapa = [Livre.mapa EXCEPT ![i] = cobranca[i]]]]
  /\ UNCHANGED <<hoje, contrato, cobranca, receitas, mp, lock>>

(* The card is approved at once, or the order is pending (3DS challenge).  *)
(* A declined card is an API error: Abort.                                 *)
NewCardOrder(c, k, answer) ==
  /\ mp[c].status = "livre"
  /\ mp' = [mp EXCEPT ![c] = [status |-> answer, tipo |-> "order",
                              contrato |-> k]]

AfterCard(answer) == IF answer = "approved" THEN "commit" ELSE "apply"

ChargeCard(s) ==
  /\ At(s, "card", "create")
  /\ \E c \in Charges, answer \in {"approved", "pending"} :
       /\ NewCardOrder(c, ses[s].ct, answer)
       /\ ses' = [ses EXCEPT ![s].charge = c, ![s].pc = AfterCard(answer)]
  /\ UNCHANGED <<hoje, contrato, cobranca, receitas, lock>>

(* A card waiting for its challenge leaves the charge open.                *)
StatusCardPago(s) == "recebido"     \* mutant: pending taken for approved

StatusCard(s) ==
  IF ses[s].valor > 0 THEN "atrasado" ELSE ses[s].mapa[ses[s].cob].status

(* The token is renewed before the card is charged: the late status, set   *)
(* when the amount was computed, is committed and both rows expire ...     *)
RenovaCard(s) ==
  LET i == ses[s].cob
      loaded == ses[s].mapa[i] IN
  /\ At(s, "card", "create")
  /\ Lockable(s, {i})
  /\ cobranca' = [cobranca EXCEPT ![i] =
       Flush(@, loaded, [loaded EXCEPT !.status = StatusCard(s)])]
  /\ ses' = [ses EXCEPT ![s].pc = "renovado", ![s].valor = 0,
                        ![s].mapa = Livre.mapa]
  /\ UNCHANGED <<hoje, contrato, receitas, mp, lock>>

(* ... and are reloaded for the request to Mercado Pago.                   *)
ChargeCardReload(s) ==
  LET i == ses[s].cob IN
  /\ At(s, "card", "renovado")
  /\ \E c \in Charges, answer \in {"approved", "pending"} :
       /\ NewCardOrder(c, ses[s].ct, answer)
       /\ ses' = [ses EXCEPT ![s].charge = c, ![s].pc = AfterCard(answer),
                    ![s].ctrow = contrato[ses[s].ct],
                    ![s].mapa = [@ EXCEPT ![i] = cobranca[i]]]
  /\ UNCHANGED <<hoje, contrato, cobranca, receitas, lock>>

(* The row the session wants: new ids, the total is left alone.            *)
WithCard(s, status) ==
  [ses[s].mapa[ses[s].cob] EXCEPT !.status = status,
     !.order = ses[s].charge, !.payment = ses[s].charge]

StoreCard(s, status) ==
  LET i == ses[s].cob IN
  /\ Lockable(s, {i})
  /\ cobranca' = [cobranca EXCEPT ![i] =
                    Flush(@, ses[s].mapa[i], WithCard(s, status))]

(* order.is_paid: _finalize_payment on the row and the contract loaded     *)
(* before the call to Mercado Pago.                                        *)
CommitCardPaid(s) ==
  /\ At(s, "card", "commit")
  /\ ~JaRecebida(ses[s].mapa[ses[s].cob])
  /\ StoreCard(s, "recebido")
  /\ Credit(s, ses[s].cob, ses[s].charge)
  /\ UNCHANGED <<hoje, mp>>

(* The reloaded row was received meanwhile: nothing is committed.          *)
CardAlreadyReceived(s) ==
  /\ At(s, "card", "commit")
  /\ JaRecebida(ses[s].mapa[ses[s].cob])
  /\ Lockable(s, {ses[s].cob})
  /\ Close(s)
  /\ UNCHANGED <<hoje, contrato, cobranca, receitas, mp>>

CommitCardPending(s) ==
  /\ At(s, "card", "apply")
  /\ StoreCard(s, StatusCard(s))
  /\ Close(s)
  /\ UNCHANGED <<hoje, contrato, receitas, mp>>

Card(s) ==
  \/ \E i \in Cobrancas : StartCard(s, i)
  \/ ChargeCard(s) \/ RenovaCard(s) \/ ChargeCardReload(s)
  \/ CommitCardPaid(s) \/ CardAlreadyReceived(s) \/ CommitCardPending(s)
=============================================================================

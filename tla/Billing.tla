-------------------------------- MODULE Billing --------------------------------
(***************************************************************************)
(* The payment core of motopay, composed: webhooks, PIX issuers, the       *)
(* reconciliation job and the daily delinquency pass over one database and *)
(* one Mercado Pago account.                                               *)
(*                                                                         *)
(* LockingSpec is the part of the system whose handlers all go through     *)
(* SELECT ... FOR UPDATE on a row the session has not loaded before: the   *)
(* webhooks and create_pix_charge_for_contract.  Spec is the whole.        *)
(* LockedBilling says what the locks are worth.                            *)
(***************************************************************************)
EXTENDS MpReconcile, Delinquency, CardPayment

(* The steps that keep their row lock until they commit, and the one that  *)
(* loses it.                                                               *)
LockedStep(s) ==
  \/ Webhook(s) \/ CreatePixCharge(s) \/ SendPix(s)
  \/ Abort(s)

LockingStep(s) == LockedStep(s) \/ RenovaCreatePix(s)

LockingNext == Mundo \/ \E s \in Sessions : LockingStep(s)

LockingSpec == Init /\ [][LockingNext]_vars

UnlockedStep(s) ==
  \/ Reconcile(s) \/ ReconcileExpired(s) \/ Tick(s)
  \/ EnsurePix(s) \/ Card(s)

Next == Mundo \/ \E s \in Sessions : LockingStep(s) \/ UnlockedStep(s)

Spec == Init /\ [][Next]_vars

(* Fairness.  A session does not hang: its next statement, or the failing  *)
(* call to Mercado Pago, is eventually taken (WF); a row lock that is free *)
(* again and again is eventually granted, Postgres queues the waiters      *)
(* (SF); Mercado Pago redelivers a notification until it is processed (SF).*)
(* Failures other than those of Mercado Pago eventually stop (Falha: the   *)
(* session ends although its code had not come to an end).                 *)
Fairness ==
  /\ \A s \in Sessions :
       /\ WF_vars(ses[s].pc # "livre" /\ LockingStep(s))
       /\ SF_vars(LockCobranca(s))
  /\ \A c \in Charges : SF_vars(\E s \in Sessions : RecvOrder(s, c))

Falha(s) ==
  /\ Abort(s)
  /\ ~(NotFound(s) \/ AlreadyReceived(s) \/ ReusePix(s) \/ CancelSuperseded(s))

Estavel ==
  <>[][\A s \in Sessions :
         ses[s].pc \notin {"create", "renovado"} => ~Falha(s)]_vars

FairLockingSpec == LockingSpec /\ Fairness /\ Estavel

-----------------------------------------------------------------------------
(* The locking part.                                                       *)

TemReceita(i) == \E n \in DOMAIN receitas : receitas[n].cobranca = i

Recebida(i) == cobranca[i].status = "recebido"

(* "Cria o novo PIX ANTES de cancelar o antigo": the code stored in an     *)
(* open charge is never one this system has cancelled.                     *)
CodigoVivo ==
  \A i \in Cobrancas :
    IsOpen(cobranca[i]) /\ cobranca[i].order # None
      => mp[cobranca[i].order].status # "cancelled"

(* An open charge whose order was paid does not stay open: unless its      *)
(* order is replaced, it is received.                                      *)
Paga(i, c) ==
  /\ IsOpen(cobranca[i]) /\ cobranca[i].order = c
  /\ mp[c].status = "approved"

PagaERecebida ==
  \A i \in Cobrancas, c \in Charges :
    Paga(i, c) ~> (Recebida(i) \/ cobranca[i].order # c)

-----------------------------------------------------------------------------
(* Safety of the whole.                                                    *)

(* No receipt without money: the external id a receipt is booked under is  *)
(* a charge Mercado Pago approved.                                         *)
ReceitaTemPagamento ==
  \A n \in DOMAIN receitas : mp[receitas[n].externo].status = "approved"

(* No charge is marked received without its receipt, whatever handlers     *)
(* overlap on it.                                                          *)
RecebidaComprovada == \A i \in Cobrancas : Recebida(i) => TemReceita(i)

Receitas(k) ==
  Cardinality({n \in DOMAIN receitas :
                 cobranca[receitas[n].cobranca].contrato = k})

(* The due date never runs ahead of the receipts: a contract is at most    *)
(* one cycle further per RECEITA booked for it.                            *)
VencimentoPago ==
  \A k \in Contratos :
    contrato[k].proximo_vencimento <= Ciclo + Receitas(k) * Ciclo

-----------------------------------------------------------------------------
(* What the source says of the code and the code does not do.              *)

(* billing_service.py:1061, "with_for_update evita duplo-avanço de         *)
(* proximo_vencimento": a charge moves its contract by one cycle at most.  *)
SemDuploAvanco ==
  \A k \in Contratos :
    contrato[k].proximo_vencimento <= Ciclo + Ciclo *
      Cardinality({i \in Cobrancas : cobranca[i].contrato = k /\ TemReceita(i)})

(* billing_service.py:141, get_open_cobranca_locked serializes the         *)
(* requests that could create duplicate charges for one contract.          *)
UmaCobrancaAberta ==
  \A i, j \in Cobrancas :
    /\ IsOpen(cobranca[i]) /\ IsOpen(cobranca[j])
    /\ cobranca[i].contrato = cobranca[j].contrato
    => i = j

(* The same docstring, for the redelivery of a subscription webhook: one   *)
(* payment is booked once.                                                 *)
UmaReceitaPorPagamento ==
  \A j, n \in DOMAIN receitas :
    receitas[j].externo = receitas[n].externo => j = n

(* README.md:47, "Webhooks para confirmacao automatica": a PIX order the   *)
(* customer paid ends up in the books.                                     *)
PagamentoConfirmado ==
  \A c \in Charges :
    (mp[c].tipo = "order" /\ mp[c].status = "approved")
      ~> \E n \in DOMAIN receitas : receitas[n].externo = c
=============================================================================

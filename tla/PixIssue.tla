------------------------------- MODULE PixIssue -------------------------------
(***************************************************************************)
(* The two ways a person gets a PIX code: create_pix_charge_for_contract   *)
(* (dashboard, Telegram bot) and ensure_pix_for_cobranca (dashboard and    *)
(* payer portal).  Both call Mercado Pago between reading the charge and   *)
(* committing it, and cancel the superseded order after the commit.  The   *)
(* first holds the row lock over the call, unless the token is renewed     *)
(* first; the second does not lock.                                        *)
(***************************************************************************)
EXTENDS BillingDb

(* The contract is read and get_open_cobranca_locked starts.               *)
StartCreatePix(s, k) ==
  /\ ses[s].pc = "livre"
  /\ ses' = [ses EXCEPT ![s] =
       [Livre EXCEPT !.via = "create_pix", !.pc = "lock_open",
                     !.ct = k, !.ctrow = contrato[k],
                     !.valor = Atraso(contrato[k].proximo_vencimento, hoje),
                     !.cand = OpenOf(k)]]
  /\ UNCHANGED <<hoje, contrato, cobranca, receitas, mp, lock>>

OpenNow(s) == ses[s].cand \cap OpenOf(ses[s].ct)

(* A code with the same total is reused: nothing changes, the session ends *)
Reusable(row, valor) == row.order # None /\ row.valor = valor

OpenLocked(s, i) ==
  /\ At(s, "create_pix", "lock_open")
  /\ Lockable(s, ses[s].cand)
  /\ Last(OpenNow(s), i)

ReusePix(s) ==
  /\ \E i \in Cobrancas :
       OpenLocked(s, i) /\ Reusable(cobranca[i], ses[s].valor)
  /\ Close(s)
  /\ UNCHANGED <<hoje, contrato, cobranca, receitas, mp>>

LockOpen(s) ==
  /\ \E i \in Cobrancas :
       /\ OpenLocked(s, i)
       /\ ~Reusable(cobranca[i], ses[s].valor)
       /\ ses' = [ses EXCEPT ![s].pc = "create", ![s].cob = i, ![s].cand = {},
                             ![s].antigo = cobranca[i].order,
                             ![s].mapa = Holding(s, OpenNow(s))]
  /\ lock' = Locking(s, OpenNow(s))
  /\ UNCHANGED <<hoje, contrato, cobranca, receitas, mp>>

(* No open charge: there is no row to lock, and nothing else is locked.    *)
NoneOpen(s) ==
  /\ At(s, "create_pix", "lock_open")
  /\ Lockable(s, ses[s].cand)
  /\ OpenNow(s) = {}
  /\ ses' = [ses EXCEPT ![s].pc = "create", ![s].cand = {}]
  /\ UNCHANGED <<hoje, contrato, cobranca, receitas, mp, lock>>

(* ensure_pix_for_cobranca: the charge is read, with no lock.  An open     *)
(* charge whose code still has the right total is returned as it is.       *)
StartEnsurePix(s, i) ==
  LET valor == Atraso(cobranca[i].vencimento, hoje) IN
  /\ ses[s].pc = "livre"
  /\ IsOpen(cobranca[i])
  /\ ~Reusable(cobranca[i], valor)
  /\ ses' = [ses EXCEPT ![s] =
       [Livre EXCEPT !.via = "ensure_pix", !.pc = "create", !.cob = i,
                     !.ct = cobranca[i].contrato,
                     !.ctrow = contrato[cobranca[i].contrato],
                     !.valor = valor, !.antigo = cobranca[i].order,
                     !.mapa = [Livre.mapa EXCEPT ![i] = cobranca[i]]]]
  /\ UNCHANGED <<hoje, contrato, cobranca, receitas, mp, lock>>

(* The external call: a new order exists before the old one is cancelled.  *)
CreateOrder(s) ==
  /\ ses[s].pc = "create"
  /\ ses[s].via # "card"
  /\ \E c \in Charges :
       /\ NewOrder(c, ses[s].ct)
       /\ ses' = [ses EXCEPT ![s].pc = "apply", ![s].charge = c]
  /\ UNCHANGED <<hoje, contrato, cobranca, receitas, lock>>

(* The token is renewed before the call.  create_pix loses the row lock    *)
(* and its copy of the row ...                                             *)
RenovaCreatePix(s) ==
  /\ At(s, "create_pix", "create")
  /\ ses' = [ses EXCEPT ![s].pc = "renovado", ![s].mapa = Livre.mapa]
  /\ lock' = Unlocking(s)
  /\ UNCHANGED <<hoje, contrato, cobranca, receitas, mp>>

(* ... which it reloads, with no lock and no second look at its status,    *)
(* when Mercado Pago has answered.  The amount is the one computed before. *)
CreateOrderReload(s) ==
  LET i == ses[s].cob IN
  /\ At(s, "create_pix", "renovado")
  /\ \E c \in Charges :
       /\ NewOrder(c, ses[s].ct)
       /\ ses' = [ses EXCEPT ![s].pc = "apply", ![s].charge = c,
            ![s].ctrow = contrato[ses[s].ct],
            ![s].antigo = IF i = None THEN None ELSE cobranca[i].order,
            ![s].mapa = IF i = None THEN @ ELSE [@ EXCEPT ![i] = cobranca[i]]]
  /\ UNCHANGED <<hoje, contrato, cobranca, receitas, lock>>

(* ensure_pix has read all it needs: it overwrites the expired row without *)
(* looking at it again (`mapa' keeps what it had read).                    *)
RenovaEnsurePix(s) ==
  /\ At(s, "ensure_pix", "create")
  /\ ses' = [ses EXCEPT ![s].pc = "renovado"]
  /\ UNCHANGED <<hoje, contrato, cobranca, receitas, mp, lock>>

CreateOrderBlind(s) ==
  /\ At(s, "ensure_pix", "renovado")
  /\ \E c \in Charges :
       /\ NewOrder(c, ses[s].ct)
       /\ ses' = [ses EXCEPT ![s].pc = "expirado", ![s].charge = c]
  /\ UNCHANGED <<hoje, contrato, cobranca, receitas, lock>>

(* _apply_pix_to_cobranca: the row as the session wants it.                *)
WithPixSoOrder(row, status, s) ==       \* mutant: keeps the old payment id
  [row EXCEPT !.status = status, !.valor = ses[s].valor,
              !.order = ses[s].charge,
              !.payment = IF @ = None THEN ses[s].charge ELSE @]

WithPix(row, status, s) ==
  [row EXCEPT !.status = status, !.valor = ses[s].valor,
              !.order = ses[s].charge, !.payment = ses[s].charge]

(* The status of an open charge: atrasado from the first late day; without *)
(* delay, create_pix writes pendente and ensure_pix keeps what it loaded.  *)
StatusPix(s) ==
  IF ses[s].valor > 0 THEN "atrasado"
  ELSE IF ses[s].via = "create_pix" THEN "pendente"
  ELSE ses[s].mapa[ses[s].cob].status

(* The order the new PIX supersedes, remembered before it is overwritten.  *)
SupersededNova(s) == ses[s].charge      \* mutant: read after the overwrite

Superseded(s) == ses[s].antigo

(* db.commit(), then the old order is still to be cancelled.               *)
Committed(s) ==
  /\ ses' = [ses EXCEPT ![s] =
       IF ses[s].antigo = None THEN Livre
       ELSE [Livre EXCEPT !.via = ses[s].via, !.pc = "cancel",
                          !.antigo = Superseded(s)]]
  /\ lock' = Unlocking(s)

(* The UPDATE waits for the row lock, if somebody else holds it.           *)
CommitPix(s) ==
  LET i == ses[s].cob IN
  /\ ses[s].pc = "apply"
  /\ ses[s].via \in {"create_pix", "ensure_pix"}
  /\ i # None
  /\ Lockable(s, {i})
  /\ cobranca' = [cobranca EXCEPT ![i] =
       Flush(@, ses[s].mapa[i], WithPix(ses[s].mapa[i], StatusPix(s), s))]
  /\ Committed(s)
  /\ UNCHANGED <<hoje, contrato, receitas, mp>>

(* Attributes set on an expired instance are written whatever they were.   *)
OverwritePix(s) ==
  LET i == ses[s].cob IN
  /\ At(s, "ensure_pix", "expirado")
  /\ Lockable(s, {i})
  /\ cobranca' = [cobranca EXCEPT ![i] = WithPix(@, StatusPix(s), s)]
  /\ Committed(s)
  /\ UNCHANGED <<hoje, contrato, receitas, mp>>

InsertPix(s) ==
  /\ At(s, "create_pix", "apply")
  /\ ses[s].cob = None
  /\ \E i \in Cobrancas :
       /\ NextId(i)
       /\ cobranca' = [cobranca EXCEPT ![i] =
            WithPix([NoRow EXCEPT !.contrato = ses[s].ct,
                       !.vencimento = ses[s].ctrow.proximo_vencimento],
                    StatusPix(s), s)]
  /\ Committed(s)
  /\ UNCHANGED <<hoje, contrato, receitas, mp>>

CancelSuperseded(s) ==
  /\ ses[s].pc = "cancel"
  /\ ses[s].via \in {"create_pix", "ensure_pix"}
  /\ CancelOrder(ses[s].antigo)
  /\ Close(s)
  /\ UNCHANGED <<hoje, contrato, cobranca, receitas>>

CreatePixCharge(s) ==
  \/ \E k \in Contratos : StartCreatePix(s, k)
  \/ ReusePix(s) \/ LockOpen(s) \/ NoneOpen(s)
  \/ CreateOrderReload(s) \/ InsertPix(s)

SendPix(s) == CreateOrder(s) \/ CommitPix(s) \/ CancelSuperseded(s)

EnsurePix(s) ==
  \/ \E i \in Cobrancas : StartEnsurePix(s, i)
  \/ RenovaEnsurePix(s) \/ CreateOrderBlind(s) \/ OverwritePix(s)
=============================================================================

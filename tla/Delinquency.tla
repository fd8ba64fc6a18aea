------------------------------ MODULE Delinquency ------------------------------
(***************************************************************************)
(* The delinquency pass of daily_automation_tick for one late contract:    *)
(* _process_delinquency with the refresh_overdue_pix it calls.  The whole  *)
(* tick is one long transaction: rows are read without locks, Mercado Pago *)
(* is called twice (new order, then cancel of the old one) and the commit  *)
(* comes after that.                                                       *)
(***************************************************************************)
EXTENDS PixIssue

StartDelinquency(s, k) ==
  /\ ses[s].pc = "livre"
  /\ contrato[k].proximo_vencimento < hoje
  /\ ses' = [ses EXCEPT ![s] =
       [Livre EXCEPT !.via = "delinquency", !.pc = "scan",
                     !.ct = k, !.ctrow = contrato[k],
                     !.valor = Atraso(contrato[k].proximo_vencimento, hoje)]]
  /\ UNCHANGED <<hoje, contrato, cobranca, receitas, mp, lock>>

UpToDate(row, valor) ==
  /\ row.status = "atrasado"
  /\ row.valor = valor
  /\ row.payment # None /\ row.order # None

(* get_open_cobranca, no lock.  A row that is already late with today's    *)
(* total is left alone, only the contract is marked.                       *)
ReadOpen(s) ==
  LET open == OpenOf(ses[s].ct) IN
  /\ At(s, "delinquency", "scan")
  /\ \/ /\ open = {}
        /\ ses' = [ses EXCEPT ![s].pc = "create"]
     \/ \E i \in open :
          /\ Last(open, i)
          /\ ses' = [ses EXCEPT
               ![s].pc = IF UpToDate(cobranca[i], ses[s].valor)
                         THEN "commit" ELSE "create",
               ![s].cob = i, ![s].antigo = cobranca[i].order,
               ![s].mapa = Holding(s, {i})]
  /\ UNCHANGED <<hoje, contrato, cobranca, receitas, mp, lock>>

(* cancel_external_payment of the old order, before any commit.            *)
CancelBeforeCommit(s) ==
  /\ At(s, "delinquency", "apply")
  /\ ses[s].antigo # None
  /\ CancelOrder(ses[s].antigo)
  /\ ses' = [ses EXCEPT ![s].antigo = None]
  /\ UNCHANGED <<hoje, contrato, cobranca, receitas, lock>>

(* contrato.inadimplente = True, flushed against the loaded version.       *)
MarkLate(s) ==
  contrato' = [contrato EXCEPT ![ses[s].ct] =
    FlushContrato(@, ses[s].ctrow, [ses[s].ctrow EXCEPT !.inadimplente = TRUE])]

CommitDelinquency(s) ==
  /\ ses[s].via = "delinquency"
  /\ \/ /\ ses[s].pc = "commit"
        /\ UNCHANGED cobranca
     \/ /\ ses[s].pc = "apply" /\ ses[s].antigo = None
        /\ IF ses[s].cob # None
           THEN LET i == ses[s].cob IN
                /\ Lockable(s, {i})
                /\ cobranca' = [cobranca EXCEPT ![i] =
                     Flush(@, ses[s].mapa[i],
                           WithPix(ses[s].mapa[i], "atrasado", s))]
           ELSE \E i \in Cobrancas :
                /\ NextId(i)
                /\ cobranca' = [cobranca EXCEPT ![i] =
                     WithPix([NoRow EXCEPT !.contrato = ses[s].ct,
                                !.vencimento = ses[s].ctrow.proximo_vencimento],
                             "atrasado", s)]
  /\ MarkLate(s)
  /\ Close(s)
  /\ UNCHANGED <<hoje, receitas, mp>>

(* The token is renewed, before the new order or before the cancel: the    *)
(* commit ends the tick's savepoint, the next statement raises and the     *)
(* contract is skipped, but it is already marked.                          *)
RenovaDelinquency(s) ==
  /\ ses[s].via = "delinquency"
  /\ \/ ses[s].pc = "create"
     \/ ses[s].pc = "apply" /\ ses[s].antigo # None
  /\ MarkLate(s)
  /\ Close(s)
  /\ UNCHANGED <<hoje, cobranca, receitas, mp>>

Tick(s) ==
  \/ \E k \in Contratos : StartDelinquency(s, k)
  \/ ReadOpen(s) \/ CancelBeforeCommit(s) \/ CommitDelinquency(s)
  \/ RenovaDelinquency(s)
=============================================================================

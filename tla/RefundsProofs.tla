----------------------------- MODULE RefundsProofs -----------------------------
(***************************************************************************)
(* For every amount, set of sessions and set of dispute statuses: types,   *)
(* and that no refund is in a charge without being in the books; and, for  *)
(* handlers that run one at a time, that the books are exact.              *)
(*                                                                         *)
(* The sessions overwrite each other's totals, so the stored total alone   *)
(* says nothing of the books.  What is inductive is that every total       *)
(* anybody has SEEN is covered: the expenses only grow, so a total read    *)
(* earlier stays covered, and a write adds to them exactly what it adds to *)
(* the total it read.                                                      *)
(***************************************************************************)
EXTENDS Refunds, TLAPS

(* A loaded total is covered by the expenses.                              *)
VistoCoberto(s) ==
  ses[s].row # NoRow => ses[s].row.valor_estornado <= livro.estorno

(* TypeOK without `recentes', which no handler changes.                    *)
Tipado ==
  /\ cobranca \in Cobranca
  /\ livro \in Financeiro
  /\ mp \in Payment
  /\ ses \in [Sessions -> Session]

IInv ==
  /\ Tipado
  /\ DespesaCobreEstorno
  /\ \A s \in Sessions : VistoCoberto(s)

(* A session that only moves on keeps the invariant.                       *)
LEMMA Quiet ==
  ASSUME IInv, NEW s \in Sessions,
         UNCHANGED livro,
         cobranca' \in Cobranca, mp' \in Payment,
         cobranca'.valor_estornado = cobranca.valor_estornado,
         NEW nova \in Session, ses' = [ses EXCEPT ![s] = nova],
         nova.row \in {NoRow, cobranca, ses[s].row}
  PROVE  IInv'
<1> USE DEF IInv
<1>1. Tipado'
  BY DEF Tipado
<1>2. DespesaCobreEstorno'
  BY DEF DespesaCobreEstorno
<1>3. ASSUME NEW t \in Sessions PROVE VistoCoberto(t)'
  <2>1. CASE t # s
    BY <2>1, ses'[t] = ses[t] DEF Tipado, VistoCoberto
  <2>2. CASE t = s
    <3>1. ses'[s] = nova
      BY DEF Tipado
    <3>2. VistoCoberto(s)
      OBVIOUS
    <3> QED BY <2>2, <3>1, <3>2 DEF VistoCoberto, DespesaCobreEstorno
  <2> QED BY <2>1, <2>2
<1> QED BY <1>1, <1>2, <1>3

LEMMA LivreType == Livre \in Session
BY RefundsConstants DEF Livre, Session, Vias

LEMMA ViewType ==
  ASSUME IInv, NEW s \in Sessions
  PROVE  View(s) \in Cobranca /\ View(s).valor_estornado <= livro.estorno
BY DEF IInv, Tipado, VistoCoberto, DespesaCobreEstorno, View, Session

(* A new total, written with the expense of its difference to the one the  *)
(* session saw.                                                            *)
LEMMA BookInv ==
  ASSUME IInv, NEW s \in Sessions, NEW alvo \in 0..Valor, NEW esgota,
         View(s).valor_estornado <= alvo,
         Book(s, alvo, esgota), UNCHANGED mp
  PROVE  IInv'
<1> USE RefundsConstants
<1>1. View(s) \in Cobranca /\ View(s).valor_estornado <= livro.estorno
  BY ViewType
<1> DEFINE antes == View(s).valor_estornado
<1>2. antes \in 0..Valor
  BY <1>1 DEF Cobranca
<1>3. /\ livro.estorno \in Nat
      /\ livro' = [livro EXCEPT !.estorno = livro.estorno + (alvo - antes)]
  BY DEF IInv, Tipado, Financeiro, Book, Despesa
<1> HIDE DEF antes
<1>4. livro' \in Financeiro /\ livro'.estorno = livro.estorno + (alvo - antes)
  BY <1>2, <1>3 DEF IInv, Tipado, Financeiro, antes
<1>5. livro.estorno <= livro'.estorno /\ alvo <= livro'.estorno
  BY <1>1, <1>2, <1>3, <1>4 DEF antes
<1>6. cobranca' \in Cobranca /\ cobranca'.valor_estornado = alvo
  BY DEF IInv, Tipado, Cobranca, Book
<1>7. ses' = [ses EXCEPT ![s] = Livre]
  BY DEF Book, Close
<1>8. Tipado'
  BY <1>4, <1>6, <1>7, LivreType DEF IInv, Tipado
<1>9. ASSUME NEW t \in Sessions PROVE VistoCoberto(t)'
  <2>1. ses'[t] = Livre \/ ses'[t] = ses[t]
    BY <1>7 DEF IInv, Tipado
  <2>2. CASE ses'[t] = Livre
    BY <2>2 DEF VistoCoberto, Livre
  <2>3. CASE ses'[t] = ses[t] /\ ses[t].row # NoRow
    <3>1. ses[t].row \in Cobranca /\ ses[t].row.valor_estornado <= livro.estorno
      BY <2>3 DEF IInv, Tipado, VistoCoberto, Session
    <3>2. ses[t].row.valor_estornado \in Nat
      BY <3>1 DEF Cobranca
    <3> QED BY <1>3, <1>4, <1>5, <2>3, <3>1, <3>2 DEF VistoCoberto, Financeiro
  <2> QED BY <2>1, <2>2, <2>3 DEF VistoCoberto
<1> QED BY <1>5, <1>6, <1>8, <1>9 DEF IInv, DespesaCobreEstorno

LEMMA InitInv == Init => IInv
BY RefundsConstants, LivreType
   DEF Init, IInv, Tipado, DespesaCobreEstorno, VistoCoberto, Cobranca,
       Financeiro, Payment, Livre

-----------------------------------------------------------------------------
(* One lemma per group of actions.                                         *)

LEMMA RefundInv ==
  ASSUME IInv, NEW s \in Sessions, Refund(s)
  PROVE  IInv'
<1> USE RefundsConstants
<1>1. ASSUME NEW valor \in 1..Valor, StartRefund(s, valor) PROVE IInv'
  <2> DEFINE nova == [Livre EXCEPT
        !.via = "api", !.pc = "mp", !.valor = valor, !.row = cobranca]
  <2>1. valor \in 0..Valor /\ cobranca \in Cobranca
    BY DEF IInv, Tipado
  <2>2. nova \in Session /\ nova.row = cobranca
    BY <2>1, LivreType DEF Session, Vias
  <2> QED BY <1>1, <2>2, Quiet DEF StartRefund, IInv, Tipado
<1>2. ASSUME MpRefund(s) PROVE IInv'
  <2> DEFINE nova == [ses[s] EXCEPT !.pc = "book"]
  <2>1. nova \in Session /\ nova.row = ses[s].row
    BY DEF IInv, Tipado, Session
  <2>2. ses' = [ses EXCEPT ![s] = nova]
    BY <1>2 DEF MpRefund
  <2>3. ses[s].valor \in 0..Valor
    BY DEF IInv, Tipado, Session
  <2>4. Chave(s) \in 0..Valor
    BY <2>3 DEF Chave
  <2>5. mp' \in Payment
    <3>1. mp \in Payment
      BY DEF IInv, Tipado
    <3>2. CASE mp' = mp
      BY <3>1, <3>2
    <3>3. ASSUME NEW total \in 0..Valor,
                 mp' = [mp EXCEPT !.chaves = @ \cup {Chave(s)},
                                  !.refunded = total]
          PROVE  mp' \in Payment
      BY <2>4, <3>1, <3>3 DEF Payment
    <3>4. CASE Integral(s)
      <4>1. Valor \in 0..Valor
        OBVIOUS
      <4>2. mp' = mp \/ mp' = [mp EXCEPT !.chaves = @ \cup {Chave(s)},
                                         !.refunded = Valor]
        BY <1>2, <3>4, Zenon DEF MpRefund
      <4> QED BY <3>2, <3>3, <4>1, <4>2
    <3>5. CASE ~Integral(s) /\ mp' # mp
      <4>1. mp.refunded + ses[s].valor \in 0..Valor
        BY <1>2, <2>3, <3>1, <3>5 DEF MpRefund, Payment
      <4> QED BY <1>2, <3>3, <3>5, <4>1 DEF MpRefund
    <3> QED BY <3>2, <3>4, <3>5
  <2> QED BY <1>2, <2>1, <2>2, <2>5, Quiet DEF MpRefund, IInv, Tipado
<1>3. ASSUME BookRefund(s) PROVE IInv'
  <2> DEFINE alvo == Menor(View(s).valor_estornado + ses[s].valor, Valor)
  <2>1. View(s).valor_estornado \in 0..Valor /\ ses[s].valor \in 0..Valor
    BY ViewType DEF Cobranca, IInv, Tipado, Session
  <2>2. alvo \in 0..Valor /\ View(s).valor_estornado <= alvo
    BY <2>1 DEF Menor
  <2>3. Book(s, alvo, Esgotada(alvo)) /\ UNCHANGED mp
    BY <1>3 DEF BookRefund
  <2> HIDE DEF alvo
  <2> QED BY <2>2, <2>3, BookInv
<1> QED BY <1>1, <1>2, <1>3 DEF Refund

LEMMA AnsweredType ==
  ASSUME IInv, NEW sessao \in Session, NEW pc \in {"read", "book"},
         NEW valor \in {0, mp.refunded}
  PROVE  /\ Answered(sessao, pc, valor) \in Session
         /\ Answered(sessao, pc, valor).row = sessao.row
<1> DEFINE total == mp.refunded = Valor
<1>1. total \in BOOLEAN
  OBVIOUS
<1>2. valor \in 0..Valor
  BY RefundsConstants DEF IInv, Tipado, Payment
<1>3. Answered(sessao, pc, valor) =
        [sessao EXCEPT !.pc = pc, !.valor = valor, !.total = total]
  BY DEF Answered
<1> HIDE DEF total
<1> QED BY <1>1, <1>2, <1>3 DEF Session

LEMMA SyncInv ==
  ASSUME IInv, NEW s \in Sessions, Sync(s)
  PROVE  IInv'
<1> USE RefundsConstants
<1>1. ASSUME RecvRefund(s) PROVE IInv'
  <2> DEFINE base == [Livre EXCEPT !.via = "webhook"]
  <2>1. base \in Session /\ base.row = NoRow
    BY LivreType DEF Livre, Session, Vias
  <2>2. PICK valor \in {0, mp.refunded} :
          ses' = [ses EXCEPT ![s] = Answered(base, "read", valor)]
    BY <1>1 DEF RecvRefund
  <2> HIDE DEF base
  <2>3. /\ Answered(base, "read", valor) \in Session
        /\ Answered(base, "read", valor).row = NoRow
    BY <2>1, AnsweredType
  <2> QED BY <1>1, <2>2, <2>3, Quiet DEF RecvRefund, IInv, Tipado
<1>2. ASSUME ReadCharge(s) PROVE IInv'
  <2> DEFINE nova == [ses[s] EXCEPT !.pc = "book", !.row = cobranca]
  <2>1. nova \in Session /\ nova.row = cobranca
    BY DEF IInv, Tipado, Session
  <2>2. ses' = [ses EXCEPT ![s] = nova]
    BY <1>2 DEF ReadCharge
  <2> QED BY <1>2, <2>1, <2>2, Quiet DEF ReadCharge, IInv, Tipado
<1>3. ASSUME StartReconcile(s) PROVE IInv'
  <2> DEFINE nova == [Livre EXCEPT
        !.via = "reconcile", !.pc = "fetch", !.row = cobranca]
  <2>1. nova \in Session /\ nova.row = cobranca
    BY LivreType DEF IInv, Tipado, Session, Vias, Livre
  <2> QED BY <1>3, <2>1, Quiet DEF StartReconcile, IInv, Tipado
<1>4. ASSUME NEW valor \in {0, mp.refunded}, FetchPayment(s, valor) PROVE IInv'
  <2>1. ses[s] \in Session
    BY DEF IInv, Tipado
  <2>2. /\ Answered(ses[s], "book", valor) \in Session
        /\ Answered(ses[s], "book", valor).row = ses[s].row
    BY <2>1, AnsweredType
  <2>3. ses' = [ses EXCEPT ![s] = Answered(ses[s], "book", valor)]
    BY <1>4 DEF FetchPayment
  <2> QED BY <1>4, <2>2, <2>3, Quiet DEF FetchPayment, IInv, Tipado
<1>5. ASSUME SyncRefund(s) PROVE IInv'
  <2>1. View(s).valor_estornado \in 0..Valor
    BY ViewType DEF Cobranca
  <2>2. Reported(s) \in 0..Valor
    BY DEF Reported, IInv, Tipado, Session
  <2>3. View(s).valor_estornado <= Reported(s)
    BY <1>5, <2>1, <2>2 DEF SyncRefund
  <2>4. /\ Book(s, Reported(s), Esgotada(Reported(s)) \/ ses[s].total)
        /\ UNCHANGED mp
    BY <1>5 DEF SyncRefund
  <2> QED BY <2>2, <2>3, <2>4, BookInv
<1>6. ASSUME NothingToSync(s) PROVE IInv'
  BY <1>6, LivreType, Quiet DEF NothingToSync, Close, IInv, Tipado, Livre
<1> QED BY <1>1, <1>2, <1>3, <1>4, <1>5, <1>6 DEF Sync

LEMMA ChargebackInv ==
  ASSUME IInv, NEW s \in Sessions, Chargeback(s)
  PROVE  IInv'
<1> USE RefundsConstants
<1>1. ASSUME RecvChargeback(s) PROVE IInv'
  <2> DEFINE nova == [Livre EXCEPT
        !.via = "chargeback", !.pc = "read", !.disputa = mp.disputa]
  <2>1. nova \in Session /\ nova.row = NoRow
    BY LivreType DEF IInv, Tipado, Session, Vias, Livre, Payment
  <2> QED BY <1>1, <2>1, Quiet DEF RecvChargeback, IInv, Tipado
<1>2. ASSUME StartReconcileChargeback(s) PROVE IInv'
  <2> DEFINE nova == [Livre EXCEPT
        !.via = "reconcile_chargeback", !.pc = "fetch", !.row = cobranca]
  <2>1. nova \in Session /\ nova.row = cobranca
    BY LivreType DEF IInv, Tipado, Session, Vias, Livre
  <2> QED BY <1>2, <2>1, Quiet DEF StartReconcileChargeback, IInv, Tipado
<1>3. ASSUME FetchChargeback(s) PROVE IInv'
  <2> DEFINE nova == [ses[s] EXCEPT !.pc = "read", !.disputa = mp.disputa]
  <2>1. nova \in Session /\ nova.row = ses[s].row
    BY ZenonT(40) DEF IInv, Tipado, Session, Payment
  <2>2. ses' = [ses EXCEPT ![s] = nova]
    BY <1>3 DEF FetchChargeback
  <2> QED BY <1>3, <2>1, <2>2, Quiet DEF FetchChargeback, IInv, Tipado
<1>4. ASSUME ReadDispute(s) PROVE IInv'
  <2> DEFINE nova == [ses[s] EXCEPT !.pc = "book", !.row = View(s),
                                    !.existe = JaLancada(ses[s].disputa)]
  <2>1. JaLancada(ses[s].disputa) \in BOOLEAN
    BY DEF JaLancada
  <2>2. nova \in Session /\ nova.row \in {cobranca, ses[s].row}
    BY <2>1, ViewType DEF IInv, Tipado, Session, View
  <2>3. ses' = [ses EXCEPT ![s] = nova]
    BY <1>4 DEF ReadDispute
  <2> QED BY <1>4, <2>2, <2>3, Quiet DEF ReadDispute, IInv, Tipado
<1>5. ASSUME CommitDispute(s) PROVE IInv'
  <2>1. /\ ses[s].disputa \in Abertas \cup Perdidas \cup {None}
        /\ cobranca \in Cobranca /\ mp \in Payment /\ livro \in Financeiro
    BY DEF IInv, Tipado, Session
  <2>2. /\ cobranca' \in Cobranca
        /\ cobranca'.valor_estornado = cobranca.valor_estornado
    BY <1>5, <2>1 DEF CommitDispute, Cobranca
  <2>3. mp' \in Payment
    BY <1>5, <2>1 DEF CommitDispute, Payment, At
  <2>4. livro' \in Financeiro /\ livro'.estorno = livro.estorno
    BY <1>5, <2>1 DEF CommitDispute, Financeiro
  <2>5. ses' = [ses EXCEPT ![s] = Livre]
    BY <1>5 DEF CommitDispute, Close
  <2>6. Tipado'
    BY <2>2, <2>3, <2>4, <2>5, LivreType DEF IInv, Tipado
  <2>7. DespesaCobreEstorno'
    BY <2>2, <2>4 DEF IInv, DespesaCobreEstorno
  <2>8. ASSUME NEW t \in Sessions PROVE VistoCoberto(t)'
    <3>1. ses'[t] = Livre \/ ses'[t] = ses[t]
      BY <2>5 DEF IInv, Tipado
    <3> QED BY <2>4, <3>1 DEF VistoCoberto, Livre, IInv
  <2> QED BY <2>6, <2>7, <2>8 DEF IInv
<1> QED BY <1>1, <1>2, <1>3, <1>4, <1>5 DEF Chargeback

LEMMA ConfirmInv ==
  ASSUME IInv, NEW s \in Sessions,
         RecvConfirm(s) \/ Confirm(s) \/ Renew(s) \/ Abort(s)
  PROVE  IInv'
<1> USE RefundsConstants
<1>1. ASSUME RecvConfirm(s) PROVE IInv'
  <2> DEFINE nova == [Livre EXCEPT !.via = "confirm", !.pc = "book"]
  <2>1. nova \in Session /\ nova.row = NoRow
    BY LivreType DEF Livre, Session, Vias
  <2> QED BY <1>1, <2>1, Quiet DEF RecvConfirm, IInv, Tipado
<1>2. ASSUME Confirm(s) PROVE IInv'
  <2>1. cobranca \in Cobranca /\ livro \in Financeiro
    BY DEF IInv, Tipado
  <2>2. /\ cobranca' \in Cobranca
        /\ cobranca'.valor_estornado = cobranca.valor_estornado
    BY <1>2, <2>1 DEF Confirm, Cobranca
  <2>3. livro' \in Financeiro /\ livro'.estorno = livro.estorno
    BY <1>2, <2>1 DEF Confirm, Financeiro
  <2>4. ses' = [ses EXCEPT ![s] = Livre] /\ mp' = mp
    BY <1>2 DEF Confirm, Close
  <2>5. Tipado'
    BY <2>2, <2>3, <2>4, LivreType DEF IInv, Tipado
  <2>6. DespesaCobreEstorno'
    BY <2>2, <2>3 DEF IInv, DespesaCobreEstorno
  <2>7. ASSUME NEW t \in Sessions PROVE VistoCoberto(t)'
    <3>1. ses'[t] = Livre \/ ses'[t] = ses[t]
      BY <2>4 DEF IInv, Tipado
    <3> QED BY <2>3, <3>1 DEF VistoCoberto, Livre, IInv
  <2> QED BY <2>5, <2>6, <2>7 DEF IInv
<1>3. ASSUME Abort(s) PROVE IInv'
  BY <1>3, LivreType, Quiet DEF Abort, Close, IInv, Tipado, Livre
<1>4. ASSUME Renew(s) PROVE IInv'
  <2> DEFINE nova == [ses[s] EXCEPT !.row = cobranca]
  <2>1. nova \in Session /\ nova.row = cobranca
    BY DEF IInv, Tipado, Session
  <2>2. ses' = [ses EXCEPT ![s] = nova]
    BY <1>4 DEF Renew
  <2> QED BY <1>4, <2>1, <2>2, Quiet DEF Renew, IInv, Tipado
<1> QED BY <1>1, <1>2, <1>3, <1>4

LEMMA MundoInv == IInv /\ Mundo => IInv'
<1> SUFFICES ASSUME IInv, Mundo PROVE IInv'
  OBVIOUS
<1>1. UNCHANGED <<cobranca, livro, ses>>
  BY DEF Mundo, EstornoPainel, Disputar
<1>2. mp \in Payment
  BY DEF IInv, Tipado
<1>3. ASSUME NEW valor \in 1..Valor, EstornoPainel(valor) PROVE mp' \in Payment
  <2>1. mp.refunded + valor \in 0..Valor
    BY RefundsConstants, <1>2, <1>3 DEF EstornoPainel, Payment
  <2> QED BY <1>2, <1>3, <2>1 DEF EstornoPainel, Payment
<1>4. ASSUME NEW d \in Abertas \cup Perdidas, Disputar(d) PROVE mp' \in Payment
  BY <1>2, <1>4 DEF Disputar, Payment
<1>5. mp' \in Payment
  BY <1>3, <1>4 DEF Mundo
<1> QED BY <1>1, <1>5
       DEF IInv, Tipado, DespesaCobreEstorno, VistoCoberto

LEMMA StepInv ==
  ASSUME IInv, NEW s \in Sessions, Step(s)
  PROVE  IInv'
BY RefundInv, SyncInv, ChargebackInv, ConfirmInv DEF Step

LEMMA NextInv == IInv /\ [Next]_vars => IInv'
<1> SUFFICES ASSUME IInv, [Next]_vars PROVE IInv'
  OBVIOUS
<1>1. CASE Mundo
  BY <1>1, MundoInv
<1>2. ASSUME NEW s \in Sessions, Step(s) PROVE IInv'
  BY <1>2, StepInv
<1>3. CASE UNCHANGED conta
  BY <1>3 DEF conta, IInv, Tipado, DespesaCobreEstorno, VistoCoberto
<1> QED BY <1>1, <1>2, <1>3 DEF Next, Envelhecer, Voltar, vars

LEMMA Inductive == Spec => []IInv
BY InitInv, NextInv, PTL DEF Spec

(* Every reachable state is well typed; in particular no write takes a     *)
(* charge's refunded total above its amount, and no booked expense is      *)
(* negative.                                                               *)
THEOREM RefundsTypeCorrect == Spec => []TypeOK
<1> DEFINE Janela == recentes \subseteq Passes
<1>1. Init => Janela
  BY DEF Init
<1>2. Janela /\ [Next]_vars => Janela'
  BY DEF Next, Envelhecer, Voltar, vars
<1>3. IInv /\ Janela => TypeOK
  BY DEF IInv, Tipado, TypeOK
<1> QED BY <1>1, <1>2, <1>3, Inductive, PTL DEF Spec

(* However many sessions overwrite each other, whatever amounts, crashes   *)
(* and lost answers: what a charge says was refunded is in the books.      *)
THEOREM RefundsAreBooked == Spec => []DespesaCobreEstorno
<1>1. IInv => DespesaCobreEstorno
  BY DEF IInv
<1> QED BY <1>1, Inductive, PTL
-----------------------------------------------------------------------------
(* What holds while the handlers run one at a time: a handler starts only  *)
(* when no other is between its statements.  They still crash, lose their  *)
(* answers, and Mercado Pago and its panel go on beside them.              *)

Sozinho ==
  \A s, t \in Sessions : ses[s].pc # "livre" /\ ses[t].pc # "livre" => s = t

SeqNext == Next /\ Sozinho'

SeqSpec == Init /\ [][SeqNext]_vars

(* What a session holds, given the charge C, the books L and the payment M *)
(* as they are now: its row is not stale, an amount it was asked for or    *)
(* told of stands for a refund Mercado Pago has made, its query of the     *)
(* books still holds, and nobody refunded what it confirms.                *)
Atual(x, C, L, M) ==
  /\ x.pc = "livre" => x = Livre
  /\ x.row # NoRow => x.row = C
  /\ x.via = "api" => x.valor > 0 /\ (x.pc = "book" => M.refunded > 0)
  /\ x.via \in {"webhook", "reconcile"} /\ x.valor > 0 => M.refunded > 0
  /\ x.total => M.refunded > 0 /\ x.valor \in {0, Valor}
  /\ x.via \in {"chargeback", "reconcile_chargeback"} /\ x.pc = "book" =>
       x.existe = (x.disputa \in Perdidas /\ L.chargeback[x.disputa] > 0)
  /\ x.via = "confirm" => C.status = "recebido"

(* Nothing is refunded or answered before Mercado Pago refunds something.  *)
EstornoTemOrigem ==
  cobranca.valor_estornado > 0 \/ mp.chaves # {} => mp.refunded > 0

Contas ==
  /\ LivroExato
  /\ CanceladaEsgotada
  /\ ChargebackUnico
  /\ UmaReceita
  /\ EstornoTemOrigem

SeqInv ==
  /\ IInv
  /\ Sozinho
  /\ Contas
  /\ \A s \in Sessions : Atual(ses[s], cobranca, livro, mp)

LEMMA LivreAtual ==
  ASSUME NEW C, NEW L, NEW M
  PROVE  Atual(Livre, C, L, M)
BY DEF Atual, Livre

(* The session that takes a step is busy before it or after it, so every   *)
(* other is idle.                                                          *)
LEMMA Outras ==
  ASSUME SeqInv, NEW s \in Sessions, Step(s), Sozinho',
         NEW t \in Sessions, t # s
  PROVE  ses'[t] = Livre
<1>1. ses \in [Sessions -> Session]
  BY DEF SeqInv, IInv, Tipado
<1>2. /\ ses'[t] = ses[t]
      /\ ses[s].pc # "livre" \/ ses'[s].pc # "livre"
  <2>1. CASE Refund(s)
    BY <1>1, <2>1 DEF Refund, StartRefund, MpRefund, BookRefund, Book, Close,
       At, Livre
  <2>2. CASE Sync(s)
    BY <1>1, <2>2 DEF Sync, RecvRefund, ReadCharge, StartReconcile,
       FetchPayment, SyncRefund, NothingToSync, Book, Close, At, Livre, Answered
  <2>3. CASE Chargeback(s)
    BY <1>1, <2>3 DEF Chargeback, RecvChargeback, StartReconcileChargeback,
       FetchChargeback, ReadDispute, CommitDispute, Close, At, Livre
  <2>4. CASE RecvConfirm(s) \/ Confirm(s) \/ Renew(s) \/ Abort(s)
    BY <1>1, <2>4 DEF RecvConfirm, Confirm, Renew, Abort, Close, At, Livre
  <2> QED BY <2>1, <2>2, <2>3, <2>4 DEF Step
<1>3. ses[t].pc = "livre"
  BY <1>2 DEF SeqInv, Sozinho
<1> QED BY <1>2, <1>3 DEF SeqInv, Atual

(* So a step keeps the invariant when it keeps the accounts and leaves its *)
(* own session up to date.                                                 *)
LEMMA SeqStep ==
  ASSUME SeqInv, NEW s \in Sessions, Step(s), Sozinho', Contas',
         Atual(ses'[s], cobranca', livro', mp')
  PROVE  SeqInv'
<1>1. IInv'
  BY StepInv DEF SeqInv
<1>2. ASSUME NEW t \in Sessions PROVE Atual(ses'[t], cobranca', livro', mp')
  BY <1>2, Outras, LivreAtual
<1> QED BY <1>1, <1>2 DEF SeqInv

LEMMA VistaAtual ==
  ASSUME SeqInv, NEW s \in Sessions
  PROVE  /\ View(s) = cobranca
         /\ cobranca \in Cobranca /\ livro \in Financeiro /\ mp \in Payment
         /\ ses \in [Sessions -> Session]
         /\ ses[s] \in Session
         /\ Atual(ses[s], cobranca, livro, mp)
BY DEF SeqInv, IInv, Tipado, View, Atual

(* A new total of refunds Mercado Pago did make.                           *)
LEMMA SeqBook ==
  ASSUME SeqInv, NEW s \in Sessions, Step(s), Sozinho',
         NEW alvo \in 0..Valor, NEW esgota \in BOOLEAN,
         cobranca.valor_estornado <= alvo, alvo > 0, mp.refunded > 0,
         esgota <=> alvo >= Valor - 1,
         Book(s, alvo, esgota), UNCHANGED mp
  PROVE  SeqInv'
<1> USE RefundsConstants
<1>1. /\ View(s) = cobranca /\ cobranca \in Cobranca
      /\ livro \in Financeiro /\ ses \in [Sessions -> Session]
      /\ Contas
  BY VistaAtual DEF SeqInv
<1>2. /\ cobranca'.valor_estornado = alvo
      /\ cobranca'.status = IF esgota THEN "cancelado" ELSE cobranca.status
  BY <1>1 DEF Book, Cobranca
<1>3. /\ livro'.estorno = livro.estorno + (alvo - cobranca.valor_estornado)
      /\ livro'.chargeback = livro.chargeback
      /\ livro'.receita = livro.receita
  BY <1>1 DEF Book, Despesa, Financeiro
<1>4. LivroExato'
  <2>1. \A a, b \in 0..Valor : b + (a - b) = a
    OBVIOUS
  <2> QED BY <1>1, <1>2, <1>3, <2>1 DEF Contas, LivroExato, Cobranca
<1>5. CanceladaEsgotada'
  <2>1. CASE esgota
    BY <1>2, <2>1 DEF CanceladaEsgotada
  <2>2. CASE ~esgota
    BY <1>1, <1>2, <2>2 DEF Contas, CanceladaEsgotada, Cobranca
  <2> QED BY <2>1, <2>2
<1>6. ChargebackUnico' /\ UmaReceita' /\ EstornoTemOrigem'
  BY <1>1, <1>3 DEF Contas, ChargebackUnico, UmaReceita, EstornoTemOrigem
<1>7. ses'[s] = Livre
  BY <1>1 DEF Book, Close
<1> QED BY <1>4, <1>5, <1>6, <1>7, LivreAtual, SeqStep DEF Contas

(* A step that leaves the books and the payment alone, and the charge too. *)
LEMMA SeqQuiet ==
  ASSUME SeqInv, NEW s \in Sessions, Step(s), Sozinho',
         UNCHANGED <<cobranca, livro>>, EstornoTemOrigem',
         Atual(ses'[s], cobranca, livro, mp')
  PROVE  SeqInv'
<1>1. Contas'
  BY DEF SeqInv, Contas, LivroExato, CanceladaEsgotada, ChargebackUnico,
         UmaReceita
<1> QED BY <1>1, SeqStep

LEMMA SeqRefund ==
  ASSUME SeqInv, NEW s \in Sessions, Refund(s), Sozinho'
  PROVE  SeqInv'
<1> USE RefundsConstants
<1>1. Step(s)
  BY DEF Step
<1>2. /\ View(s) = cobranca
      /\ cobranca \in Cobranca /\ livro \in Financeiro /\ mp \in Payment
      /\ ses \in [Sessions -> Session] /\ ses[s] \in Session
      /\ Atual(ses[s], cobranca, livro, mp)
      /\ Contas
  BY VistaAtual DEF SeqInv
<1>3. ASSUME NEW valor \in 1..Valor, StartRefund(s, valor) PROVE SeqInv'
  <2>1. ses'[s] = [Livre EXCEPT
          !.via = "api", !.pc = "mp", !.valor = valor, !.row = cobranca]
    BY <1>2, <1>3 DEF StartRefund
  <2>2. Atual(ses'[s], cobranca, livro, mp')
    BY <2>1 DEF Atual, Livre
  <2> QED BY <1>1, <1>2, <1>3, <2>2, SeqQuiet
         DEF StartRefund, Contas, EstornoTemOrigem
<1>4. ASSUME MpRefund(s) PROVE SeqInv'
  <2>1. /\ ses[s].valor \in 1..Valor /\ ses[s].via = "api"
        /\ mp.refunded \in 0..Valor
    BY <1>2, <1>4 DEF MpRefund, At, Atual, Session, Payment
  <2>2. mp'.refunded > 0
    <3>1. CASE mp' = mp /\ Chave(s) \in mp.chaves
      BY <1>2, <3>1 DEF Contas, EstornoTemOrigem
    <3>2. ASSUME NEW total \in 0..Valor, total > 0,
                 mp' = [mp EXCEPT !.chaves = @ \cup {Chave(s)},
                                  !.refunded = total]
          PROVE  mp'.refunded > 0
      BY <1>2, <3>2 DEF Payment
    <3>3. CASE Integral(s) /\ Chave(s) \notin mp.chaves
      <4>1. mp' = [mp EXCEPT !.chaves = @ \cup {Chave(s)}, !.refunded = Valor]
        BY <1>4, <3>3, Zenon DEF MpRefund
      <4>2. Valor \in 0..Valor /\ Valor > 0
        OBVIOUS
      <4> QED BY <3>2, <4>1, <4>2
    <3>4. CASE ~Integral(s) /\ Chave(s) \notin mp.chaves
      <4> DEFINE total == mp.refunded + ses[s].valor
      <4>1. /\ mp' = [mp EXCEPT !.chaves = @ \cup {Chave(s)}, !.refunded = total]
            /\ total <= Valor
        BY <1>4, <3>4 DEF MpRefund
      <4>2. total \in 0..Valor /\ total > 0
        BY <2>1, <4>1
      <4> HIDE DEF total
      <4> QED BY <3>2, <4>1, <4>2
    <3> QED BY <1>4, <3>1, <3>3, <3>4 DEF MpRefund
  <2>3. ses'[s] = [ses[s] EXCEPT !.pc = "book"]
    BY <1>2, <1>4 DEF MpRefund
  <2>4. Atual(ses'[s], cobranca, livro, mp')
    BY <1>2, <2>1, <2>2, <2>3 DEF Atual, Session
  <2> QED BY <1>1, <1>4, <2>2, <2>4, SeqQuiet DEF MpRefund, EstornoTemOrigem
<1>5. ASSUME BookRefund(s) PROVE SeqInv'
  <2> DEFINE alvo == Menor(cobranca.valor_estornado + ses[s].valor, Valor)
  <2>1. /\ ses[s].valor \in 1..Valor /\ mp.refunded > 0
        /\ cobranca.valor_estornado \in 0..Valor
    BY <1>2, <1>5 DEF BookRefund, At, Atual, Session, Cobranca
  <2>2. /\ alvo \in 0..Valor /\ cobranca.valor_estornado <= alvo /\ alvo > 0
    BY <2>1 DEF Menor
  <2>3. Book(s, alvo, Esgotada(alvo)) /\ UNCHANGED mp
    BY <1>2, <1>5 DEF BookRefund
  <2> HIDE DEF alvo
  <2>4. Esgotada(alvo) \in BOOLEAN /\ (Esgotada(alvo) <=> alvo >= Valor - 1)
    BY DEF Esgotada
  <2> QED BY <1>1, <2>1, <2>2, <2>3, <2>4, SeqBook
<1> QED BY <1>3, <1>4, <1>5 DEF Refund

LEMMA SeqSync ==
  ASSUME SeqInv, NEW s \in Sessions, Sync(s), Sozinho'
  PROVE  SeqInv'
<1> USE RefundsConstants
<1>1. Step(s)
  BY DEF Step
<1>2. /\ View(s) = cobranca
      /\ cobranca \in Cobranca /\ livro \in Financeiro /\ mp \in Payment
      /\ ses \in [Sessions -> Session] /\ ses[s] \in Session
      /\ Atual(ses[s], cobranca, livro, mp)
      /\ Contas /\ EstornoTemOrigem
  BY VistaAtual DEF SeqInv, Contas
<1>3. ASSUME UNCHANGED <<cobranca, livro, mp>>,
             Atual(ses'[s], cobranca, livro, mp)
      PROVE  SeqInv'
  BY <1>1, <1>2, <1>3, SeqQuiet DEF EstornoTemOrigem
<1>4. ASSUME RecvRefund(s) PROVE SeqInv'
  <2>1. PICK valor \in {0, mp.refunded} : ses'[s] =
          [Livre EXCEPT !.via = "webhook", !.pc = "read", !.valor = valor,
                        !.total = (mp.refunded = Valor)]
    BY <1>2, <1>4 DEF RecvRefund, Answered, Livre
  <2>2. Atual(ses'[s], cobranca, livro, mp)
    BY <1>2, <1>4, <2>1 DEF RecvRefund, Atual, Livre, Payment
  <2> QED BY <1>3, <1>4, <2>2 DEF RecvRefund
<1>5. ASSUME ReadCharge(s) PROVE SeqInv'
  <2>1. ses'[s] = [ses[s] EXCEPT !.pc = "book", !.row = cobranca]
    BY <1>2, <1>5 DEF ReadCharge
  <2>2. Atual(ses'[s], cobranca, livro, mp)
    BY <1>2, <1>5, <2>1 DEF ReadCharge, At, Atual, Session
  <2> QED BY <1>3, <1>5, <2>2 DEF ReadCharge
<1>6. ASSUME StartReconcile(s) PROVE SeqInv'
  <2>1. ses'[s] = [Livre EXCEPT
          !.via = "reconcile", !.pc = "fetch", !.row = cobranca]
    BY <1>2, <1>6 DEF StartReconcile
  <2>2. Atual(ses'[s], cobranca, livro, mp)
    BY <2>1 DEF Atual, Livre
  <2> QED BY <1>3, <1>6, <2>2 DEF StartReconcile
<1>7. ASSUME NEW valor \in {0, mp.refunded}, FetchPayment(s, valor)
      PROVE  SeqInv'
  <2>1. ses'[s] = [ses[s] EXCEPT !.pc = "book", !.valor = valor,
                                 !.total = (mp.refunded = Valor)]
    BY <1>2, <1>7 DEF FetchPayment, Answered
  <2>2. Atual(ses'[s], cobranca, livro, mp)
    <3>1. /\ ses[s].via = "reconcile" /\ mp.refunded \in 0..Valor
          /\ ses[s].row # NoRow => ses[s].row = cobranca
      BY <1>2, <1>7 DEF FetchPayment, At, Atual, Payment
    <3>2. /\ ses'[s].via = "reconcile" /\ ses'[s].pc = "book"
          /\ ses'[s].valor = valor
          /\ ses'[s].total <=> mp.refunded = Valor
          /\ ses'[s].row = ses[s].row
      BY <1>2, <2>1, <3>1 DEF Session
    <3> QED BY <3>1, <3>2 DEF Atual
  <2> QED BY <1>3, <1>7, <2>2 DEF FetchPayment
<1>8. ASSUME SyncRefund(s) PROVE SeqInv'
  <2> DEFINE alvo == Reported(s)
             esgota == Esgotada(alvo) \/ ses[s].total
  <2>1. /\ ses[s].valor \in 0..Valor /\ ses[s].total \in BOOLEAN
        /\ cobranca.valor_estornado \in 0..Valor
        /\ ses[s].via \in {"webhook", "reconcile"}
        /\ ses[s].valor > 0 => mp.refunded > 0
        /\ ses[s].total => mp.refunded > 0 /\ ses[s].valor \in {0, Valor}
    BY <1>2, <1>8 DEF SyncRefund, At, Atual, Session, Cobranca
  <2>2. /\ Reported(s) > cobranca.valor_estornado
        /\ Book(s, alvo, esgota) /\ UNCHANGED mp
    BY <1>2, <1>8 DEF SyncRefund
  <2>3. /\ alvo \in 0..Valor /\ cobranca.valor_estornado <= alvo /\ alvo > 0
        /\ mp.refunded > 0
        /\ ses[s].total => alvo = Valor
    BY <2>1, <2>2 DEF Reported
  <2>4. esgota \in BOOLEAN /\ (esgota <=> alvo >= Valor - 1)
    BY <2>1, <2>3 DEF Esgotada
  <2> HIDE DEF alvo, esgota
  <2> QED BY <1>1, <2>2, <2>3, <2>4, SeqBook
<1>9. ASSUME NothingToSync(s) PROVE SeqInv'
  BY <1>2, <1>3, <1>9, LivreAtual DEF NothingToSync, Close
<1> QED BY <1>4, <1>5, <1>6, <1>7, <1>8, <1>9 DEF Sync

LEMMA SeqChargeback ==
  ASSUME SeqInv, NEW s \in Sessions, Chargeback(s), Sozinho'
  PROVE  SeqInv'
<1> USE RefundsConstants
<1>1. Step(s)
  BY DEF Step
<1>2. /\ View(s) = cobranca
      /\ cobranca \in Cobranca /\ livro \in Financeiro /\ mp \in Payment
      /\ ses \in [Sessions -> Session] /\ ses[s] \in Session
      /\ Atual(ses[s], cobranca, livro, mp)
      /\ Contas /\ EstornoTemOrigem
  BY VistaAtual DEF SeqInv, Contas
<1>3. ASSUME UNCHANGED <<cobranca, livro, mp>>,
             Atual(ses'[s], cobranca, livro, mp)
      PROVE  SeqInv'
  BY <1>1, <1>2, <1>3, SeqQuiet DEF EstornoTemOrigem
<1>4. ASSUME RecvChargeback(s) PROVE SeqInv'
  <2>1. ses'[s] = [Livre EXCEPT
          !.via = "chargeback", !.pc = "read", !.disputa = mp.disputa]
    BY <1>2, <1>4 DEF RecvChargeback
  <2>2. Atual(ses'[s], cobranca, livro, mp)
    BY <2>1 DEF Atual, Livre
  <2> QED BY <1>3, <1>4, <2>2 DEF RecvChargeback
<1>5. ASSUME StartReconcileChargeback(s) PROVE SeqInv'
  <2>1. ses'[s] = [Livre EXCEPT
          !.via = "reconcile_chargeback", !.pc = "fetch", !.row = cobranca]
    BY <1>2, <1>5 DEF StartReconcileChargeback
  <2>2. Atual(ses'[s], cobranca, livro, mp)
    BY <2>1 DEF Atual, Livre
  <2> QED BY <1>3, <1>5, <2>2 DEF StartReconcileChargeback
<1>6. ASSUME FetchChargeback(s) PROVE SeqInv'
  <2>1. ses'[s] = [ses[s] EXCEPT !.pc = "read", !.disputa = mp.disputa]
    BY <1>2, <1>6 DEF FetchChargeback
  <2>2. Atual(ses'[s], cobranca, livro, mp)
    BY <1>2, <1>6, <2>1 DEF FetchChargeback, At, Atual, Session
  <2> QED BY <1>3, <1>6, <2>2 DEF FetchChargeback
<1>7. ASSUME ReadDispute(s) PROVE SeqInv'
  <2>1. ses'[s] = [ses[s] EXCEPT !.pc = "book", !.row = cobranca,
                                 !.existe = JaLancada(ses[s].disputa)]
    BY <1>2, <1>7 DEF ReadDispute
  <2>2. Atual(ses'[s], cobranca, livro, mp)
    BY <1>2, <1>7, <2>1 DEF ReadDispute, At, Atual, Session, JaLancada
  <2> QED BY <1>3, <1>7, <2>2 DEF ReadDispute
<1>8. ASSUME CommitDispute(s) PROVE SeqInv'
  <2> DEFINE d == ses[s].disputa
  <2>1. ses[s].existe = (d \in Perdidas /\ livro.chargeback[d] > 0)
    BY <1>2, <1>8 DEF CommitDispute, At, Atual
  <2>2. /\ cobranca'.valor_estornado = cobranca.valor_estornado
        /\ cobranca'.status = cobranca.status
    BY <1>2, <1>8 DEF CommitDispute, Cobranca
  <2>3. \/ livro' = livro
        \/ /\ d \in Perdidas /\ ~ses[s].existe
           /\ livro' = [livro EXCEPT !.chargeback[d] = @ + 1]
    BY <1>8 DEF CommitDispute
  <2>4. livro'.estorno = livro.estorno /\ livro'.receita = livro.receita
    BY <1>2, <2>3 DEF Financeiro
  <2>5. mp'.refunded = mp.refunded /\ mp'.chaves = mp.chaves
    BY <1>2, <1>8 DEF CommitDispute, Payment
  <2>6. ses'[s] = Livre
    BY <1>2, <1>8 DEF CommitDispute, Close
  <2>7. ChargebackUnico'
    <3>1. \A e \in Perdidas : livro.chargeback[e] \in Nat /\ livro.chargeback[e] <= 1
      BY <1>2 DEF Contas, ChargebackUnico, Financeiro
    <3>2. CASE livro' = livro
      BY <3>1, <3>2 DEF ChargebackUnico
    <3>3. CASE /\ d \in Perdidas /\ ~ses[s].existe
               /\ livro' = [livro EXCEPT !.chargeback[d] = @ + 1]
      <4>1. livro.chargeback[d] = 0
        <5>1. ~(livro.chargeback[d] > 0)
          BY <2>1, <3>3, Zenon
        <5> QED BY <3>1, <3>3, <5>1
      <4>2. \A e \in Perdidas : livro'.chargeback[e] =
              IF e = d THEN 1 ELSE livro.chargeback[e]
        BY <1>2, <3>3, <4>1 DEF Financeiro
      <4> QED BY <3>1, <4>2 DEF ChargebackUnico
    <3> QED BY <2>3, <3>2, <3>3
  <2> HIDE DEF d
  <2>8. Contas'
    BY <1>2, <2>2, <2>4, <2>5, <2>7
       DEF Contas, LivroExato, CanceladaEsgotada, UmaReceita, EstornoTemOrigem
  <2> QED BY <1>1, <2>6, <2>8, LivreAtual, SeqStep
<1> QED BY <1>4, <1>5, <1>6, <1>7, <1>8 DEF Chargeback

(* Nobody is between the approval a confirmation saw and its write, so it  *)
(* finds the charge received: nothing to do.                               *)
LEMMA SeqConfirm ==
  ASSUME SeqInv, NEW s \in Sessions,
         RecvConfirm(s) \/ Confirm(s) \/ Renew(s) \/ Abort(s), Sozinho'
  PROVE  SeqInv'
<1> USE RefundsConstants
<1>1. Step(s)
  BY DEF Step
<1>2. /\ cobranca \in Cobranca /\ mp \in Payment
      /\ ses \in [Sessions -> Session] /\ ses[s] \in Session
      /\ Atual(ses[s], cobranca, livro, mp)
      /\ Contas /\ EstornoTemOrigem
  BY VistaAtual DEF SeqInv, Contas
<1>3. ASSUME UNCHANGED <<cobranca, livro, mp>>,
             Atual(ses'[s], cobranca, livro, mp)
      PROVE  SeqInv'
  BY <1>1, <1>2, <1>3, SeqQuiet DEF EstornoTemOrigem
<1>4. ASSUME RecvConfirm(s) PROVE SeqInv'
  <2>1. ses'[s] = [Livre EXCEPT !.via = "confirm", !.pc = "book"]
    BY <1>2, <1>4 DEF RecvConfirm
  <2>2. cobranca.status = "recebido"
    BY <1>2, <1>4 DEF RecvConfirm, Contas, EstornoTemOrigem,
       CanceladaEsgotada, Cobranca
  <2>3. Atual(ses'[s], cobranca, livro, mp)
    BY <2>1, <2>2 DEF Atual, Livre
  <2> QED BY <1>3, <1>4, <2>3 DEF RecvConfirm
<1>5. ASSUME Confirm(s) PROVE SeqInv'
  <2>1. cobranca.status = "recebido"
    BY <1>2, <1>5 DEF Confirm, At, Atual
  <2> QED BY <1>2, <1>3, <1>5, <2>1, LivreAtual DEF Confirm, Close
<1>6. ASSUME Abort(s) PROVE SeqInv'
  BY <1>2, <1>3, <1>6, LivreAtual DEF Abort, Close
<1>7. ASSUME Renew(s) PROVE SeqInv'
  <2>1. ses'[s] = [ses[s] EXCEPT !.row = cobranca]
    BY <1>2, <1>7 DEF Renew
  <2>2. Atual(ses'[s], cobranca, livro, mp)
    BY <1>2, <1>7, <2>1 DEF Renew, At, Atual, Session
  <2> QED BY <1>3, <1>7, <2>2 DEF Renew
<1> QED BY <1>4, <1>5, <1>6, <1>7

LEMMA SeqMundo ==
  ASSUME SeqInv, Mundo
  PROVE  SeqInv'
<1> USE RefundsConstants
<1>1. UNCHANGED <<cobranca, livro, ses>>
  BY DEF Mundo, EstornoPainel, Disputar
<1>2. mp \in Payment
  BY DEF SeqInv, IInv, Tipado
<1>3. /\ mp'.chaves = mp.chaves
      /\ mp.refunded > 0 => mp'.refunded > 0
  <2>1. ASSUME NEW valor \in 1..Valor, EstornoPainel(valor)
        PROVE  mp'.chaves = mp.chaves /\ mp'.refunded > 0
    BY <1>2, <2>1 DEF EstornoPainel, Payment
  <2>2. ASSUME NEW d \in Abertas \cup Perdidas, Disputar(d)
        PROVE  mp'.chaves = mp.chaves /\ mp'.refunded = mp.refunded
    BY <1>2, <2>2 DEF Disputar, Payment
  <2> QED BY <2>1, <2>2 DEF Mundo
<1>4. Contas'
  BY <1>1, <1>3 DEF SeqInv, Contas, LivroExato, CanceladaEsgotada,
     ChargebackUnico, UmaReceita, EstornoTemOrigem
<1>5. ASSUME NEW s \in Sessions PROVE Atual(ses[s], cobranca, livro, mp')
  BY <1>3 DEF SeqInv, Atual
<1>6. IInv'
  BY MundoInv DEF SeqInv
<1> QED BY <1>1, <1>4, <1>5, <1>6 DEF SeqInv, Sozinho

LEMMA SeqInductive == SeqSpec => []SeqInv
<1>1. Init => SeqInv
  <2> SUFFICES ASSUME Init PROVE SeqInv
    OBVIOUS
  <2>1. \A s \in Sessions : ses[s] = Livre
    BY DEF Init
  <2>2. Contas
    BY RefundsConstants DEF Init, Contas, LivroExato, CanceladaEsgotada,
       ChargebackUnico, UmaReceita, EstornoTemOrigem
  <2>3. Sozinho
    BY <2>1 DEF Sozinho, Livre
  <2>4. \A s \in Sessions : Atual(ses[s], cobranca, livro, mp)
    BY <2>1, LivreAtual
  <2> QED BY <2>2, <2>3, <2>4, InitInv DEF SeqInv
<1>2. SeqInv /\ [SeqNext]_vars => SeqInv'
  <2> SUFFICES ASSUME SeqInv, [SeqNext]_vars PROVE SeqInv'
    OBVIOUS
  <2>1. CASE UNCHANGED conta
    <3>1. IInv'
      BY <2>1, UNCHANGED <<cobranca, livro, mp, ses>>
         DEF conta, SeqInv, IInv, Tipado, DespesaCobreEstorno, VistoCoberto
    <3> QED BY <2>1, <3>1
           DEF SeqInv, conta, Sozinho, Contas, LivroExato, CanceladaEsgotada,
               ChargebackUnico, UmaReceita, EstornoTemOrigem
  <2>2. CASE Mundo
    BY <2>2, SeqMundo
  <2>3. ASSUME NEW s \in Sessions, Step(s), Sozinho' PROVE SeqInv'
    BY <2>3, SeqRefund, SeqSync, SeqChargeback, SeqConfirm DEF Step
  <2> QED BY <2>1, <2>2, <2>3 DEF SeqNext, Next, Envelhecer, Voltar, vars
<1> QED BY <1>1, <1>2, PTL DEF SeqSpec

(* While handlers run one at a time the expenses are exactly the refunds,  *)
(* whatever crashes, lost answers and refunds made in the panel come       *)
(* between: what the API call booked, the webhook that reports it does not *)
(* book again.                                                             *)
THEOREM BooksAreExact == SeqSpec => []LivroExato
<1>1. SeqInv => LivroExato
  BY DEF SeqInv, Contas
<1> QED BY <1>1, SeqInductive, PTL

(* And the charge is cancelled exactly when its refunds reach its amount,  *)
(* one cent apart; no redelivered confirmation reopens it.                 *)
THEOREM CancelledWhenRefunded == SeqSpec => []CanceladaEsgotada
<1>1. SeqInv => CanceladaEsgotada
  BY DEF SeqInv, Contas
<1> QED BY <1>1, SeqInductive, PTL

(* A lost dispute is one expense, however often it is notified.            *)
THEOREM ChargebackBookedOnce == SeqSpec => []ChargebackUnico
<1>1. SeqInv => ChargebackUnico
  BY DEF SeqInv, Contas
<1> QED BY <1>1, SeqInductive, PTL

(* A payment is confirmed once: the second receipt of the run that refutes *)
(* UmaReceita takes two handlers at once.                                  *)
THEOREM OneReceipt == SeqSpec => []UmaReceita
<1>1. SeqInv => UmaReceita
  BY DEF SeqInv, Contas
<1> QED BY <1>1, SeqInductive, PTL

(* A single worker runs its handlers one at a time.                        *)
THEOREM OneWorkerIsSequential ==
  ASSUME \A s, t \in Sessions : s = t
  PROVE  Spec => SeqSpec
<1>1. [Next]_vars => [SeqNext]_vars
  BY DEF SeqNext, Sozinho
<1> QED BY <1>1, PTL DEF Spec, SeqSpec
=============================================================================

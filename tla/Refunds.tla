-------------------------------- MODULE Refunds --------------------------------
(***************************************************************************)
(* What happens to a charge after it was received: refunds asked by the    *)
(* owner, refunds and chargebacks Mercado Pago reports by webhook, and the *)
(* two reconciliation passes that look for what the webhooks missed.       *)
(*                                                                         *)
(* One received charge is enough: every handler reads and writes the row   *)
(* of one payment, and none of them locks it.  Amounts are in cents.  As   *)
(* in BillingDb, a row a session has loaded is not reloaded before its     *)
(* commit, and an UPDATE writes the attributes that differ from it.        *)
(* Renewing the operacao's token commits, so the row is then loaded anew.  *)
(***************************************************************************)
EXTENDS Integers

CONSTANTS
  Valor,        \* the amount received
  OrdersApi,    \* TRUE: paid through an order, FALSE: a classic payment
  Abertas,      \* dispute statuses that are still open
  Perdidas,     \* _CHARGEBACK_LOST_STATUSES
  Sessions, None

ASSUME RefundsConstants ==
  /\ Valor \in Nat \ {0}
  /\ OrdersApi \in BOOLEAN
  /\ Abertas \cap Perdidas = {}
  /\ None \notin Abertas \cup Perdidas

VARIABLES
  cobranca,   \* the row of the charge
  livro,      \* financeiro: total of its refund DESPESAs, its chargeback
              \* DESPESAs by dispute status, its RECEITAs
  mp,         \* the payment at Mercado Pago
  ses,        \* the sessions
  recentes    \* the passes whose 50 newest rows still include this one

conta == <<cobranca, livro, mp, ses>>

vars == <<conta, recentes>>

Passes == {"estornos", "disputas"}

Cobranca == [status: {"recebido", "cancelado"}, valor_estornado: 0..Valor,
             disputa: Abertas \cup Perdidas \cup {None}]

Financeiro == [estorno: Nat, chargeback: [Perdidas -> Nat], receita: Nat]

(* `chaves': the idempotency keys it has answered; `avisado': a delivery   *)
(* about the present state of the dispute was answered 200.                *)
Payment == [refunded: 0..Valor, chaves: SUBSET (0..Valor),
            disputa: Abertas \cup Perdidas \cup {None}, avisado: BOOLEAN]

Vias == {"livre", "api", "webhook", "reconcile", "chargeback",
         "reconcile_chargeback", "confirm"}

NoRow == [status |-> "nada"]

Session == [via: Vias, pc: {"livre", "mp", "fetch", "read", "book"},
            valor: 0..Valor,          \* amount asked, or the answer's total
            total: BOOLEAN,           \* the answer's status is `refunded'
            disputa: Abertas \cup Perdidas \cup {None},
            existe: BOOLEAN,          \* _financeiro_with_desc_exists
            row: Cobranca \cup {NoRow}]   \* identity map

Livre == [via |-> "livre", pc |-> "livre", valor |-> 0, total |-> FALSE,
          disputa |-> None, existe |-> FALSE, row |-> NoRow]

At(s, vias, pc) == ses[s].via \in vias /\ ses[s].pc = pc

Close(s) == ses' = [ses EXCEPT ![s] = Livre]

(* A failed call, a lost answer, a crash: whatever Mercado Pago did stays. *)
Abort(s) ==
  /\ ses[s].pc # "livre"
  /\ Close(s)
  /\ UNCHANGED <<cobranca, livro, mp>>

(* What the session sees of the row.                                       *)
View(s) == IF ses[s].row = NoRow THEN cobranca ELSE ses[s].row

(* The write of a new refunded total: DESPESA of the difference to the     *)
(* total the session has loaded; cancelled up to one cent from the whole.  *)
EsgotadaSemTolerancia(alvo) == alvo >= Valor        \* mutant

Esgotada(alvo) == alvo >= Valor - 1

DespesaZerada(alvo, antes) == 0                     \* mutant: no expense

DespesaTotal(alvo, antes) == alvo                   \* mutant: not the delta

Despesa(alvo, antes) == alvo - antes

Book(s, alvo, esgota) ==
  /\ cobranca' = [cobranca EXCEPT
       !.valor_estornado = alvo,
       !.status = IF esgota /\ View(s).status # "cancelado"
                  THEN "cancelado" ELSE @]
  /\ livro' = [livro EXCEPT
       !.estorno = @ + Despesa(alvo, View(s).valor_estornado)]
  /\ Close(s)

Menor(a, b) == IF a <= b THEN a ELSE b

-----------------------------------------------------------------------------
(* POST /cobrancas/{id}/refund: refund_cobranca_mercadopago.               *)

StartRefund(s, valor) ==
  /\ ses[s].pc = "livre"
  /\ cobranca.status = "recebido"
  /\ valor \in 1..(Valor - cobranca.valor_estornado)
  /\ ses' = [ses EXCEPT ![s] = [Livre EXCEPT
       !.via = "api", !.pc = "mp", !.valor = valor, !.row = cobranca]]
  /\ UNCHANGED <<cobranca, livro, mp>>

(* The body is empty for a total refund of an order nothing was refunded   *)
(* of when the request began: the amount is then the whole.  The key says  *)
(* "full" (0 here) for it, and the amount for any other.                   *)
Integral(s) == OrdersApi /\ ses[s].valor = Valor

Chave(s) == IF Integral(s) THEN 0 ELSE ses[s].valor

(* Mercado Pago answers a key it knows as it did before; otherwise it      *)
(* refunds the amount if that much is left.                                *)
MpRefund(s) ==
  /\ At(s, {"api"}, "mp")
  /\ \/ /\ Chave(s) \in mp.chaves
        /\ UNCHANGED mp
     \/ /\ Chave(s) \notin mp.chaves
        /\ IF Integral(s) THEN mp.refunded < Valor
                          ELSE mp.refunded + ses[s].valor <= Valor
        /\ mp' = [mp EXCEPT !.chaves = @ \cup {Chave(s)},
                    !.refunded = IF Integral(s) THEN Valor
                                                ELSE @ + ses[s].valor]
  /\ ses' = [ses EXCEPT ![s].pc = "book"]
  /\ UNCHANGED <<cobranca, livro>>

(* handle_mercadopago_refund_confirmed: relative to the loaded total.      *)
BookRefund(s) ==
  LET alvo == Menor(View(s).valor_estornado + ses[s].valor, Valor) IN
  /\ At(s, {"api"}, "book")
  /\ Book(s, alvo, Esgotada(alvo))
  /\ UNCHANGED mp

-----------------------------------------------------------------------------
(* sync_refund_from_mercadopago_payment, called by the payment webhook and *)
(* by reconcile_mercadopago_refunds: relative to what Mercado Pago says.   *)

(* A payment as the API returns it, into a session: the total refunded,    *)
(* which may be missing, and whether the status is `refunded'.             *)
Answered(session, pc, valor) ==
  [session EXCEPT !.pc = pc, !.valor = valor, !.total = (mp.refunded = Valor)]

(* The webhook asks for the payment, and then loads the row.               *)
RecvRefund(s) ==
  /\ ses[s].pc = "livre"
  /\ mp.refunded > 0
  /\ \E valor \in {0, mp.refunded} :
       ses' = [ses EXCEPT ![s] =
                 Answered([Livre EXCEPT !.via = "webhook"], "read", valor)]
  /\ UNCHANGED <<cobranca, livro, mp>>

ReadCharge(s) ==
  /\ At(s, {"webhook"}, "read")
  /\ ses' = [ses EXCEPT ![s].pc = "book", ![s].row = cobranca]
  /\ UNCHANGED <<cobranca, livro, mp>>

(* The reconciliation pass lists the 50 newest rows, and then asks for     *)
(* each payment.                                                           *)
SoRecebida(row) == row.status = "recebido"   \* mutant: skips the cancelled

Listada(row) == row.status \in {"recebido", "cancelado"}

StartReconcile(s) ==
  /\ ses[s].pc = "livre"
  /\ "estornos" \in recentes /\ Listada(cobranca)
  /\ ses' = [ses EXCEPT ![s] = [Livre EXCEPT
       !.via = "reconcile", !.pc = "fetch", !.row = cobranca]]
  /\ UNCHANGED <<cobranca, livro, mp>>

FetchPayment(s, valor) ==
  /\ At(s, {"reconcile"}, "fetch")
  /\ ses' = [ses EXCEPT ![s] = Answered(@, "book", valor)]
  /\ UNCHANGED <<cobranca, livro, mp>>

(* The total the answer stands for: none given and `refunded' means all of *)
(* it, none given otherwise means nothing new.                             *)
Reported(s) == IF ses[s].valor > 0 THEN ses[s].valor
               ELSE IF ses[s].total THEN Valor ELSE 0

SyncRefund(s) ==
  /\ At(s, {"webhook", "reconcile"}, "book")
  /\ Reported(s) > View(s).valor_estornado
  /\ Book(s, Reported(s), Esgotada(Reported(s)) \/ ses[s].total)
  /\ UNCHANGED mp

(* No refund, no new one, or less than was booked (logged): nothing.       *)
NothingToSync(s) ==
  /\ At(s, {"webhook", "reconcile"}, "book")
  /\ Reported(s) <= View(s).valor_estornado
  /\ Close(s)
  /\ UNCHANGED <<cobranca, livro, mp>>

-----------------------------------------------------------------------------
(* handle_mercadopago_chargeback, from the chargeback webhook and from     *)
(* reconcile_mercadopago_chargebacks.                                      *)

RecvChargeback(s) ==
  /\ ses[s].pc = "livre"
  /\ mp.disputa # None
  /\ ses' = [ses EXCEPT ![s] = [Livre EXCEPT
       !.via = "chargeback", !.pc = "read", !.disputa = mp.disputa]]
  /\ UNCHANGED <<cobranca, livro, mp>>

EmDisputaNunca(row) == FALSE        \* mutant: the pass lists nothing

EmDisputa(row) == row.disputa \in Abertas

StartReconcileChargeback(s) ==
  /\ ses[s].pc = "livre"
  /\ "disputas" \in recentes /\ EmDisputa(cobranca)
  /\ ses' = [ses EXCEPT ![s] = [Livre EXCEPT
       !.via = "reconcile_chargeback", !.pc = "fetch", !.row = cobranca]]
  /\ UNCHANGED <<cobranca, livro, mp>>

FetchChargeback(s) ==
  /\ At(s, {"reconcile_chargeback"}, "fetch")
  /\ ses' = [ses EXCEPT ![s].pc = "read", ![s].disputa = mp.disputa]
  /\ UNCHANGED <<cobranca, livro, mp>>

(* The row, unless it is loaded already, and the query for a DESPESA with  *)
(* the same description, which names the status.                           *)
JaLancadaNunca(d) == FALSE                          \* mutant: no query

JaLancada(d) == d \in Perdidas /\ livro.chargeback[d] > 0

ReadDispute(s) ==
  /\ At(s, {"chargeback", "reconcile_chargeback"}, "read")
  /\ ses' = [ses EXCEPT ![s].pc = "book", ![s].row = View(s),
                        ![s].existe = JaLancada(ses[s].disputa)]
  /\ UNCHANGED <<cobranca, livro, mp>>

(* The disputed amount is in the answer, or is what was not refunded.      *)
CommitDispute(s) ==
  LET d == ses[s].disputa IN
  /\ At(s, {"chargeback", "reconcile_chargeback"}, "book")
  /\ cobranca' = [cobranca EXCEPT
       !.disputa = IF View(s).disputa = d THEN @ ELSE d]
  /\ \E semValor \in BOOLEAN :
       livro' = IF /\ d \in Perdidas
                   /\ ~ses[s].existe
                   /\ semValor => View(s).valor_estornado < Valor
                THEN [livro EXCEPT !.chargeback[d] = @ + 1]
                ELSE livro
  /\ mp' = [mp EXCEPT !.avisado =
              @ \/ (ses[s].via = "chargeback" /\ d = mp.disputa)]
  /\ Close(s)

-----------------------------------------------------------------------------
(* handle_mercadopago_payment_confirmed, redelivered: the payment was      *)
(* approved when the webhook asked.  The row is read FOR UPDATE and        *)
(* committed under its lock, hence one step.                               *)

RecvConfirm(s) ==
  /\ ses[s].pc = "livre"
  /\ mp.refunded = 0
  /\ ses' = [ses EXCEPT ![s] = [Livre EXCEPT !.via = "confirm", !.pc = "book"]]
  /\ UNCHANGED <<cobranca, livro, mp>>

Confirm(s) ==
  /\ At(s, {"confirm"}, "book")
  /\ IF cobranca.status = "recebido"
     THEN UNCHANGED <<cobranca, livro>>
     ELSE /\ cobranca' = [cobranca EXCEPT !.status = "recebido"]
          /\ livro' = [livro EXCEPT !.receita = @ + 1]
  /\ Close(s)
  /\ UNCHANGED mp

-----------------------------------------------------------------------------
(* ensure_valid_mp_token commits when the token is about to expire, before *)
(* Mercado Pago is asked: the session loads its row anew.  So does a pass  *)
(* that booked something for a row before this one.                        *)
Renew(s) ==
  /\ At(s, {"api"}, "mp") \/ At(s, {"reconcile", "reconcile_chargeback"}, "fetch")
  /\ ses' = [ses EXCEPT ![s].row = cobranca]
  /\ UNCHANGED <<cobranca, livro, mp>>

-----------------------------------------------------------------------------
(* Mercado Pago and the owner's panel there.                               *)

EstornoPainel(valor) ==
  /\ mp.refunded + valor <= Valor
  /\ mp' = [mp EXCEPT !.refunded = @ + valor]
  /\ UNCHANGED <<cobranca, livro, ses>>

(* A dispute opens and is lost, once.                                      *)
Disputar(d) ==
  /\ \/ mp.disputa = None /\ d \in Abertas
     \/ mp.disputa \in Abertas /\ d \in Perdidas
  /\ mp' = [mp EXCEPT !.disputa = d, !.avisado = FALSE]
  /\ UNCHANGED <<cobranca, livro, ses>>

Mundo == \/ \E valor \in 1..Valor : EstornoPainel(valor)
         \/ \E d \in Abertas \cup Perdidas : Disputar(d)

(* Fifty newer charges are listed by a pass, which then no longer reaches  *)
(* this one, until some of them are deleted with their contracts.          *)
Envelhecer(p) ==
  /\ p \in recentes
  /\ recentes' = recentes \ {p}
  /\ UNCHANGED conta

Voltar(p) ==
  /\ p \notin recentes
  /\ recentes' = recentes \cup {p}
  /\ UNCHANGED conta

-----------------------------------------------------------------------------
Init ==
  /\ cobranca = [status |-> "recebido", valor_estornado |-> 0, disputa |-> None]
  /\ livro = [estorno |-> 0, chargeback |-> [d \in Perdidas |-> 0],
              receita |-> 1]
  /\ mp = [refunded |-> 0, chaves |-> {}, disputa |-> None, avisado |-> TRUE]
  /\ ses = [s \in Sessions |-> Livre]
  /\ recentes = Passes

Refund(s) ==
  \/ \E valor \in 1..Valor : StartRefund(s, valor)
  \/ MpRefund(s) \/ BookRefund(s)

Sync(s) ==
  \/ RecvRefund(s) \/ ReadCharge(s)
  \/ StartReconcile(s)
  \/ \E valor \in {0, mp.refunded} : FetchPayment(s, valor)
  \/ SyncRefund(s) \/ NothingToSync(s)

Chargeback(s) ==
  \/ RecvChargeback(s)
  \/ StartReconcileChargeback(s) \/ FetchChargeback(s)
  \/ ReadDispute(s) \/ CommitDispute(s)

Step(s) == Refund(s) \/ Sync(s) \/ Chargeback(s)
           \/ RecvConfirm(s) \/ Confirm(s) \/ Renew(s) \/ Abort(s)

Next ==
  \/ UNCHANGED recentes /\ (Mundo \/ \E s \in Sessions : Step(s))
  \/ \E p \in Passes : Envelhecer(p) \/ Voltar(p)

Spec == Init /\ [][Next]_vars

(* Fairness.  A session takes its next statement (WF).  The beat starts    *)
(* both reconciliation passes for ever, whatever else runs, and they visit *)
(* this charge as long as it is among the 50 newest (SF: not enabled while *)
(* it is not).  A chargeback notification is delivered until one delivery  *)
(* is answered 200 (SF).  Mercado Pago does not withhold the refunded      *)
(* total for ever (SF), and failures stop: only calls it refuses still end *)
(* a session.                                                              *)
Fairness ==
  /\ \A s \in Sessions :
       WF_conta(ses[s].pc # "livre" /\ Step(s) /\ ses'[s].pc # ses[s].pc)
  /\ SF_conta(\E s \in Sessions : StartReconcile(s))
  /\ SF_conta(\E s \in Sessions : FetchPayment(s, mp.refunded))
  /\ SF_conta(\E s \in Sessions : StartReconcileChargeback(s))
  /\ SF_conta(\E s \in Sessions : ~mp.avisado /\ RecvChargeback(s))

Falha(s) ==
  /\ Abort(s)
  /\ ~(NothingToSync(s) \/ CommitDispute(s) \/ Confirm(s))

Estavel == <>[][\A s \in Sessions : ses[s].pc # "mp" => ~Falha(s)]_conta

FairSpec == Spec /\ Fairness /\ Estavel

-----------------------------------------------------------------------------
TypeOK ==
  /\ cobranca \in Cobranca
  /\ livro \in Financeiro
  /\ mp \in Payment
  /\ ses \in [Sessions -> Session]
  /\ recentes \subseteq Passes

(* Every cent a charge says was refunded is in the books as an expense,    *)
(* even when sessions overwrite each other's totals: a write made from a   *)
(* stale total books more than it should, never less.                      *)
DespesaCobreEstorno == cobranca.valor_estornado <= livro.estorno

(* A refund at Mercado Pago, made by this system (its answer perhaps lost) *)
(* or in the panel, is in the charge in the end, if that ends up among the *)
(* fifty newest: the reconciliation pass repairs a lost webhook, a crash   *)
(* after the refund and a total that a slower session overwrote.           *)
EstornoRefletido ==
  <>[]("estornos" \in recentes) => <>[](cobranca.valor_estornado >= mp.refunded)

(* A dispute that is lost is marked lost and its amount booked, unless the *)
(* charge had been refunded whole, although deliveries overtake each other *)
(* and a late one may write `opened' over `lost': the pass then writes     *)
(* `lost' again, if the charge ends up among the fifty newest disputed.    *)
Chargebacks == {d \in Perdidas : livro.chargeback[d] > 0}

DisputaRefletida ==
  <>[]("disputas" \in recentes) =>
    <>[](mp.disputa \in Perdidas =>
           /\ cobranca.disputa \in Perdidas
           /\ Chargebacks # {} \/ cobranca.valor_estornado = Valor)

-----------------------------------------------------------------------------
(* What holds while the handlers run one at a time, with crashes between   *)
(* their steps, lost answers and refunds made in the panel.                *)

(* The expenses are exactly the refunds: no refund is booked by the API    *)
(* call and booked again by the webhook that reports it.                   *)
LivroExato == livro.estorno = cobranca.valor_estornado

(* A charge is cancelled exactly when its refunds reach the amount, one    *)
(* cent apart: "sem isso a cobrança ficaria presa" (billing_service:891).  *)
CanceladaEsgotada ==
  cobranca.status = "cancelado" <=>
    cobranca.valor_estornado > 0 /\ cobranca.valor_estornado >= Valor - 1

(* test_chargeback_lost_creates_financeiro_idempotent: one expense per     *)
(* lost dispute, however often its notification is delivered.              *)
ChargebackUnico == \A d \in Perdidas : livro.chargeback[d] <= 1

-----------------------------------------------------------------------------
(* What the source says of the code and the code does not do.              *)

(* mercadopago_client.py:248, two partial refunds of the same amount share *)
(* a key, "no fluxo do app [...] isso não ocorre": what the charge says    *)
(* was refunded was refunded.                                              *)
EstornoLastreado == cobranca.valor_estornado <= mp.refunded

(* test_handle_mercadopago_payment_confirmed_is_idempotent: a payment is   *)
(* confirmed once, whatever happened to the charge since.                  *)
UmaReceita == livro.receita <= 1
=============================================================================

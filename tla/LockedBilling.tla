----------------------------- MODULE LockedBilling -----------------------------
(***************************************************************************)
(* What the row locks of the payment core are worth: the handlers of       *)
(* LockingSpec, and with them the charges whose lock did not last.         *)
(*                                                                         *)
(* create_pix_charge_for_contract locks the open charge of the contract    *)
(* and writes it after Mercado Pago has answered.  A renewal of the access *)
(* token in between commits the session and frees the lock: a webhook may  *)
(* then credit the charge, and the request overwrites the received row.    *)
(* `soltas' remembers the charges this may happen to; for all the others,  *)
(* and for every order a customer pays, the lock keeps its promise.        *)
(***************************************************************************)
EXTENDS Billing

VARIABLE soltas     \* charges a create_pix request let go of before writing

lockedVars == <<vars, soltas>>

LockedInit == Init /\ soltas = {}

(* The lock of the row at hand, if there is one, is gone.                  *)
Solta(s) ==
  /\ RenovaCreatePix(s)
  /\ soltas' = soltas \cup ({ses[s].cob} \ {None})

Presa(s) == LockedStep(s) /\ UNCHANGED soltas

LockedNext ==
  \/ Mundo /\ UNCHANGED soltas
  \/ \E s \in Sessions : Presa(s) \/ Solta(s)

LockedSpec == LockedInit /\ [][LockedNext]_lockedVars

-----------------------------------------------------------------------------
(* Each charge is credited once: one RECEITA per cobranca.  Webhook        *)
(* redelivery, an order and a payment notification of the same PIX, and a  *)
(* subscription debit all end in _finalize_payment on the same row.  Only  *)
(* a charge whose lock was lost can be credited again.                     *)
UmaReceitaPorCobranca ==
  \A j, n \in DOMAIN receitas :
    receitas[j].cobranca = receitas[n].cobranca
      => j = n \/ receitas[j].cobranca \in soltas

(* The books and the charges agree: a received row has its receipt, lost   *)
(* lock or not, and a row with a receipt stays received while its lock was *)
(* kept.                                                                   *)
RecebidaTemReceita ==
  \A i \in Cobrancas : /\ Recebida(i) => TemReceita(i)
                       /\ TemReceita(i) => Recebida(i) \/ i \in soltas

(* A received charge is final: no handler that was already running when it *)
(* was received writes to it again (its status, its total, the order and   *)
(* payment ids refunds and chargebacks look it up by), but one that lost   *)
(* its lock before the charge was received.                                *)
RecebidaImutavel ==
  [][\A i \in Cobrancas \ soltas :
       Recebida(i) => cobranca'[i] = cobranca[i] /\ i \notin soltas']_lockedVars

(* What the customer pays is booked once, lost locks or not: a charge that *)
(* was re-opened over its receipt carries a new order, and no notification *)
(* of the old one, late or repeated, finds it any more.                    *)
PagamentoUnico ==
  \A j, n \in DOMAIN receitas :
    /\ receitas[j].externo = receitas[n].externo
    /\ mp[receitas[j].externo].tipo = "order"
    => j = n

(* The locking part keeps the promise of PaymentLedger: a charge leaves    *)
(* its protection only while it is open.                                   *)
Ledger == INSTANCE PaymentLedger WITH
            pagas <- {i \in Cobrancas : Recebida(i)} \ soltas,
            livro <- receitas

LedgerSpec == Ledger!Spec
=============================================================================

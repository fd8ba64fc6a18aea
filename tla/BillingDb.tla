------------------------------ MODULE BillingDb ------------------------------
(***************************************************************************)
(* The state the payment code of motopay shares, and the transactional     *)
(* primitives its handlers are written with.                               *)
(*                                                                         *)
(* Every webhook request, API request, portal request and Celery task owns *)
(* one SQLAlchemy session: one Postgres transaction at READ COMMITTED and  *)
(* one identity map.  Three rules of that pair decide what the handlers    *)
(* can do to each other, and they are what this module is about:           *)
(*   - a row already in the identity map is NOT reloaded by a later SELECT,*)
(*     not even by SELECT ... FOR UPDATE (no populate_existing anywhere);  *)
(*   - an UPDATE writes only the attributes that differ from the version   *)
(*     the session loaded, and waits for the row lock;                     *)
(*   - COMMIT expires the identity map and frees the row locks.            *)
(* Money is abstracted to what the guards compare: `valor' is the number   *)
(* of late days the amount of the charge was computed with.                *)
(* A handler that is about to call Mercado Pago asks for the access token. *)
(* If the token expires within five minutes, ensure_valid_mp_token renews  *)
(* it and COMMITS the handler's own session: whatever it had changed so    *)
(* far is in the database, its locks are free, its identity map expired.   *)
(* Each handler that has locks or copies to lose there has an action for   *)
(* it (Renova...); a renewal that fails ends the session (Abort).          *)
(***************************************************************************)
EXTENDS Integers, Sequences, FiniteSets

CONSTANTS
  Contratos,      \* the rental contracts, all of them `ativo'
  Assinantes,     \* those with a Mercado Pago subscription
  MaxCobrancas,   \* bound: rows the table cobrancas may hold
  Charges,        \* bound: the charges Mercado Pago may ever create
  Sessions,       \* concurrent database sessions
  None,
  Ciclo,          \* days in a billing cycle (add_cycle)
  MaxDia          \* bound: the last day of the calendar

ASSUME BillingConstants ==
  /\ MaxCobrancas \in Nat /\ MaxDia \in Nat
  /\ Ciclo \in Nat \ {0}
  /\ Assinantes \subseteq Contratos
  /\ None \notin Contratos \cup Charges \cup Sessions \cup Nat

Cobrancas == 1..MaxCobrancas

VARIABLES
  hoje,       \* today (app_today)
  contrato,   \* table contratos
  cobranca,   \* table cobrancas: the committed rows
  receitas,   \* table financeiro: its RECEITA rows, in commit order
  mp,         \* Mercado Pago: the orders and payments it holds
  lock,       \* row locks of cobrancas
  ses         \* the sessions: program counter, locals, identity map

vars == <<hoje, contrato, cobranca, receitas, mp, lock, ses>>
dbVars == <<contrato, cobranca, receitas>>

-----------------------------------------------------------------------------
(* Rows.                                                                   *)

OPEN_COBRANCA_STATUSES == {"pendente", "atrasado"}

(* An order has one payment; one token names both, in two columns.         *)
Cobranca == [contrato: Contratos \cup {None},
             status: OPEN_COBRANCA_STATUSES \cup {"recebido", "ausente"},
             vencimento: Nat, valor: Nat,
             order: Charges \cup {None}, payment: Charges \cup {None}]

NoRow == [contrato |-> None, status |-> "ausente", vencimento |-> 0,
          valor |-> 0, order |-> None, payment |-> None]

Contrato == [proximo_vencimento: Nat, inadimplente: BOOLEAN]

Financeiro == [cobranca: Cobrancas, externo: Charges]

(* "created" and "pending" are both waiting for payment at Mercado Pago;   *)
(* "pending" once the customer has the code.                               *)
Charge == [status: {"livre", "created", "pending", "approved", "cancelled",
                    "expired"},
           tipo: {"order", "assinatura"}, contrato: Contratos \cup {None}]

IsOpen(row) == row.status \in OPEN_COBRANCA_STATUSES

(* The open charges of a contract, as a WHERE clause.                      *)
OpenOf(k) == {i \in Cobrancas : cobranca[i].contrato = k /\ IsOpen(cobranca[i])}

(* calculate_late_amounts: the part of the total that changes with time.   *)
Atraso(vencimento, dia) == IF dia > vencimento THEN dia - vencimento ELSE 0

add_cycleDobrado(dia) == dia + 2 * Ciclo       \* mutant: advances twice

add_cycle(dia) == dia + Ciclo

-----------------------------------------------------------------------------
(* Sessions.                                                               *)

Vias == {"order", "payment", "subscription", "create_pix", "ensure_pix",
         "card", "delinquency", "reconcile", "expired"}

Session == [via: Vias \cup {"livre"},
            pc: {"livre", "lock", "lock_open", "finalize", "commit", "create",
                 "renovado", "expirado", "apply", "cancel", "scan", "fetch"},
            charge: Charges \cup {None},  \* the Mercado Pago resource at hand
            antigo: Charges \cup {None},  \* the order a new PIX supersedes
            cob: Cobrancas \cup {None},   \* the row at hand
            ct: Contratos \cup {None},    \* the contract, once loaded,
            ctrow: Contrato,              \* and its loaded version
            valor: Nat,                   \* late days of the computed amount
            cand: SUBSET Cobrancas,       \* rows a FOR UPDATE waits for
            pend: SUBSET Cobrancas,       \* rows a batch has still to visit
            mapa: [Cobrancas -> Cobranca]]  \* identity map; NoRow: not in it

NoCtRow == [proximo_vencimento |-> 0, inadimplente |-> FALSE]

Livre == [via |-> "livre", pc |-> "livre", charge |-> None, antigo |-> None,
          cob |-> None, ct |-> None, ctrow |-> NoCtRow, valor |-> 0,
          cand |-> {}, pend |-> {}, mapa |-> [i \in Cobrancas |-> NoRow]]

At(s, via, pc) == ses[s].via = via /\ ses[s].pc = pc

(* What the session sees when it touches row i: its own copy if it has one *)
View(s, i) == IF ses[s].mapa[i] = NoRow THEN cobranca[i] ELSE ses[s].mapa[i]

Holding(s, rows) ==
  [i \in Cobrancas |-> IF i \in rows THEN View(s, i) ELSE ses[s].mapa[i]]

(* SELECT ... FOR UPDATE returns once nobody else holds a candidate row.   *)
LockableSempre(s, rows) == TRUE                 \* mutant: plain SELECT

Lockable(s, rows) == \A i \in rows : lock[i] \in {None, s}
LockingNada(s, rows) == lock                    \* mutant: takes no lock

Locking(s, rows) == [i \in Cobrancas |-> IF i \in rows THEN s ELSE lock[i]]

Unlocking(s) == [i \in Cobrancas |-> IF lock[i] = s THEN None ELSE lock[i]]

Last(rows, i) == i \in rows /\ \A j \in rows : j <= i   \* ORDER BY id DESC

(* The row a flush leaves: an attribute is written only when dirty.        *)
Dirty(stored, loaded, new) == IF new = loaded THEN stored ELSE new

Flush(stored, loaded, new) ==
  [stored EXCEPT !.status  = Dirty(@, loaded.status, new.status),
                 !.valor   = Dirty(@, loaded.valor, new.valor),
                 !.order   = Dirty(@, loaded.order, new.order),
                 !.payment = Dirty(@, loaded.payment, new.payment)]

FlushContrato(stored, loaded, new) ==
  [stored EXCEPT
     !.proximo_vencimento =
         Dirty(@, loaded.proximo_vencimento, new.proximo_vencimento),
     !.inadimplente = Dirty(@, loaded.inadimplente, new.inadimplente)]

(* INSERT takes the next value of the id sequence.                         *)
NextId(i) == /\ cobranca[i].status = "ausente"
             /\ \A j \in 1..(i - 1) : cobranca[j].status # "ausente"

(* The session is closed: rollback, locks freed, identity map dropped.     *)
Close(s) ==
  /\ ses' = [ses EXCEPT ![s] = Livre]
  /\ lock' = Unlocking(s)

(* Any exception before the commit: a deadlock victim, a lost connection,  *)
(* an API error, a crashed worker.  What Mercado Pago did stays done.      *)
Abort(s) ==
  /\ ses[s].pc # "livre"
  /\ Close(s)
  /\ UNCHANGED <<hoje, contrato, cobranca, receitas, mp>>

-----------------------------------------------------------------------------
(* _finalize_payment, in the two steps between which other sessions run:   *)
(* the guard on the loaded row with the read of the contract, and the      *)
(* commit of the charge, the receipt and the contract together.            *)

JaRecebidaNunca(row) == FALSE                   \* mutant: guard dropped

JaRecebidaSeNaoPendente(row) == row.status # "pendente"   \* mutant: late too

JaRecebida(row) == row.status = "recebido"

LoadContrato(s) ==
  LET k == ses[s].mapa[ses[s].cob].contrato IN
  /\ ses[s].pc = "finalize"
  /\ ~JaRecebida(ses[s].mapa[ses[s].cob])
  /\ ses' = [ses EXCEPT
       ![s].pc = "commit", ![s].ct = k, ![s].ctrow = contrato[k]]
  /\ UNCHANGED <<hoje, contrato, cobranca, receitas, mp, lock>>

(* The session after a commit: a request is over, a batch goes on with an  *)
(* expired identity map and no locks.                                      *)
AfterCommit(s) ==
  IF ses[s].via = "reconcile"
  THEN [Livre EXCEPT !.via = "reconcile", !.pc = "scan", !.pend = ses[s].pend]
  ELSE Livre

Credit(s, i, externo) ==
  LET loaded == ses[s].ctrow IN
  /\ receitas' = Append(receitas, [cobranca |-> i, externo |-> externo])
  /\ contrato' = [contrato EXCEPT ![ses[s].ct] =
       FlushContrato(@, loaded,
         [proximo_vencimento |-> add_cycle(loaded.proximo_vencimento),
          inadimplente |-> FALSE])]
  /\ lock' = Unlocking(s)
  /\ ses' = [ses EXCEPT ![s] = AfterCommit(s)]

Init ==
  /\ hoje = 0
  /\ contrato = [k \in Contratos |->
                   [proximo_vencimento |-> Ciclo, inadimplente |-> FALSE]]
  /\ cobranca = [i \in Cobrancas |-> NoRow]
  /\ receitas = <<>>
  /\ mp = [c \in Charges |->
             [status |-> "livre", tipo |-> "order", contrato |-> None]]
  /\ lock = [i \in Cobrancas |-> None]
  /\ ses = [s \in Sessions |-> Livre]

-----------------------------------------------------------------------------
(* The world outside: customers, Mercado Pago, the calendar.               *)

NovoDia ==
  /\ hoje < MaxDia
  /\ hoje' = hoje + 1
  /\ UNCHANGED <<contrato, cobranca, receitas, mp, lock, ses>>

(* The customer reads the code stored in an open charge (portal, Telegram). *)
VerPix(i) ==
  LET c == cobranca[i].order IN
  /\ IsOpen(cobranca[i]) /\ c # None
  /\ mp[c].status = "created"
  /\ mp' = [mp EXCEPT ![c].status = "pending"]
  /\ UNCHANGED <<hoje, contrato, cobranca, receitas, lock, ses>>

(* and pays it, even when another code has replaced it since.              *)
PagarPix(c) ==
  /\ mp[c].status = "pending"
  /\ mp' = [mp EXCEPT ![c].status = "approved"]
  /\ UNCHANGED <<hoje, contrato, cobranca, receitas, lock, ses>>

Unpaid(c) == mp[c].status \in {"created", "pending"}

ExpirarPix(c) ==
  /\ Unpaid(c)
  /\ mp' = [mp EXCEPT ![c].status = "expired"]
  /\ UNCHANGED <<hoje, contrato, cobranca, receitas, lock, ses>>

(* Mercado Pago debits a subscription on its own schedule.                 *)
DebitarAssinatura(c, k) ==
  /\ mp[c].status = "livre"
  /\ mp' = [mp EXCEPT ![c] = [status |-> "approved", tipo |-> "assinatura",
                              contrato |-> k]]
  /\ UNCHANGED <<hoje, contrato, cobranca, receitas, lock, ses>>

(* create_online_order: a new PIX order, outside any transaction.          *)
NewOrder(c, k) ==
  /\ mp[c].status = "livre"
  /\ mp' = [mp EXCEPT ![c] = [status |-> "created", tipo |-> "order",
                              contrato |-> k]]

(* cancel_order succeeds on an unpaid order; an answer saying the order is *)
(* already terminal is ignored.                                            *)
CancelOrder(c) ==
  mp' = [mp EXCEPT ![c].status = IF Unpaid(c) THEN "cancelled" ELSE @]

Mundo ==
  \/ NovoDia
  \/ \E i \in Cobrancas : VerPix(i)
  \/ \E c \in Charges : PagarPix(c) \/ ExpirarPix(c)
  \/ \E c \in Charges, k \in Assinantes : DebitarAssinatura(c, k)

-----------------------------------------------------------------------------
TypeOK ==
  /\ hoje \in Nat
  /\ contrato \in [Contratos -> Contrato]
  /\ cobranca \in [Cobrancas -> Cobranca]
  /\ receitas \in Seq(Financeiro)
  /\ mp \in [Charges -> Charge]
  /\ lock \in [Cobrancas -> Sessions \cup {None}]
  /\ ses \in [Sessions -> Session]
=============================================================================

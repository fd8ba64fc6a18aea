----------------------------- MODULE BillingProofs -----------------------------
(***************************************************************************)
(* Machine-checked proofs about Billing, for any number of contracts,      *)
(* charges, Mercado Pago resources and sessions: first its locking part,   *)
(* then the whole of it, then what both together say of the codes.         *)
(*                                                                         *)
(* In the locking part, what the handlers do to each other is decided by   *)
(* one fact: a row in a session's identity map is a row that session has   *)
(* locked, so it is still what the table holds (SesOK, second conjunct),   *)
(* or it is the row of a PIX request that lost its lock, one of `soltas'.  *)
(* IInv is the safety invariants together with this fact and with what     *)
(* each program counter implies; every step preserves it and has one of    *)
(* four effects on the books (Effect), from which the theorems follow.     *)
(***************************************************************************)
EXTENDS LockedBilling, TLAPS, FiniteSetTheorems

LockingVias == {"livre", "order", "payment", "subscription", "create_pix"}

(* A session n of process s against the locks L, the rows C, Mercado Pago  *)
(* M and the charges F that have been let go of.                           *)
SesOK(n, s, L, C, M, F) ==
  /\ n.via \in LockingVias
  /\ \A i \in Cobrancas : n.mapa[i] # NoRow =>
       \/ L[i] = s /\ C[i] = n.mapa[i]
       \/ n.pc = "apply" /\ i = n.cob /\ i \in F /\ C[i].status # "ausente"
  /\ n.pc \notin {"scan", "fetch", "expirado"}
  /\ n.pc \in {"lock", "finalize", "commit", "apply"} => n.charge \in Charges
  /\ n.pc \in {"lock", "lock_open"} /\ n.via = "subscription" =>
       n.charge \in Charges /\ M[n.charge].tipo = "assinatura"
  /\ n.pc \in {"lock_open", "commit", "create", "renovado", "apply"} =>
       n.ct \in Contratos
  /\ n.pc \in {"finalize", "commit"} =>
       n.cob \in Cobrancas /\ n.mapa[n.cob] # NoRow
  /\ n.pc = "commit" => n.mapa[n.cob].status # "recebido"
  /\ n.pc \in {"lock", "lock_open"} => n.cob = None
  /\ n.pc \in {"create", "apply"} /\ n.cob # None => n.mapa[n.cob] # NoRow
  /\ n.pc = "create" /\ n.cob # None => IsOpen(n.mapa[n.cob])
  /\ n.pc = "apply" /\ n.cob # None /\ n.cob \notin F => IsOpen(n.mapa[n.cob])
  /\ n.pc = "renovado" => \A i \in Cobrancas : n.mapa[i] = NoRow
  /\ n.pc = "renovado" /\ n.cob # None =>
       n.cob \in F /\ C[n.cob].status # "ausente"
  /\ n.pc = "cancel" => n.antigo \in Charges

SesInv == \A s \in Sessions : SesOK(ses[s], s, lock, cobranca, mp, soltas)

(* A row of the table has a contract; what is not a row is NoRow.          *)
RowOK(row) == IF row.status = "ausente" THEN row = NoRow
              ELSE row.contrato \in Contratos

RowInv == \A i \in Cobrancas : RowOK(cobranca[i])

(* The resource of a subscription is an approved debit of a contract, and  *)
(* stays what it is.                                                       *)
Debito(resource) ==
  resource.tipo = "assinatura" =>
    resource.status = "approved" /\ resource.contrato \in Contratos

MpInv == \A c \in Charges : Debito(mp[c])

IInv == /\ TypeOK /\ soltas \in SUBSET Cobrancas
        /\ RowInv /\ MpInv /\ SesInv
        /\ RecebidaTemReceita /\ UmaReceitaPorCobranca

(* The things a step can do to the charges and the books: nothing, a new   *)
(* code for an open charge, the overwriting of a charge let go of, or a    *)
(* receipt.                                                                *)
Quiet == UNCHANGED <<cobranca, receitas>>

Reissue ==
  \E i \in Cobrancas, r \in Cobranca :
    /\ ~Recebida(i) /\ IsOpen(r)
    /\ cobranca' = [cobranca EXCEPT ![i] = r]
    /\ UNCHANGED receitas

Overwrite ==
  \E i \in soltas, r \in Cobranca :
    /\ r.status = "recebido" => Recebida(i)
    /\ cobranca' = [cobranca EXCEPT ![i] = r]
    /\ UNCHANGED receitas

Book ==
  \E i \in Cobrancas, r \in Cobranca, c \in Charges :
    /\ ~Recebida(i) /\ r.status = "recebido"
    /\ cobranca' = [cobranca EXCEPT ![i] = r]
    /\ receitas' = Append(receitas, [cobranca |-> i, externo |-> c])

Effect == Quiet \/ Reissue \/ Overwrite \/ Book

USE BillingConstants DEF Cobrancas

-----------------------------------------------------------------------------
(* The idle session and the missing row are well formed.                   *)
LEMMA LivreOK ==
  /\ Livre \in Session
  /\ \A s \in Sessions : \A L, C, M, F : SesOK(Livre, s, L, C, M, F)
  /\ NoRow \in Cobranca
  BY DEF Livre, Session, NoCtRow, Contrato, NoRow, Cobranca,
         OPEN_COBRANCA_STATUSES, Vias, SesOK, LockingVias

(* The empty database satisfies the invariant.                             *)
LEMMA InitInv == LockedInit => IInv
<1> SUFFICES ASSUME LockedInit PROVE IInv
  OBVIOUS
<1>1. TypeOK /\ soltas \in SUBSET Cobrancas
  BY LivreOK DEF LockedInit, Init, TypeOK, Contrato, Charge, Financeiro
<1>2. RowInv /\ MpInv
  BY DEF LockedInit, Init, RowInv, RowOK, NoRow, MpInv, Debito
<1>3. SesInv
  BY LivreOK DEF LockedInit, Init, SesInv
<1>4. RecebidaTemReceita /\ UmaReceitaPorCobranca
  BY DEF LockedInit, Init, RecebidaTemReceita, UmaReceitaPorCobranca, Recebida, TemReceita,
         NoRow
<1> QED
  BY <1>1, <1>2, <1>3, <1>4 DEF IInv

(* What a step may do at Mercado Pago: a debit is never touched.           *)
MpStep ==
  /\ mp' \in [Charges -> Charge]
  /\ \A c \in Charges : Debito(mp'[c])
  /\ \A c \in Charges : mp[c].tipo = "assinatura" => mp'[c] = mp[c]

(* A step of session s that changes no row and no receipt, and takes or    *)
(* frees only locks nobody else holds, preserves the invariant if the      *)
(* session it leaves is well formed.                                       *)
LEMMA Keep ==
  ASSUME IInv, NEW s \in Sessions, NEW n \in Session,
         ses' = [ses EXCEPT ![s] = n],
         cobranca' = cobranca, receitas' = receitas, contrato' = contrato,
         hoje' \in Nat, MpStep,
         lock' \in [Cobrancas -> Sessions \cup {None}],
         \A i \in Cobrancas : lock'[i] # lock[i] => lock[i] \in {None, s},
         soltas' \in SUBSET Cobrancas, soltas \subseteq soltas',
         SesOK(n, s, lock', cobranca, mp', soltas')
  PROVE  IInv' /\ Effect
<1>1. TypeOK'
  BY DEF IInv, TypeOK, MpStep
<1>2. RowInv' /\ MpInv'
  BY DEF IInv, RowInv, MpInv, MpStep, Debito
<1>3. ASSUME NEW t \in Sessions PROVE SesOK(ses[t], t, lock, cobranca, mp, soltas)'
  <2>1. CASE t = s
    <3>1. ses'[t] = n
      BY <2>1 DEF IInv, TypeOK
    <3> QED
      BY <2>1, <3>1
  <2>2. CASE t # s
    <3>1. ses'[t] = ses[t]
      BY <2>2 DEF IInv, TypeOK
    <3>2. SesOK(ses[t], t, lock, cobranca, mp, soltas)
      BY DEF IInv, SesInv
    <3>3. \A i \in Cobrancas : lock[i] = t => lock'[i] = t
      BY <2>2
    <3>4. SesOK(ses[t], t, lock', cobranca, mp', soltas')
      BY <3>2, <3>3 DEF SesOK, MpStep
    <3> QED
      BY <3>1, <3>4
  <2> QED
    BY <2>1, <2>2
<1>4. (RecebidaTemReceita /\ UmaReceitaPorCobranca)'
  BY DEF IInv, RecebidaTemReceita, UmaReceitaPorCobranca, Recebida, TemReceita
<1> QED
  BY <1>1, <1>2, <1>3, <1>4 DEF IInv, SesInv, Effect, Quiet

(* A session that writes row i, which it has locked or which does not      *)
(* exist yet, and commits: the other sessions do not notice.               *)
LEMMA Write ==
  ASSUME IInv, NEW s \in Sessions, NEW n \in Session,
         NEW i \in Cobrancas, NEW r \in Cobranca,
         lock[i] \in {None, s} \/ cobranca[i].status = "ausente",
         cobranca' = [cobranca EXCEPT ![i] = r], soltas' = soltas,
         r.status # "ausente", r.contrato \in Contratos,
         ses' = [ses EXCEPT ![s] = n],
         lock' = Unlocking(s), mp' = mp,
         \A j \in Cobrancas : n.mapa[j] = NoRow,
         SesOK(n, s, lock', cobranca', mp', soltas')
  PROVE  /\ cobranca' \in [Cobrancas -> Cobranca]
         /\ lock' \in [Cobrancas -> Sessions \cup {None}]
         /\ ses' \in [Sessions -> Session]
         /\ RowInv' /\ SesInv' /\ MpInv' /\ soltas' \in SUBSET Cobrancas
<1>1. /\ cobranca' \in [Cobrancas -> Cobranca]
      /\ lock' \in [Cobrancas -> Sessions \cup {None}]
      /\ ses' \in [Sessions -> Session]
  BY DEF IInv, TypeOK, Unlocking
<1>2. RowInv' /\ MpInv'
  BY DEF IInv, TypeOK, RowInv, RowOK, MpInv
<1>3. ASSUME NEW t \in Sessions PROVE SesOK(ses[t], t, lock, cobranca, mp, soltas)'
  <2>1. CASE t = s
    <3>1. ses'[t] = n
      BY <2>1 DEF IInv, TypeOK
    <3> QED
      BY <2>1, <3>1
  <2>2. CASE t # s
    <3>1. ses'[t] = ses[t]
      BY <2>2 DEF IInv, TypeOK
    <3>2. SesOK(ses[t], t, lock, cobranca, mp, soltas)
      BY DEF IInv, SesInv
    <3>3. \A j \in Cobrancas : cobranca[j].status # "ausente" =>
            cobranca'[j].status # "ausente"
      BY DEF IInv, TypeOK
    <3>4. \A j \in Cobrancas :
            lock[j] = t /\ cobranca[j] = ses[t].mapa[j] /\ ses[t].mapa[j] # NoRow =>
              lock'[j] = t /\ cobranca'[j] = ses[t].mapa[j]
      BY <2>2 DEF Unlocking, IInv, TypeOK, RowInv, RowOK
    <3>5. ses[t].cob # None => ses[t].cob \in Cobrancas
      BY DEF IInv, TypeOK, Session
    <3>6. SesOK(ses[t], t, lock', cobranca', mp', soltas')
      BY <3>2, <3>3, <3>4, <3>5 DEF SesOK
    <3> QED
      BY <3>1, <3>6
  <2> QED
    BY <2>1, <2>2
<1> QED
  BY <1>1, <1>2, <1>3 DEF SesInv, IInv

-----------------------------------------------------------------------------
(* The world outside touches no row, no lock and no session.               *)
LEMMA MundoStep == IInv /\ Mundo /\ UNCHANGED soltas => IInv' /\ Effect
<1> SUFFICES ASSUME IInv, Mundo, UNCHANGED soltas PROVE IInv' /\ Effect
  OBVIOUS
<1> DEFINE Same == /\ UNCHANGED <<contrato, cobranca, receitas, lock, ses>>
                   /\ hoje' \in Nat /\ MpStep
<1>1. Same
  <2>0. /\ hoje \in Nat /\ mp \in [Charges -> Charge] /\ MpInv
        /\ cobranca \in [Cobrancas -> Cobranca]
    BY DEF IInv, TypeOK
  <2>1. ASSUME NovoDia PROVE Same
    BY <2>0, <2>1 DEF NovoDia, MpStep, MpInv
  <2>2. ASSUME NEW i \in Cobrancas, VerPix(i) PROVE Same
    BY <2>0, <2>2 DEF VerPix, Charge, Cobranca, MpStep, MpInv, Debito
  <2>3. ASSUME NEW c \in Charges, PagarPix(c) \/ ExpirarPix(c) PROVE Same
    BY <2>0, <2>3 DEF PagarPix, ExpirarPix, Unpaid, Charge, MpStep, MpInv, Debito
  <2>4. ASSUME NEW c \in Charges, NEW k \in Assinantes, DebitarAssinatura(c, k)
        PROVE  Same
    BY <2>0, <2>4 DEF DebitarAssinatura, Charge, MpStep, MpInv, Debito
  <2> QED
    BY <2>1, <2>2, <2>3, <2>4 DEF Mundo
<1>2. TypeOK' /\ RowInv' /\ MpInv'
  BY <1>1 DEF IInv, TypeOK, RowInv, MpInv, MpStep
<1>3. SesInv'
  BY <1>1 DEF IInv, SesInv, SesOK, MpStep
<1> QED
  BY <1>1, <1>2, <1>3 DEF IInv, RecebidaTemReceita,
              UmaReceitaPorCobranca, Recebida, TemReceita, Effect, Quiet

(* What the invariant says of one session, and a Mercado Pago nobody calls. *)
LEMMA Facts ==
  ASSUME IInv, NEW s \in Sessions
  PROVE  /\ ses[s] \in Session /\ SesOK(ses[s], s, lock, cobranca, mp, soltas)
         /\ hoje \in Nat
         /\ contrato \in [Contratos -> Contrato]
         /\ cobranca \in [Cobrancas -> Cobranca]
         /\ mp \in [Charges -> Charge]
         /\ lock \in [Cobrancas -> Sessions \cup {None}]
         /\ mp' = mp => MpStep
         /\ soltas \in SUBSET Cobrancas
  BY DEF IInv, TypeOK, SesInv, MpInv, MpStep

(* A notification arrives: a fresh session with an empty identity map.     *)
LEMMA ReceiveStep ==
  ASSUME IInv, UNCHANGED soltas, NEW s \in Sessions, NEW c \in Charges,
         RecvOrder(s, c) \/ RecvPayment(s, c) \/ RecvSubscription(s, c)
  PROVE  IInv' /\ Effect
<1>1. ASSUME NEW via \in {"order", "payment", "subscription"},
             Receive(s, via, c),
             via = "subscription" => mp[c].tipo = "assinatura"
      PROVE  IInv' /\ Effect
  <2> DEFINE n == [Livre EXCEPT !.via = via, !.pc = "lock", !.charge = c,
                                !.cand = Lookup(via, c)]
  <2>1. n \in Session
    BY LivreOK, ZenonT(40) DEF Session, Vias, Lookup, WithOrder, WithPayment, Livre
  <2>2. SesOK(n, s, lock, cobranca, mp, soltas)
    BY <1>1 DEF SesOK, LockingVias, Livre
  <2> QED
    BY <1>1, <2>1, <2>2, Keep, Facts DEF Receive
<1> QED
  BY <1>1 DEF RecvOrder, RecvPayment, RecvSubscription

(* A request for a PIX starts: a fresh session, the contract read.         *)
LEMMA StartCreatePixStep ==
  ASSUME IInv, UNCHANGED soltas, NEW s \in Sessions, NEW k \in Contratos, StartCreatePix(s, k)
  PROVE  IInv' /\ Effect
<1> DEFINE v == Atraso(contrato[k].proximo_vencimento, hoje)
           n == [Livre EXCEPT !.via = "create_pix", !.pc = "lock_open",
                     !.ct = k, !.ctrow = contrato[k], !.valor = v,
                     !.cand = OpenOf(k)]
<1>1. n \in Session
  <2>1. contrato[k] \in Contrato /\ v \in Nat
    BY Facts DEF Atraso, Contrato
  <2> HIDE DEF v
  <2> QED
    BY <2>1, LivreOK DEF Session, Vias, OpenOf
<1>2. SesOK(n, s, lock, cobranca, mp, soltas)
  BY DEF SesOK, LockingVias, Livre
<1> QED
  BY <1>1, <1>2, Keep, Facts DEF StartCreatePix

(* A session that ends without a write: rolled back, or nothing to do.     *)
LEMMA CloseStep ==
  ASSUME IInv, UNCHANGED soltas, NEW s \in Sessions, Close(s),
         UNCHANGED <<hoje, contrato, cobranca, receitas>>, MpStep
  PROVE  IInv' /\ Effect
<1>1. \A i \in Cobrancas : lock'[i] # lock[i] => lock[i] = s
  BY DEF Close, Unlocking
<1>2. lock' \in [Cobrancas -> Sessions \cup {None}]
  BY Facts DEF Close, Unlocking
<1> QED
  BY <1>1, <1>2, LivreOK, Keep, Facts DEF Close

(* What SELECT ... FOR UPDATE of some rows leaves.                         *)
LockedOK(s, rows) ==
  /\ Holding(s, rows) \in [Cobrancas -> Cobranca]
  /\ \A i \in Cobrancas : Holding(s, rows)[i] # NoRow =>
       Locking(s, rows)[i] = s /\ cobranca[i] = Holding(s, rows)[i]
  /\ \A i \in rows : Holding(s, rows)[i] = cobranca[i]
  /\ Locking(s, rows) \in [Cobrancas -> Sessions \cup {None}]
  /\ \A i \in Cobrancas :
       Locking(s, rows)[i] # lock[i] => lock[i] \in {None, s}

(* SELECT ... FOR UPDATE: the rows enter the identity map as they are      *)
(* stored, since a row the session already holds is one it has locked.     *)
LEMMA HoldingOK ==
  ASSUME IInv, NEW s \in Sessions, NEW rows \in SUBSET Cobrancas,
         Lockable(s, rows), ses[s].pc # "apply"
  PROVE  LockedOK(s, rows)
<1>1. \A i \in Cobrancas :
        ses[s].mapa[i] # NoRow => lock[i] = s /\ cobranca[i] = ses[s].mapa[i]
  BY Facts DEF SesOK
<1>2. ses[s].mapa \in [Cobrancas -> Cobranca]
  BY Facts DEF Session
<1>3. \A i \in Cobrancas : View(s, i) = cobranca[i]
  BY <1>1 DEF View
<1> QED
  BY <1>1, <1>2, <1>3, Facts DEF Holding, Locking, Lockable, LockedOK

(* The confirmation's SELECT finds its row: a stored row that carries the  *)
(* id of the resource.                                                     *)
LEMMA LockCobrancaStep ==
  ASSUME IInv, UNCHANGED soltas, NEW s \in Sessions, LockCobranca(s)
  PROVE  IInv' /\ Effect
<1> DEFINE found == Matching(s)
<1>1. PICK i \in found :
        ses' = [ses EXCEPT ![s].pc = "finalize", ![s].cob = i,
                           ![s].cand = {}, ![s].mapa = Holding(s, found)]
  BY DEF LockCobranca
<1> DEFINE n == [ses[s] EXCEPT !.pc = "finalize", !.cob = i, !.cand = {},
                               !.mapa = Holding(s, found)]
<1>2. /\ found \in SUBSET Cobrancas /\ Lockable(s, found) /\ ses[s].pc # "apply"
      /\ ses[s].charge \in Charges
      /\ cobranca[i].order = ses[s].charge \/ cobranca[i].payment = ses[s].charge
  BY Facts DEF LockCobranca, Matching, Lockable, Lookup, WithOrder, WithPayment,
               Session, SesOK
<1>3. cobranca[i] # NoRow
  BY <1>2 DEF NoRow
<1>4. /\ lock' = Locking(s, found)
      /\ UNCHANGED <<hoje, contrato, cobranca, receitas, mp>>
      /\ ses' = [ses EXCEPT ![s] = n]
  BY <1>1, Facts DEF LockCobranca, IInv, TypeOK
<1> HIDE DEF found
<1>5. LockedOK(s, found)
  BY <1>2, HoldingOK
<1>6. n \in Session
  <2>1. i \in Cobrancas /\ ses[s] \in Session
    BY <1>2, Facts
  <2>2. Holding(s, found) \in [Cobrancas -> Cobranca]
    BY <1>5 DEF LockedOK
  <2> QED
    BY <2>1, <2>2 DEF Session
<1>7. SesOK(n, s, Locking(s, found), cobranca, mp, soltas)
  BY <1>2, <1>3, <1>5, <1>6, Facts DEF SesOK, LockedOK
<1> QED
  BY <1>4, <1>5, <1>6, <1>7, Keep, Facts DEF LockedOK

(* Nothing matched, a charge already received, a code that is reused, an   *)
(* error, or the superseded order cancelled: the session just ends.        *)
LEMMA EndStep ==
  ASSUME IInv, UNCHANGED soltas, NEW s \in Sessions,
         \/ NotFound(s) \/ AlreadyReceived(s) \/ ReusePix(s) \/ Abort(s)
         \/ CancelSuperseded(s)
  PROVE  IInv' /\ Effect
<1>1. ses[s].via # "reconcile"
  BY Facts DEF SesOK, LockingVias
<1>2. CASE CancelSuperseded(s)
  <2>1. ses[s].antigo \in Charges /\ MpInv
    BY <1>2, Facts DEF CancelSuperseded, SesOK, IInv
  <2>2. MpStep
    <3> DEFINE a == ses[s].antigo
    <3>1. CancelOrder(a) /\ a \in Charges /\ mp \in [Charges -> Charge]
      BY <1>2, <2>1, Facts DEF CancelSuperseded
    <3> HIDE DEF a
    <3>2. mp' \in [Charges -> Charge] /\ \A c \in Charges : c # a => mp'[c] = mp[c]
      BY <3>1 DEF CancelOrder, Charge
    <3>3. mp[a].tipo = "assinatura" => mp'[a] = mp[a]
      BY <2>1, <3>1 DEF CancelOrder, Unpaid, MpInv, Debito, Charge
    <3>4. mp'[a].tipo = mp[a].tipo
      BY <3>1 DEF CancelOrder, Charge
    <3> QED
      BY <2>1, <3>1, <3>2, <3>3, <3>4 DEF MpStep, MpInv, Debito
  <2> QED
    BY <1>2, <2>2, CloseStep DEF CancelSuperseded
<1> QED
  BY <1>1, <1>2, CloseStep, Facts
     DEF NotFound, AlreadyReceived, ReusePix, Abort

(* The contract is read for a subscription payment no row carries yet.     *)
LEMMA SubscriptionContractStep ==
  ASSUME IInv, UNCHANGED soltas, NEW s \in Sessions, SubscriptionContract(s)
  PROVE  IInv' /\ Effect
<1> DEFINE k == mp[ses[s].charge].contrato
           v == Atraso(contrato[k].proximo_vencimento, hoje)
           n == [ses[s] EXCEPT !.pc = "lock_open", !.ct = k,
                   !.ctrow = contrato[k], !.valor = v, !.cand = OpenOf(k)]
<1>1. k \in Contratos /\ ses[s] \in Session
  BY Facts DEF SubscriptionContract, At, SesOK, IInv, MpInv, Debito
<1>2. ses' = [ses EXCEPT ![s] = n]
  BY DEF SubscriptionContract, IInv, TypeOK
<1> HIDE DEF k
<1>3. contrato[k] \in Contrato /\ v \in Nat /\ OpenOf(k) \in SUBSET Cobrancas
  BY <1>1, Facts DEF Atraso, Contrato, OpenOf
<1> HIDE DEF v
<1>4. n \in Session
  BY <1>1, <1>3 DEF Session
<1>5. SesOK(n, s, lock, cobranca, mp, soltas)
  <2>1. /\ n.via = "subscription" /\ n.pc = "lock_open" /\ n.ct = k
        /\ n.charge = ses[s].charge /\ n.cob = ses[s].cob /\ n.mapa = ses[s].mapa
    BY <1>1 DEF Session, SubscriptionContract, At
  <2>2. SesOK(ses[s], s, lock, cobranca, mp, soltas) /\ At(s, "subscription", "lock")
    BY Facts DEF SubscriptionContract
  <2> HIDE DEF n
  <2> QED
    BY <1>1, <2>1, <2>2 DEF SesOK, At
<1> QED
  BY <1>2, <1>4, <1>5, Keep, Facts DEF SubscriptionContract

(* The open charge found is locked; the payment will be put on it.         *)
LEMMA SubscriptionOpenStep ==
  ASSUME IInv, UNCHANGED soltas, NEW s \in Sessions, SubscriptionOpen(s)
  PROVE  IInv' /\ Effect
<1> DEFINE found == StillOpen(s)
<1>1. PICK i \in found :
        ses' = [ses EXCEPT ![s].pc = "commit", ![s].cob = i,
                           ![s].cand = {}, ![s].mapa = Holding(s, found)]
  BY DEF SubscriptionOpen
<1> DEFINE n == [ses[s] EXCEPT !.pc = "commit", !.cob = i, !.cand = {},
                               !.mapa = Holding(s, found)]
<1>2. /\ found \in SUBSET Cobrancas /\ Lockable(s, found) /\ ses[s].pc # "apply"
      /\ i \in Cobrancas /\ ses[s] \in Session
      /\ ses[s].charge \in Charges /\ ses[s].ct \in Contratos
      /\ IsOpen(cobranca[i])
  BY Facts DEF SubscriptionOpen, StillOpen, OpenOf, Lockable, Session, SesOK, At
<1>3. cobranca[i] # NoRow /\ cobranca[i].status # "recebido"
  BY <1>2 DEF NoRow, IsOpen, OPEN_COBRANCA_STATUSES
<1>4. /\ lock' = Locking(s, found)
      /\ UNCHANGED <<hoje, contrato, cobranca, receitas, mp>>
      /\ ses' = [ses EXCEPT ![s] = n]
  BY <1>1 DEF SubscriptionOpen, IInv, TypeOK
<1> HIDE DEF found
<1>5. LockedOK(s, found)
  BY <1>2, HoldingOK
<1>6. n \in Session
  <2>1. Holding(s, found) \in [Cobrancas -> Cobranca]
    BY <1>5 DEF LockedOK
  <2> QED
    BY <1>2, <2>1 DEF Session
<1>7. SesOK(n, s, Locking(s, found), cobranca, mp, soltas)
  BY <1>2, <1>3, <1>5, <1>6, Facts DEF SesOK, LockedOK
<1> QED
  BY <1>4, <1>5, <1>6, <1>7, Keep, Facts DEF LockedOK

(* _finalize_payment passes its guard and reads the contract.              *)
LEMMA LoadContratoStep ==
  ASSUME IInv, UNCHANGED soltas, NEW s \in Sessions, LoadContrato(s)
  PROVE  IInv' /\ Effect
<1> DEFINE k == ses[s].mapa[ses[s].cob].contrato
           n == [ses[s] EXCEPT !.pc = "commit", !.ct = k, !.ctrow = contrato[k]]
<1>1. /\ ses[s] \in Session /\ ses[s].cob \in Cobrancas
      /\ ses[s].mapa[ses[s].cob] # NoRow
      /\ ses[s].mapa[ses[s].cob].status # "recebido"
      /\ ses[s].mapa[ses[s].cob] = cobranca[ses[s].cob]
      /\ ses[s].charge \in Charges
  BY Facts DEF LoadContrato, JaRecebida, SesOK
<1>2. k \in Contratos
  BY <1>1 DEF IInv, RowInv, RowOK
<1>3. ses' = [ses EXCEPT ![s] = n]
  BY DEF LoadContrato, IInv, TypeOK
<1> HIDE DEF k
<1>4. n \in Session
  <2>1. contrato[k] \in Contrato
    BY <1>2, Facts
  <2> QED
    BY <1>1, <1>2, <2>1 DEF Session
<1>5. SesOK(n, s, lock, cobranca, mp, soltas)
  <2>1. /\ n.via = ses[s].via /\ n.pc = "commit" /\ n.cob = ses[s].cob
        /\ n.mapa = ses[s].mapa /\ n.charge = ses[s].charge /\ n.ct = k
    BY <1>1 DEF Session
  <2>2. SesOK(ses[s], s, lock, cobranca, mp, soltas) /\ ses[s].pc = "finalize"
    BY Facts DEF LoadContrato
  <2> HIDE DEF n
  <2> QED
    BY <1>1, <1>2, <2>1, <2>2 DEF SesOK
<1> QED
  BY <1>3, <1>4, <1>5, Keep, Facts DEF LoadContrato

(* create_pix_charge_for_contract found an open charge to reissue.         *)
LEMMA LockOpenStep ==
  ASSUME IInv, UNCHANGED soltas, NEW s \in Sessions, LockOpen(s)
  PROVE  IInv' /\ Effect
<1> DEFINE found == OpenNow(s)
<1>1. PICK i \in Cobrancas :
        /\ OpenLocked(s, i)
        /\ ses' = [ses EXCEPT ![s].pc = "create", ![s].cob = i, ![s].cand = {},
                              ![s].antigo = cobranca[i].order,
                              ![s].mapa = Holding(s, found)]
  BY DEF LockOpen
<1> DEFINE n == [ses[s] EXCEPT !.pc = "create", !.cob = i, !.cand = {},
                   !.antigo = cobranca[i].order, !.mapa = Holding(s, found)]
<1>2. /\ found \in SUBSET Cobrancas /\ Lockable(s, found) /\ ses[s].pc # "apply"
      /\ i \in found /\ ses[s] \in Session /\ ses[s].ct \in Contratos
      /\ ses[s].via = "create_pix"
      /\ IsOpen(cobranca[i])
  BY <1>1, Facts
     DEF OpenLocked, Last, OpenNow, OpenOf, Lockable, Session, SesOK, At
<1>3. cobranca[i] # NoRow /\ cobranca[i].order \in Charges \cup {None}
  BY <1>2, Facts DEF NoRow, IsOpen, OPEN_COBRANCA_STATUSES, Cobranca
<1>4. /\ lock' = Locking(s, found)
      /\ UNCHANGED <<hoje, contrato, cobranca, receitas, mp>>
      /\ ses' = [ses EXCEPT ![s] = n]
  BY <1>1 DEF LockOpen, IInv, TypeOK
<1> HIDE DEF found
<1>5. LockedOK(s, found)
  BY <1>2, HoldingOK
<1>6. n \in Session
  <2>1. Holding(s, found) \in [Cobrancas -> Cobranca]
    BY <1>5 DEF LockedOK
  <2> QED
    BY <1>2, <1>3, <2>1 DEF Session
<1>7. SesOK(n, s, Locking(s, found), cobranca, mp, soltas)
  BY <1>2, <1>3, <1>5, <1>6, Facts DEF SesOK, LockedOK
<1> QED
  BY <1>4, <1>5, <1>6, <1>7, Keep, Facts DEF LockedOK

(* It found none, and holds no lock on anything.                           *)
LEMMA NoneOpenStep ==
  ASSUME IInv, UNCHANGED soltas, NEW s \in Sessions, NoneOpen(s)
  PROVE  IInv' /\ Effect
<1> DEFINE n == [ses[s] EXCEPT !.pc = "create", !.cand = {}]
<1>1. ses' = [ses EXCEPT ![s] = n] /\ n \in Session
  <2>1. ses[s] \in Session
    BY Facts
  <2> QED
    BY <2>1 DEF NoneOpen, IInv, TypeOK, Session
<1>2. SesOK(n, s, lock, cobranca, mp, soltas)
  BY Facts DEF NoneOpen, SesOK, At
<1> QED
  BY <1>1, <1>2, Keep, Facts DEF NoneOpen

(* create_online_order: a new order, and the session keeps its rows.       *)
LEMMA CreateOrderStep ==
  ASSUME IInv, UNCHANGED soltas, NEW s \in Sessions, CreateOrder(s)
  PROVE  IInv' /\ Effect
<1>1. PICK c \in Charges :
        /\ NewOrder(c, ses[s].ct)
        /\ ses' = [ses EXCEPT ![s].pc = "apply", ![s].charge = c]
  BY DEF CreateOrder
<1> DEFINE n == [ses[s] EXCEPT !.pc = "apply", !.charge = c]
<1>2. ses[s] \in Session /\ ses[s].ct \in Contratos
  BY Facts DEF CreateOrder, SesOK
<1>3. MpStep
  BY <1>1, <1>2, Facts
     DEF NewOrder, MpStep, Charge, Debito, IInv, MpInv
<1>4. ses' = [ses EXCEPT ![s] = n] /\ n \in Session
  BY <1>1, <1>2 DEF IInv, TypeOK, Session
<1>5. SesOK(n, s, lock, cobranca, mp', soltas)
  BY <1>2, <1>3, Facts DEF SesOK, CreateOrder
<1> QED
  BY <1>3, <1>4, <1>5, Keep, Facts DEF CreateOrder

(* The token was renewed: the lock and the copy are gone, the charge is one *)
(* of those let go of, and it was open until now.                          *)
LEMMA SoltaStep ==
  ASSUME IInv, NEW s \in Sessions, Solta(s)
  PROVE  /\ IInv' /\ Quiet
         /\ \/ soltas' = soltas
            \/ \E i \in Cobrancas : ~Recebida(i) /\ soltas' = soltas \cup {i}
<1> DEFINE i == ses[s].cob
           n == [ses[s] EXCEPT !.pc = "renovado", !.mapa = Livre.mapa]
<1>1. /\ ses[s] \in Session /\ At(s, "create_pix", "create")
      /\ ses' = [ses EXCEPT ![s] = n] /\ lock' = Unlocking(s)
      /\ UNCHANGED <<hoje, contrato, cobranca, receitas, mp>>
      /\ soltas' = soltas \cup ({i} \ {None})
  BY Facts DEF Solta, RenovaCreatePix, IInv, TypeOK
<1>2. i \in Cobrancas \cup {None} /\ (i # None => IsOpen(cobranca[i]))
  BY <1>1, Facts DEF SesOK, At, Session
<1>3. n \in Session
  <2>1. Livre.mapa \in [Cobrancas -> Cobranca]
    BY LivreOK DEF Livre
  <2> QED
    BY <1>1, <2>1 DEF Session
<1>4. /\ soltas' \in SUBSET Cobrancas /\ soltas \subseteq soltas'
      /\ i # None => i \in soltas'
  BY <1>1, <1>2, Facts
<1>5. /\ lock' \in [Cobrancas -> Sessions \cup {None}]
      /\ \A j \in Cobrancas : lock'[j] # lock[j] => lock[j] \in {None, s}
  BY <1>1, Facts DEF Unlocking
<1>6. SesOK(n, s, lock', cobranca, mp', soltas')
  <2>1. /\ n.via = "create_pix" /\ n.pc = "renovado" /\ n.cob = i
        /\ n.ct = ses[s].ct /\ n.mapa = [j \in Cobrancas |-> NoRow]
    BY <1>1 DEF Session, At, Livre
  <2>2. ses[s].ct \in Contratos
    BY <1>1, Facts DEF SesOK, At
  <2>3. i # None => i \in soltas' /\ cobranca[i].status # "ausente"
    BY <1>2, <1>4 DEF IsOpen, OPEN_COBRANCA_STATUSES
  <2> HIDE DEF n, i
  <2> QED
    BY <2>1, <2>2, <2>3 DEF SesOK, LockingVias
<1>7. i # None => i \in Cobrancas /\ ~Recebida(i)
  BY <1>2 DEF IsOpen, OPEN_COBRANCA_STATUSES, Recebida
<1>8. IInv'
  <2> HIDE DEF n
  <2> QED
    BY <1>1, <1>3, <1>4, <1>5, <1>6, Keep, Facts
<1>9. CASE i = None
  BY <1>1, <1>8, <1>9 DEF Quiet
<1>10. CASE i # None
  <2>1. soltas' = soltas \cup {i}
    BY <1>1, <1>10
  <2> QED
    BY <1>1, <1>7, <1>8, <1>10, <2>1 DEF Quiet
<1> QED
  BY <1>9, <1>10

(* Mercado Pago answered a request that lost its lock: the row is read     *)
(* again as it is now, received or not.                                    *)
LEMMA CreateOrderReloadStep ==
  ASSUME IInv, UNCHANGED soltas, NEW s \in Sessions, CreateOrderReload(s)
  PROVE  IInv' /\ Effect
<1> DEFINE i == ses[s].cob
           m == IF i = None THEN ses[s].mapa
                ELSE [ses[s].mapa EXCEPT ![i] = cobranca[i]]
           a == IF i = None THEN None ELSE cobranca[i].order
<1>1. PICK c \in Charges :
        /\ NewOrder(c, ses[s].ct)
        /\ ses' = [ses EXCEPT ![s].pc = "apply", ![s].charge = c,
             ![s].ctrow = contrato[ses[s].ct], ![s].antigo = a, ![s].mapa = m]
  BY DEF CreateOrderReload
<1> DEFINE n == [ses[s] EXCEPT !.pc = "apply", !.charge = c,
                   !.ctrow = contrato[ses[s].ct], !.antigo = a, !.mapa = m]
<1>2. /\ ses[s] \in Session /\ ses[s].ct \in Contratos
      /\ ses[s].via = "create_pix" /\ i \in Cobrancas \cup {None}
      /\ \A j \in Cobrancas : ses[s].mapa[j] = NoRow
      /\ i # None => i \in soltas /\ cobranca[i].status # "ausente"
  BY Facts DEF CreateOrderReload, SesOK, At, Session
<1>3. MpStep
  BY <1>1, <1>2, Facts
     DEF NewOrder, MpStep, Charge, Debito, IInv, MpInv
<1>4. ses' = [ses EXCEPT ![s] = n]
  BY <1>1 DEF IInv, TypeOK
<1>5. /\ m \in [Cobrancas -> Cobranca] /\ a \in Charges \cup {None}
      /\ contrato[ses[s].ct] \in Contrato
  BY <1>2, Facts DEF Session, Cobranca
<1>6. \A j \in Cobrancas : m[j] # NoRow => j = i
  BY <1>2
<1>7. i # None => m[i] # NoRow
  BY <1>2 DEF Session, NoRow
<1> HIDE DEF m, a
<1>8. n \in Session
  BY <1>2, <1>5 DEF Session
<1>9. SesOK(n, s, lock, cobranca, mp', soltas)
  <2>1. /\ n.via = "create_pix" /\ n.pc = "apply" /\ n.cob = i /\ n.mapa = m
        /\ n.ct = ses[s].ct /\ n.charge = c
    BY <1>2 DEF Session
  <2> HIDE DEF n, i
  <2> QED
    BY <1>2, <1>6, <1>7, <2>1 DEF SesOK, LockingVias
<1> HIDE DEF n
<1> QED
  BY <1>3, <1>4, <1>8, <1>9, Keep, Facts DEF CreateOrderReload

(* A commit that opens or reissues a charge: the row is not received       *)
(* before or after, so the books still agree with the rows; or it is one   *)
(* let go of, and nothing is said of its receipts.                         *)
LEMMA ReissueOK ==
  ASSUME IInv, UNCHANGED soltas, NEW s \in Sessions, NEW i \in Cobrancas, NEW r \in Cobranca,
         lock[i] \in {None, s} \/ cobranca[i].status = "ausente",
         \/ ~Recebida(i) /\ IsOpen(r)
         \/ i \in soltas /\ r.status # "ausente" /\ (r.status = "recebido" => Recebida(i)),
         r.contrato \in Contratos,
         ses[s].antigo \in Charges \cup {None},
         cobranca' = [cobranca EXCEPT ![i] = r],
         Committed(s), UNCHANGED <<hoje, contrato, receitas, mp>>
  PROVE  IInv' /\ Effect
<1> DEFINE m == [Livre EXCEPT !.via = ses[s].via, !.pc = "cancel",
                              !.antigo = ses[s].antigo]
           n == IF ses[s].antigo = None THEN Livre ELSE m
<1>1. ses[s].via \in LockingVias
  BY Facts DEF SesOK
<1>2. n \in Session
  <2>1. m \in Session
    BY <1>1, LivreOK DEF Session, LockingVias, Vias
  <2> QED
    BY <2>1, LivreOK
<1>3. ses' = [ses EXCEPT ![s] = n] /\ lock' = Unlocking(s)
  BY DEF Committed, Superseded
<1>4. \A j \in Cobrancas : n.mapa[j] = NoRow
  BY DEF Livre
<1>5. SesOK(n, s, lock', cobranca', mp', soltas')
  BY <1>1, <1>4, LivreOK DEF SesOK, Livre
<1>6. r.status # "ausente" /\ (r.status = "recebido" => Recebida(i))
  BY DEF IsOpen, OPEN_COBRANCA_STATUSES
<1> HIDE DEF n
<1>7. /\ cobranca' \in [Cobrancas -> Cobranca]
      /\ lock' \in [Cobrancas -> Sessions \cup {None}]
      /\ ses' \in [Sessions -> Session]
      /\ RowInv' /\ SesInv' /\ MpInv'
  BY <1>2, <1>3, <1>4, <1>5, <1>6, Write
<1>8. TypeOK'
  BY <1>7 DEF IInv, TypeOK
<1>9. \A j \in Cobrancas : /\ Recebida(j)' => Recebida(j)
                           /\ Recebida(j) => Recebida(j)' \/ j \in soltas
  BY <1>6, Facts DEF Recebida
<1>10. (RecebidaTemReceita /\ UmaReceitaPorCobranca)'
  BY <1>9 DEF IInv, RecebidaTemReceita, UmaReceitaPorCobranca, TemReceita
<1>11. Effect
  BY DEF Effect, Reissue, Overwrite
<1> QED
  BY <1>7, <1>8, <1>10, <1>11, Facts DEF IInv

(* A commit that receives a charge: the row and its receipt appear in the  *)
(* same transaction, and the row had no receipt yet.                       *)
LEMMA BookOK ==
  ASSUME IInv, UNCHANGED soltas, NEW s \in Sessions, NEW i \in Cobrancas, NEW r \in Cobranca,
         NEW c \in Charges,
         lock[i] = s \/ cobranca[i].status = "ausente",
         ~Recebida(i), r.status = "recebido", r.contrato \in Contratos,
         ses[s].ct \in Contratos,
         cobranca' = [cobranca EXCEPT ![i] = r],
         Credit(s, i, c), UNCHANGED <<hoje, mp>>
  PROVE  IInv' /\ Effect
<1>1. ses' = [ses EXCEPT ![s] = Livre] /\ lock' = Unlocking(s)
  BY Facts DEF Credit, AfterCommit, SesOK, LockingVias
<1>2. \A j \in Cobrancas : Livre.mapa[j] = NoRow
  BY DEF Livre
<1>3. SesOK(Livre, s, lock', cobranca', mp', soltas')
  BY LivreOK
<1>4. /\ cobranca' \in [Cobrancas -> Cobranca]
      /\ lock' \in [Cobrancas -> Sessions \cup {None}]
      /\ ses' \in [Sessions -> Session]
      /\ RowInv' /\ SesInv' /\ MpInv'
  BY <1>1, <1>2, <1>3, LivreOK, Write
<1> DEFINE rec == [cobranca |-> i, externo |-> c]
<1>5. /\ receitas \in Seq(Financeiro) /\ rec \in Financeiro
      /\ receitas' = Append(receitas, rec)
  BY DEF IInv, TypeOK, Financeiro, Credit
<1>6. contrato' \in [Contratos -> Contrato]
  <2>1. ses[s].ctrow \in Contrato
    BY Facts DEF Session
  <2> DEFINE k   == ses[s].ct
             old == contrato[k]
             new == FlushContrato(old, ses[s].ctrow,
                      [proximo_vencimento |->
                         add_cycle(ses[s].ctrow.proximo_vencimento),
                       inadimplente |-> FALSE])
  <2>2. old \in Contrato /\ contrato \in [Contratos -> Contrato]
    BY Facts
  <2>3. add_cycle(ses[s].ctrow.proximo_vencimento) \in Nat
    BY <2>1 DEF add_cycle, Contrato
  <2> HIDE DEF old
  <2>4. new \in Contrato
    BY <2>1, <2>2, <2>3 DEF FlushContrato, Dirty, Contrato
  <2>5. contrato' = [contrato EXCEPT ![k] = new]
    BY DEF Credit, old
  <2> QED
    BY <2>2, <2>4, <2>5
<1> HIDE DEF rec
<1>7. TypeOK'
  BY <1>4, <1>5, <1>6 DEF IInv, TypeOK
<1>8. /\ Len(receitas') = Len(receitas) + 1 /\ Len(receitas) \in Nat
      /\ DOMAIN receitas = 1..Len(receitas)
      /\ DOMAIN receitas' = 1..(Len(receitas) + 1)
      /\ receitas'[Len(receitas) + 1] = rec
      /\ \A n \in DOMAIN receitas : receitas'[n] = receitas[n]
  BY <1>5
<1>9. rec.cobranca = i
  BY DEF rec
<1>10. \A j \in Cobrancas : TemReceita(j)' <=> TemReceita(j) \/ j = i
  BY <1>8, <1>9 DEF TemReceita
<1>11. \A j \in Cobrancas : Recebida(j)' <=> Recebida(j) \/ j = i
  BY Facts DEF Recebida
<1>12. RecebidaTemReceita'
  BY <1>10, <1>11 DEF IInv, RecebidaTemReceita
<1>13. \A n \in DOMAIN receitas : receitas[n].cobranca = i => i \in soltas
  BY DEF IInv, RecebidaTemReceita, TemReceita
<1>14. UmaReceitaPorCobranca'
  BY <1>8, <1>9, <1>13 DEF IInv, UmaReceitaPorCobranca
<1> QED
  BY <1>4, <1>5, <1>7, <1>12, <1>14, Facts DEF IInv, Effect, Book, rec

(* A flush of a row the session loaded while it held the lock writes the   *)
(* row as the session wants it.                                            *)
LEMMA FlushOwn ==
  ASSUME NEW row \in Cobranca, NEW new \in Cobranca,
         new.contrato = row.contrato, new.vencimento = row.vencimento
  PROVE  Flush(row, row, new) = new
  BY DEF Flush, Dirty, Cobranca

(* The UPDATE of create_pix_charge_for_contract, on its locked row, or on  *)
(* one it has let go of.                                                   *)
LEMMA CommitPixStep ==
  ASSUME IInv, UNCHANGED soltas, NEW s \in Sessions, CommitPix(s)
  PROVE  IInv' /\ Effect
<1> DEFINE i   == ses[s].cob
           old == cobranca[i]
           row == ses[s].mapa[i]
           new == WithPix(row, StatusPix(s), s)
           r   == Flush(old, row, new)
<1>1. /\ ses[s] \in Session /\ i \in Cobrancas /\ lock[i] \in {None, s}
      /\ ses[s].via = "create_pix" /\ ses[s].charge \in Charges
  <2>1. /\ ses[s].pc = "apply" /\ ses[s].via \in {"create_pix", "ensure_pix"}
        /\ i # None /\ Lockable(s, {i})
    BY DEF CommitPix
  <2>2. ses[s] \in Session /\ i \in Cobrancas
    BY <2>1, Facts DEF Session
  <2>3. ses[s].via = "create_pix" /\ ses[s].charge \in Charges
    BY <2>1, Facts DEF SesOK, LockingVias
  <2> QED
    BY <2>1, <2>2, <2>3 DEF Lockable
<1>2. /\ row \in Cobranca /\ old \in Cobranca
      /\ old.status # "ausente" /\ (i \notin soltas => old = row /\ IsOpen(row))
  <2>1. row # NoRow /\ ses[s].pc = "apply"
    BY <1>1, Facts DEF CommitPix, SesOK
  <2>2. \/ lock[i] = s /\ old = row
        \/ i \in soltas /\ old.status # "ausente"
    BY <1>1, <2>1, Facts DEF SesOK
  <2>3. old \in Cobranca /\ row \in Cobranca
    BY <1>1, Facts DEF Session
  <2>4. old.status = "ausente" => old = NoRow
    BY <1>1 DEF IInv, RowInv, RowOK
  <2>5. i \notin soltas => IsOpen(row)
    BY <1>1, <2>1, Facts DEF SesOK
  <2> QED
    BY <2>1, <2>2, <2>3, <2>4, <2>5
<1>3. /\ cobranca' = [cobranca EXCEPT ![i] = r]
      /\ Committed(s) /\ UNCHANGED <<hoje, contrato, receitas, mp>>
  BY DEF CommitPix
<1>4. /\ ses[s].valor \in Nat /\ ses[s].antigo \in Charges \cup {None}
      /\ StatusPix(s) \in OPEN_COBRANCA_STATUSES
  BY <1>1 DEF Session, StatusPix, OPEN_COBRANCA_STATUSES
<1>5. old.contrato \in Contratos
  BY <1>1, <1>2 DEF IInv, RowInv, RowOK
<1> HIDE DEF old, row
<1>6. /\ new \in Cobranca /\ IsOpen(new)
  BY <1>1, <1>2, <1>4 DEF WithPix, Cobranca, IsOpen, OPEN_COBRANCA_STATUSES
<1> HIDE DEF new
<1>7. /\ r \in Cobranca /\ r.contrato = old.contrato
      /\ r.status \in {old.status, new.status}
  <2>1. r = [old EXCEPT !.status  = Dirty(@, row.status, new.status),
                        !.valor   = Dirty(@, row.valor, new.valor),
                        !.order   = Dirty(@, row.order, new.order),
                        !.payment = Dirty(@, row.payment, new.payment)]
    BY DEF Flush
  <2>2. /\ Dirty(old.status, row.status, new.status) \in {old.status, new.status}
        /\ Dirty(old.valor, row.valor, new.valor) \in {old.valor, new.valor}
        /\ Dirty(old.order, row.order, new.order) \in {old.order, new.order}
        /\ Dirty(old.payment, row.payment, new.payment) \in {old.payment, new.payment}
    BY DEF Dirty
  <2> HIDE DEF r
  <2> QED
    BY <1>2, <1>6, <2>1, <2>2 DEF Cobranca
<1>8. old = row => IsOpen(r)
  BY <1>2, <1>6 DEF Flush, Dirty, Cobranca, IsOpen
<1>9. \/ ~Recebida(i) /\ IsOpen(r)
      \/ i \in soltas /\ r.status # "ausente" /\ (r.status = "recebido" => Recebida(i))
  <2>1. CASE i \in soltas
    BY <1>2, <1>6, <1>7, <2>1 DEF IsOpen, OPEN_COBRANCA_STATUSES, Recebida, old
  <2>2. CASE i \notin soltas
    <3>1. old = row /\ IsOpen(old)
      BY <1>2, <2>2
    <3> QED
      BY <1>8, <3>1 DEF IsOpen, OPEN_COBRANCA_STATUSES, Recebida, old
  <2> QED
    BY <2>1, <2>2
<1> HIDE DEF r
<1> QED
  BY <1>1, <1>3, <1>4, <1>5, <1>7, <1>9, ReissueOK

(* Its INSERT, when the contract had no open charge.                       *)
LEMMA InsertPixStep ==
  ASSUME IInv, UNCHANGED soltas, NEW s \in Sessions, InsertPix(s)
  PROVE  IInv' /\ Effect
<1> DEFINE new == WithPix([NoRow EXCEPT !.contrato = ses[s].ct,
                             !.vencimento = ses[s].ctrow.proximo_vencimento],
                          StatusPix(s), s)
<1>1. PICK i \in Cobrancas : NextId(i) /\ cobranca' = [cobranca EXCEPT ![i] = new]
  BY DEF InsertPix
<1>2. /\ ses[s] \in Session /\ ses[s].ct \in Contratos
      /\ ses[s].charge \in Charges /\ ses[s].via = "create_pix"
  BY Facts DEF InsertPix, SesOK, At
<1>3. cobranca[i].status = "ausente" /\ ~Recebida(i)
  BY <1>1 DEF NextId, Recebida
<1>4. /\ ses[s].valor \in Nat /\ ses[s].antigo \in Charges \cup {None}
      /\ ses[s].ctrow.proximo_vencimento \in Nat
      /\ StatusPix(s) \in OPEN_COBRANCA_STATUSES
  BY <1>2 DEF Session, Contrato, StatusPix, OPEN_COBRANCA_STATUSES
<1>5. new \in Cobranca /\ IsOpen(new) /\ new.contrato \in Contratos
  BY <1>2, <1>4, LivreOK DEF WithPix, Cobranca, NoRow, IsOpen, OPEN_COBRANCA_STATUSES
<1> HIDE DEF new
<1> QED
  BY <1>1, <1>3, <1>4, <1>5, ReissueOK DEF InsertPix

(* A subscription payment inserted as a received charge.                   *)
LEMMA SubscriptionInsertStep ==
  ASSUME IInv, UNCHANGED soltas, NEW s \in Sessions, SubscriptionInsert(s)
  PROVE  IInv' /\ Effect
<1> DEFINE c   == ses[s].charge
           new == [contrato |-> ses[s].ct, status |-> "recebido",
                   vencimento |-> ses[s].ctrow.proximo_vencimento,
                   valor |-> ses[s].valor, order |-> None, payment |-> c]
<1>1. PICK i \in Cobrancas : /\ NextId(i) /\ Credit(s, i, c)
                            /\ cobranca' = [cobranca EXCEPT ![i] = new]
  BY DEF SubscriptionInsert
<1>2. /\ ses[s] \in Session /\ ses[s].ct \in Contratos /\ c \in Charges
  BY Facts DEF SubscriptionInsert, SesOK, At
<1>3. cobranca[i].status = "ausente" /\ ~Recebida(i)
  BY <1>1 DEF NextId, Recebida
<1>4. ses[s].valor \in Nat /\ ses[s].ctrow.proximo_vencimento \in Nat
  BY <1>2 DEF Session, Contrato
<1>5. new \in Cobranca
  BY <1>2, <1>4 DEF Cobranca
<1> QED
  BY <1>1, <1>2, <1>3, <1>5, BookOK DEF SubscriptionInsert

(* _finalize_payment commits the locked row, the receipt and the contract. *)
LEMMA CommitPaymentStep ==
  ASSUME IInv, UNCHANGED soltas, NEW s \in Sessions, CommitPayment(s)
  PROVE  IInv' /\ Effect
<1> DEFINE i   == ses[s].cob
           row == cobranca[i]
           new == Received(s)
           ext == Externo(s)
<1>1. /\ ses[s] \in Session /\ ses[s].ct \in Contratos
      /\ i \in Cobrancas /\ lock[i] = s
      /\ row = ses[s].mapa[i] /\ row # NoRow /\ row.status # "recebido"
      /\ ses[s].charge \in Charges
  BY Facts DEF CommitPayment, SesOK
<1>2. row \in Cobranca /\ row.contrato \in Contratos /\ ~Recebida(i)
  BY <1>1, Facts DEF IInv, RowInv, RowOK, Recebida
<1>3. /\ cobranca' = [cobranca EXCEPT ![i] = Flush(row, row, new)]
      /\ Credit(s, i, ext) /\ UNCHANGED <<hoje, mp>>
  BY <1>1 DEF CommitPayment
<1>4. ext \in Charges
  BY <1>1, <1>2 DEF Externo, Cobranca
<1>5. ses[s].valor \in Nat
  BY <1>1 DEF Session
<1>6. new = [row EXCEPT !.status = "recebido", !.payment = ses[s].charge,
                        !.valor = IF ses[s].valor > 0 THEN ses[s].valor ELSE @]
      \/ new = [row EXCEPT !.status = "recebido"]
  BY <1>1 DEF Received
<1> HIDE DEF row, new, ext
<1>7. /\ new \in Cobranca /\ new.status = "recebido"
      /\ new.contrato = row.contrato /\ new.vencimento = row.vencimento
  BY <1>1, <1>2, <1>5, <1>6, ZenonT(40) DEF Cobranca
<1>8. Flush(row, row, new) = new
  BY <1>2, <1>7, FlushOwn
<1> QED
  BY <1>1, <1>2, <1>3, <1>4, <1>7, <1>8, BookOK

-----------------------------------------------------------------------------
(* A charge is let go of while it is open, and in a step of its own.       *)
Desprende ==
  \/ soltas' = soltas
  \/ Quiet /\ \E i \in Cobrancas : ~Recebida(i) /\ soltas' = soltas \cup {i}

(* Every step of the locking part preserves the invariant and has one of   *)
(* the four effects.                                                       *)
LEMMA StepInv == IInv /\ [LockedNext]_lockedVars => IInv' /\ Effect /\ Desprende
<1> SUFFICES ASSUME IInv, [LockedNext]_lockedVars
             PROVE  IInv' /\ Effect /\ Desprende
  OBVIOUS
<1>1. CASE UNCHANGED lockedVars
  BY <1>1 DEF lockedVars, vars, IInv, TypeOK, RowInv, MpInv, SesInv, SesOK, Effect,
     Quiet, Desprende, RecebidaTemReceita, UmaReceitaPorCobranca, Recebida, TemReceita
<1>2. CASE Mundo /\ UNCHANGED soltas
  BY <1>2, MundoStep DEF Desprende
<1>3. ASSUME NEW s \in Sessions, Presa(s) PROVE IInv' /\ Effect /\ Desprende
  <2>0. UNCHANGED soltas
    BY <1>3 DEF Presa
  <2>1. CASE Webhook(s)
    BY <2>0, <2>1, ReceiveStep, LockCobrancaStep, EndStep, SubscriptionContractStep,
       SubscriptionOpenStep, SubscriptionInsertStep, LoadContratoStep,
       CommitPaymentStep DEF Webhook, Finalize, Desprende
  <2>2. CASE CreatePixCharge(s)
    BY <2>0, <2>2, StartCreatePixStep, EndStep, LockOpenStep, NoneOpenStep,
       CreateOrderReloadStep, InsertPixStep DEF CreatePixCharge, Desprende
  <2>3. CASE SendPix(s)
    BY <2>0, <2>3, CreateOrderStep, CommitPixStep, EndStep DEF SendPix, Desprende
  <2>4. CASE Abort(s)
    BY <2>0, <2>4, EndStep DEF Desprende
  <2> QED
    BY <1>3, <2>1, <2>2, <2>3, <2>4 DEF Presa, LockedStep
<1>4. ASSUME NEW s \in Sessions, Solta(s) PROVE IInv' /\ Effect /\ Desprende
  BY <1>4, SoltaStep DEF Effect, Desprende
<1> QED
  BY <1>1, <1>2, <1>3, <1>4 DEF LockedNext

(* The invariant holds in every reachable state of the locking part.       *)
LEMMA Invariance == LockedSpec => []IInv
  BY InitInv, StepInv, PTL DEF LockedSpec

(* Every state of the locking part is well typed.                          *)
THEOREM LockingTypeCorrect == LockedSpec => []TypeOK
<1>1. IInv => TypeOK
  BY DEF IInv
<1> QED
  BY <1>1, Invariance, PTL

(* However many notifications of however many charges are delivered, and   *)
(* however the sessions interleave, no charge is credited twice unless a   *)
(* renewal of the token took its lock away from a PIX request.             *)
THEOREM OneReceiptPerCharge == LockedSpec => []UmaReceitaPorCobranca
<1>1. IInv => UmaReceitaPorCobranca
  BY DEF IInv
<1> QED
  BY <1>1, Invariance, PTL

(* A received charge has its receipt, and a charge with a receipt is       *)
(* received unless its lock was lost.                                      *)
THEOREM ReceivedIffBooked == LockedSpec => []RecebidaTemReceita
<1>1. IInv => RecebidaTemReceita
  BY DEF IInv
<1> QED
  BY <1>1, Invariance, PTL

(* A received charge whose lock was kept is final: no step of the locking  *)
(* part writes its row, and none takes the lock's protection away.         *)
THEOREM ReceivedIsFinal == LockedSpec => RecebidaImutavel
<1>1. IInv /\ [LockedNext]_lockedVars =>
        [\A i \in Cobrancas \ soltas :
           Recebida(i) => cobranca'[i] = cobranca[i] /\ i \notin soltas']_lockedVars
  <2> SUFFICES ASSUME IInv, [LockedNext]_lockedVars,
                      NEW i \in Cobrancas \ soltas, Recebida(i)
               PROVE  cobranca'[i] = cobranca[i] /\ i \notin soltas'
    OBVIOUS
  <2>1. Effect /\ Desprende
    BY StepInv
  <2>2. cobranca'[i] = cobranca[i]
    BY <2>1, Facts DEF Effect, Quiet, Reissue, Overwrite, Book, IInv, TypeOK
  <2>3. i \notin soltas'
    BY <2>1 DEF Desprende
  <2> QED
    BY <2>2, <2>3
<1> QED
  BY <1>1, Invariance, PTL DEF LockedSpec, RecebidaImutavel

(* The locking part implements the ledger: every step books one receipt    *)
(* for a charge not yet received or one let go of, lets go of an open      *)
(* charge, or leaves the ledger as it is.                                  *)
THEOREM ImplementsLedger == LockedSpec => LedgerSpec
<1> DEFINE pagas == {i \in Cobrancas : Recebida(i)} \ soltas
<1>1. LockedInit => Ledger!Init
  BY DEF LockedInit, Init, Ledger!Init, Recebida, NoRow
<1>2. IInv /\ [LockedNext]_lockedVars => [Ledger!Next]_<<pagas, soltas, receitas>>
  <2> SUFFICES ASSUME IInv, [LockedNext]_lockedVars
               PROVE  [Ledger!Next]_<<pagas, soltas, receitas>>
    OBVIOUS
  <2>0. Effect /\ Desprende /\ cobranca \in [Cobrancas -> Cobranca]
    BY StepInv DEF IInv, TypeOK
  <2>1. CASE Quiet /\ soltas' = soltas
    BY <2>1 DEF Quiet, Recebida
  <2>2. CASE Quiet /\ soltas' # soltas
    <3>1. PICK i \in Cobrancas : ~Recebida(i) /\ soltas' = soltas \cup {i}
      BY <2>0, <2>2 DEF Desprende
    <3>2. pagas' = pagas /\ i \notin pagas /\ receitas' = receitas
      BY <2>2, <3>1 DEF Quiet, Recebida
    <3>3. Ledger!Soltar(i)
      BY <3>1, <3>2 DEF Ledger!Soltar
    <3> QED
      BY <3>3 DEF Ledger!Next
  <2>3. CASE Reissue /\ soltas' = soltas
    BY <2>0, <2>3 DEF Reissue, Recebida, IsOpen, OPEN_COBRANCA_STATUSES
  <2>4. CASE Overwrite /\ soltas' = soltas
    BY <2>0, <2>4 DEF Overwrite, Recebida
  <2>5. CASE Book /\ soltas' = soltas
    <3>1. PICK i \in Cobrancas, r \in Cobranca, c \in Charges :
            /\ ~Recebida(i) /\ r.status = "recebido"
            /\ cobranca' = [cobranca EXCEPT ![i] = r]
            /\ receitas' = Append(receitas, [cobranca |-> i, externo |-> c])
      BY <2>5 DEF Book
    <3>2. \A j \in Cobrancas : Recebida(j)' <=> Recebida(j) \/ j = i
      BY <2>0, <3>1 DEF Recebida
    <3>3. CASE i \in soltas
      <4>1. pagas' = pagas
        BY <2>5, <3>2, <3>3
      <4>2. Ledger!CreditarSolta(i, c)
        BY <2>5, <3>1, <3>3, <4>1 DEF Ledger!CreditarSolta, Ledger!Lancar
      <4> QED
        BY <4>2 DEF Ledger!Next
    <3>4. CASE i \notin soltas
      <4>1. pagas' = pagas \cup {i} /\ i \notin pagas \cup soltas
        BY <2>5, <3>1, <3>2, <3>4
      <4>2. Ledger!Creditar(i, c)
        BY <2>5, <3>1, <4>1 DEF Ledger!Creditar, Ledger!Lancar
      <4> QED
        BY <4>2 DEF Ledger!Next
    <3> QED
      BY <3>3, <3>4
  <2> QED
    BY <2>0, <2>1, <2>2, <2>3, <2>4, <2>5 DEF Effect, Desprende
<1> QED
  BY <1>1, <1>2, Invariance, PTL DEF LockedSpec, LedgerSpec, Ledger!Spec
-----------------------------------------------------------------------------
(***************************************************************************)
(* The whole of Billing.  The reconciliation, the delinquency pass, the    *)
(* card and ensure_pix write rows they have not locked, from copies that   *)
(* may be old, so SesInv does not hold of them.  What does hold is that a  *)
(* session knows where its ids come from: an id of an order is in one row  *)
(* and in the copies of that row only (Lugares), and an id a session       *)
(* confirms is one Mercado Pago approved (Cobra).                          *)
(***************************************************************************)

Confirma == {"order", "payment", "subscription", "reconcile"}

Aprovada(c, M) == c \in Charges /\ M[c].status = "approved"

Debitada(c, M) == Aprovada(c, M) /\ M[c].tipo = "assinatura"

(* The two ids of a row name one order, unless a debit was put on it.      *)
RowFull(row, M) ==
  /\ RowOK(row)
  /\ row.payment = row.order \/ Debitada(row.payment, M)

(* How far the due date of a contract may be, by its receipts.             *)
Pago == [k \in Contratos |-> Ciclo + Receitas(k) * Ciclo]

(* A session that has created a charge and stored it nowhere.              *)
Propria(n) ==
  n.pc \in {"apply", "expirado"} \/ (n.via = "card" /\ n.pc = "commit")

(* The session finds its row by the id of the order.                       *)
PorOrdem(n, M) ==
  n.via = "order" \/ (n.via = "reconcile" /\ M[n.charge].tipo = "order")

(* The copies: of rows that exist and have not changed contract.           *)
Mapa(m, C, M) ==
  \A i \in Cobrancas :
    /\ RowFull(m[i], M)
    /\ m[i] # NoRow => C[i].status # "ausente" /\ C[i].contrato = m[i].contrato

(* A session that will read its row again knows it is there.               *)
Relida(n, C) ==
  n.via \in {"create_pix", "card"} /\ n.pc = "renovado" /\ n.cob # None =>
    C[n.cob].status # "ausente" /\ C[n.cob].contrato = n.ct

(* The row at hand is one of the copies.                                   *)
Linha(n) ==
  /\ n.pc \in {"finalize", "commit"} => n.cob \in Cobrancas
  /\ n.via \in {"ensure_pix", "card"} => n.pc = "cancel" \/ n.cob \in Cobrancas
  /\ n.pc \in {"finalize", "commit", "create", "apply"} /\ n.cob # None =>
       n.mapa[n.cob] # NoRow
  /\ n.pc \in {"commit", "create", "apply"} /\ n.cob # None =>
       n.mapa[n.cob].contrato = n.ct
  /\ n.pc = "create" /\ n.cob # None => IsOpen(n.mapa[n.cob])
  /\ n.pc = "apply" /\ n.via # "create_pix" /\ n.cob # None =>
       IsOpen(n.mapa[n.cob]) \/ (n.via = "card" /\ n.valor = 0)
  /\ n.via = "ensure_pix" /\ n.pc \in {"renovado", "expirado"} =>
       n.mapa[n.cob] # NoRow /\ IsOpen(n.mapa[n.cob])
  /\ n.via = "card" /\ n.pc = "renovado" => n.valor = 0
  /\ n.via = "expired" => n.pc = "scan"
  /\ n.via = "expired" => \A i \in n.cand : n.mapa[i].order # None

(* The contract at hand, and its copy: no further than its receipts.       *)
Contrata(n, L) ==
  /\ \/ n.pc \in {"lock_open", "commit", "create", "renovado", "expirado", "apply"}
     \/ n.via = "delinquency"
     => n.ct \in Contratos
  /\ n.ct # None => n.ctrow.proximo_vencimento <= L[n.ct]

(* The Mercado Pago resource at hand.                                      *)
Cobra(n, M) ==
  /\ n.via \in Confirma /\ n.pc # "scan" => Aprovada(n.charge, M)
  /\ n.via = "card" => n.pc \in {"create", "renovado", "commit", "apply"}
  /\ n.via = "card" /\ n.pc = "commit" => Aprovada(n.charge, M)
  /\ n.via \in {"order", "payment"} => n.pc \in {"lock", "finalize", "commit"}
  /\ n.via = "subscription" =>
       n.pc \in {"lock", "lock_open", "finalize", "commit"} /\ Debitada(n.charge, M)
  /\ n.via # "reconcile" /\ n.pc \in {"lock", "lock_open"} =>
       n.cob = None /\ \A i \in Cobrancas : n.mapa[i] = NoRow
  /\ n.via = "delinquency" /\ n.pc = "scan" =>
       n.cob = None /\ \A i \in Cobrancas : n.mapa[i] = NoRow
  /\ n.via = "reconcile" => n.pc \in {"scan", "fetch", "lock", "finalize", "commit"}
  /\ n.via = "create_pix" =>
       n.pc \in {"lock_open", "create", "renovado", "apply", "cancel"}
  /\ n.via = "ensure_pix" =>
       n.pc \in {"create", "renovado", "expirado", "apply", "cancel"}
  /\ n.via = "delinquency" => n.pc \in {"scan", "create", "apply", "commit"}
  /\ n.via = "livre" => n.pc = "livre"
  /\ Propria(n) => n.charge \in Charges /\ M[n.charge].status # "livre"
                   /\ M[n.charge].tipo = "order"
  /\ n.pc \in {"finalize", "commit"} /\ PorOrdem(n, M) => n.mapa[n.cob].order = n.charge
  /\ n.pc \in {"fetch", "lock"} /\ n.via = "reconcile" /\ PorOrdem(n, M) =>
       \E i \in Cobrancas : n.mapa[i].order = n.charge
  /\ n.pc = "cancel" => n.antigo \in Charges

SesFull(n, C, M, L) ==
  /\ Mapa(n.mapa, C, M) /\ Relida(n, C)
  /\ Linha(n) /\ Contrata(n, L) /\ Cobra(n, M)

SesFullInv == \A s \in Sessions : SesFull(ses[s], cobranca, mp, Pago)

RowsFullInv == \A i \in Cobrancas : RowFull(cobranca[i], mp)

BooksInv ==
  \A n \in DOMAIN receitas : cobranca[receitas[n].cobranca].status # "ausente"

(* A debit is an approved payment of a contract.                           *)
DebitosInv ==
  \A c \in Charges : mp[c].tipo = "assinatura" =>
    mp[c].status = "approved" /\ mp[c].contrato \in Contratos

(* f tells the row an order belongs to.                                    *)
Lugar(f) ==
  /\ \A i \in Cobrancas : cobranca[i].order # None => f[cobranca[i].order] = i
  /\ \A s \in Sessions, i \in Cobrancas :
       ses[s].mapa[i].order # None => f[ses[s].mapa[i].order] = i
  /\ \A s \in Sessions : Propria(ses[s]) => f[ses[s].charge] = None
  /\ \A s, t \in Sessions :
       Propria(ses[s]) /\ Propria(ses[t]) /\ ses[s].charge = ses[t].charge => s = t
  /\ \A c \in Charges : mp[c].status = "livre" => f[c] = None

Lugares == \E f \in [Charges -> Cobrancas \cup {None}] : Lugar(f)

Base == TypeOK /\ SesFullInv /\ RowsFullInv /\ BooksInv /\ DebitosInv /\ Lugares

FInv == Base /\ RecebidaComprovada /\ ReceitaTemPagamento /\ VencimentoPago

-----------------------------------------------------------------------------
(* What no step takes back: a row, its contract, a charge, its approval,   *)
(* a receipt.                                                              *)
Cresce(C, M, L) ==
  /\ \A i \in Cobrancas : cobranca[i].status # "ausente" =>
       C[i].status # "ausente" /\ C[i].contrato = cobranca[i].contrato
  /\ \A c \in Charges : mp[c].status # "livre" =>
       M[c].status # "livre" /\ M[c].tipo = mp[c].tipo
  /\ \A c \in Charges : mp[c].status = "approved" => M[c].status = "approved"
  /\ \A k \in Contratos : Pago[k] \in Int /\ L[k] \in Int /\ Pago[k] <= L[k]

(* A session that does nothing does not notice.                            *)
LEMMA Segue ==
  ASSUME NEW n \in Session, NEW C, NEW M, NEW L,
         SesFull(n, cobranca, mp, Pago), Cresce(C, M, L)
  PROVE  SesFull(n, C, M, L)
<1>1. ASSUME NEW c, Aprovada(c, mp) PROVE Aprovada(c, M) /\ M[c].tipo = mp[c].tipo
  BY <1>1 DEF Cresce, Aprovada
<1>2. Mapa(n.mapa, C, M)
  BY <1>1 DEF SesFull, Mapa, RowFull, Debitada, Cresce
<1>3. Contrata(n, L)
  <2>1. n.ctrow.proximo_vencimento \in Nat /\ n.ct \in Contratos \cup {None}
    BY DEF Session, Contrato
  <2> QED
    BY <2>1 DEF SesFull, Contrata, Cresce
<1>4. Cobra(n, M)
  BY <1>1 DEF SesFull, Cobra, Debitada, Cresce, PorOrdem, Propria, Confirma
<1>5. Relida(n, C)
  BY DEF SesFull, Relida, Cresce, Session
<1> QED
  BY <1>2, <1>3, <1>4, <1>5 DEF SesFull

(* How many receipts a contract has is a number.                           *)
LEMMA Contagem ==
  ASSUME receitas \in Seq(Financeiro), NEW k
  PROVE  /\ IsFiniteSet({n \in DOMAIN receitas : cobranca[receitas[n].cobranca].contrato = k})
         /\ Receitas(k) \in Nat /\ Receitas(k) * Ciclo \in Nat
         /\ k \in Contratos => Pago[k] = Ciclo + Receitas(k) * Ciclo
         /\ k \in Contratos => Pago[k] \in Nat
<1> DEFINE S == {n \in DOMAIN receitas : cobranca[receitas[n].cobranca].contrato = k}
<1>1. IsFiniteSet(1..Len(receitas)) /\ DOMAIN receitas = 1..Len(receitas)
  BY FS_Interval
<1>2. IsFiniteSet(S)
  BY <1>1, FS_Subset
<1>3. Receitas(k) \in Nat
  BY <1>2, FS_CardinalityType DEF Receitas
<1>4. Receitas(k) * Ciclo \in Nat
  BY <1>3
<1>5. k \in Contratos => Pago[k] = Ciclo + Receitas(k) * Ciclo
  BY DEF Pago
<1> QED
  BY <1>2, <1>3, <1>4, <1>5

LEMMA PagoNat ==
  ASSUME receitas \in Seq(Financeiro)
  PROVE  \A k \in Contratos : Pago[k] = Ciclo + Receitas(k) * Ciclo /\ Pago[k] \in Nat
<1> SUFFICES ASSUME NEW k \in Contratos
             PROVE  Pago[k] = Ciclo + Receitas(k) * Ciclo /\ Pago[k] \in Nat
  OBVIOUS
<1> QED
  BY Contagem

(* The idle session is well formed in every state.                         *)
LEMMA LivreFull ==
  ASSUME NEW C, NEW M, NEW L PROVE SesFull(Livre, C, M, L) /\ ~Propria(Livre)
  BY DEF SesFull, Livre, Mapa, Relida, Linha, Contrata, Cobra, RowFull, RowOK, NoRow,
         Propria, Confirma, PorOrdem

LEMMA InitFull == Init => FInv
<1> SUFFICES ASSUME Init PROVE FInv
  OBVIOUS
<1>1. TypeOK
  BY LivreOK DEF Init, TypeOK, Contrato, Charge, Financeiro
<1>2. SesFullInv
  BY LivreFull DEF Init, SesFullInv
<1>3. RowsFullInv /\ BooksInv /\ DebitosInv
  BY DEF Init, RowsFullInv, RowFull, RowOK, NoRow, BooksInv, DebitosInv
<1>4. Lugares
  <2> DEFINE f == [c \in Charges |-> None]
  <2>1. f \in [Charges -> Cobrancas \cup {None}]
    OBVIOUS
  <2>2. Lugar(f)
    BY DEF Init, Lugar, NoRow, Livre, Propria
  <2> QED
    BY <2>1, <2>2 DEF Lugares
<1>5. RecebidaComprovada /\ ReceitaTemPagamento
  BY DEF Init, RecebidaComprovada, Recebida, NoRow, ReceitaTemPagamento
<1>6. VencimentoPago
  <2> SUFFICES ASSUME NEW k \in Contratos
               PROVE  contrato[k].proximo_vencimento <= Ciclo + Receitas(k) * Ciclo
    BY DEF VencimentoPago
  <2>1. Receitas(k) \in Nat /\ contrato[k].proximo_vencimento = Ciclo
    BY <1>1, Contagem DEF TypeOK, Init
  <2>2. Receitas(k) * Ciclo \in Nat
    BY <2>1
  <2> QED
    BY <2>1, <2>2
<1> QED
  BY <1>1, <1>2, <1>3, <1>4, <1>5, <1>6 DEF FInv, Base

(* What the invariant says of one session.                                 *)
LEMMA Fatos ==
  ASSUME FInv, NEW s \in Sessions
  PROVE  /\ ses[s] \in Session /\ SesFull(ses[s], cobranca, mp, Pago)
         /\ hoje \in Nat
         /\ contrato \in [Contratos -> Contrato]
         /\ cobranca \in [Cobrancas -> Cobranca]
         /\ receitas \in Seq(Financeiro)
         /\ mp \in [Charges -> Charge]
         /\ lock \in [Cobrancas -> Sessions \cup {None}]
         /\ ses \in [Sessions -> Session]
         /\ \A i \in Cobrancas : RowFull(cobranca[i], mp) /\ cobranca[i] \in Cobranca
  BY DEF FInv, Base, TypeOK, SesFullInv, RowsFullInv

(* A step of one session keeps the sessions well formed if its own is.     *)
LEMMA Outras ==
  ASSUME FInv, NEW s \in Sessions, NEW n \in Session,
         ses' = [ses EXCEPT ![s] = n],
         SesFull(n, cobranca', mp', Pago'), Cresce(cobranca', mp', Pago')
  PROVE  ses' \in [Sessions -> Session] /\ SesFullInv'
<1>1. ses' \in [Sessions -> Session]
  BY Fatos
<1>2. ASSUME NEW t \in Sessions PROVE SesFull(ses'[t], cobranca', mp', Pago')
  <2>1. CASE t = s
    <3>1. ses'[t] = n
      BY <2>1, Fatos
    <3> QED
      BY <3>1
  <2>2. CASE t # s
    <3>1. /\ ses'[t] = ses[t] /\ ses[t] \in Session
          /\ SesFull(ses[t], cobranca, mp, Pago)
      BY <2>2, Fatos
    <3> QED
      BY <3>1, Segue
  <2> QED
    BY <2>1, <2>2
<1> QED
  BY <1>1, <1>2 DEF SesFullInv

(* What a step may do at Mercado Pago: charges are made and move on, what  *)
(* is approved stays so, a debit is a payment.                             *)
MpAnda ==
  /\ mp' \in [Charges -> Charge]
  /\ \A c \in Charges : mp[c].status # "livre" =>
       mp'[c].status # "livre" /\ mp'[c].tipo = mp[c].tipo
  /\ \A c \in Charges : mp[c].status = "approved" => mp'[c].status = "approved"
  /\ \A c \in Charges : mp'[c].tipo = "assinatura" =>
       mp'[c].status = "approved" /\ mp'[c].contrato \in Contratos

LEMMA MpParado == FInv /\ mp' = mp => MpAnda
  BY Fatos DEF MpAnda, FInv, Base, TypeOK, DebitosInv

(* The rows, the books and the contracts stay: so does what is said of     *)
(* them, and a session cannot tell.                                        *)
LEMMA Tabelas ==
  ASSUME FInv, UNCHANGED <<cobranca, receitas, contrato>>, MpAnda
  PROVE  /\ RowsFullInv' /\ BooksInv' /\ DebitosInv'
         /\ RecebidaComprovada' /\ ReceitaTemPagamento' /\ VencimentoPago'
         /\ Pago' = Pago
         /\ Cresce(cobranca, mp', Pago)
<1>1. \A k : Receitas(k)' = Receitas(k)
  BY DEF Receitas
<1>2. Pago' = Pago /\ \A k \in Contratos : Pago[k] \in Int
  <2>1. Pago' = Pago
    BY <1>1, Zenon DEF Pago
  <2>2. receitas \in Seq(Financeiro)
    BY DEF FInv, Base, TypeOK
  <2> QED
    BY <2>1, <2>2, PagoNat
<1>3. RowsFullInv'
  BY DEF RowsFullInv, RowFull, RowOK, Debitada, Aprovada, FInv, Base, MpAnda
<1>4. BooksInv' /\ DebitosInv'
  BY DEF BooksInv, DebitosInv, FInv, Base, MpAnda
<1>5. RecebidaComprovada' /\ VencimentoPago'
  BY <1>1 DEF RecebidaComprovada, Recebida, TemReceita, VencimentoPago, FInv
<1>6. ReceitaTemPagamento'
  <2>1. \A n \in DOMAIN receitas : receitas[n].externo \in Charges
    <3>1. receitas \in Seq(Financeiro)
      BY DEF FInv, Base, TypeOK
    <3>2. \A n \in DOMAIN receitas : receitas[n] \in Financeiro
      BY <3>1
    <3> QED
      BY <3>2 DEF Financeiro
  <2> QED
    BY <2>1 DEF ReceitaTemPagamento, FInv, MpAnda
<1>7. Cresce(cobranca, mp', Pago)
  BY <1>2 DEF Cresce, MpAnda
<1> QED
  BY <1>2, <1>3, <1>4, <1>5, <1>6, <1>7

(* A session that writes nothing, and copies only what is stored, keeps    *)
(* the invariant; a charge it creates is one nobody has.                   *)
LEMMA Passa ==
  ASSUME FInv, NEW s \in Sessions, NEW n \in Session,
         ses' = [ses EXCEPT ![s] = n],
         UNCHANGED <<hoje, contrato, cobranca, receitas>>, MpAnda,
         lock' \in [Cobrancas -> Sessions \cup {None}],
         SesFull(n, cobranca, mp', Pago),
         \A i \in Cobrancas : n.mapa[i] \in {NoRow, cobranca[i], ses[s].mapa[i]},
         Propria(n) => \/ Propria(ses[s]) /\ n.charge = ses[s].charge
                       \/ n.charge \in Charges /\ mp[n.charge].status = "livre"
  PROVE  FInv'
<1>1. /\ RowsFullInv' /\ BooksInv' /\ DebitosInv'
      /\ RecebidaComprovada' /\ ReceitaTemPagamento' /\ VencimentoPago'
      /\ Pago' = Pago /\ Cresce(cobranca, mp', Pago)
  BY Tabelas
<1>2. ses' \in [Sessions -> Session] /\ SesFullInv'
  BY <1>1, Outras
<1>3. TypeOK'
  BY <1>2, Fatos DEF TypeOK, MpAnda
<1>4. Lugares'
  <2>1. PICK f \in [Charges -> Cobrancas \cup {None}] : Lugar(f)
    BY DEF FInv, Base, Lugares
  <2>2. ses'[s] = n /\ \A t \in Sessions : t # s => ses'[t] = ses[t]
    BY Fatos
  <2>3. \A t \in Sessions : Propria(ses[t]) =>
          ses[t].charge \in Charges /\ mp[ses[t].charge].status # "livre"
    BY Fatos DEF SesFull, Cobra
  <2>4. Lugar(f)'
    <3>1. \A i \in Cobrancas : cobranca[i].order # None => f[cobranca[i].order] = i
      BY <2>1 DEF Lugar
    <3>2. \A t \in Sessions, i \in Cobrancas :
            ses'[t].mapa[i].order # None => f[ses'[t].mapa[i].order] = i
      <4> SUFFICES ASSUME NEW t \in Sessions, NEW i \in Cobrancas,
                          ses'[t].mapa[i].order # None
                   PROVE  f[ses'[t].mapa[i].order] = i
        OBVIOUS
      <4>1. CASE t = s
        BY <2>1, <2>2, <4>1 DEF Lugar, NoRow
      <4>2. CASE t # s
        BY <2>1, <2>2, <4>2 DEF Lugar
      <4> QED
        BY <4>1, <4>2
    <3>3. \A t \in Sessions : Propria(ses'[t]) => f[ses'[t].charge] = None
      BY <2>1, <2>2 DEF Lugar
    <3>4. \A t, u \in Sessions :
            Propria(ses'[t]) /\ Propria(ses'[u]) /\ ses'[t].charge = ses'[u].charge
              => t = u
      BY <2>1, <2>2, <2>3 DEF Lugar
    <3>5. \A c \in Charges : mp'[c].status = "livre" => f[c] = None
      BY <2>1 DEF Lugar, MpAnda
    <3> QED
      BY <3>1, <3>2, <3>3, <3>4, <3>5 DEF Lugar
  <2> QED
    BY <2>4 DEF Lugares
<1> QED
  BY <1>1, <1>2, <1>3, <1>4 DEF FInv, Base

(* A row gets an order it had, one the session's copy of it had, or the    *)
(* charge of the session, which goes to one row only.                      *)
Ordens(s, j) ==
  /\ Propria(ses[s]) => j \in Cobrancas \cup {None}
  /\ \A i \in Cobrancas :
       \/ cobranca'[i].order \in {None, cobranca[i].order, ses[s].mapa[i].order}
       \/ i = j /\ Propria(ses[s]) /\ cobranca'[i].order = ses[s].charge

(* A commit: the rows change, the session forgets its copies.              *)
LEMMA Grava ==
  ASSUME FInv, NEW s \in Sessions, NEW n \in Session,
         ses' = [ses EXCEPT ![s] = n],
         cobranca' \in [Cobrancas -> Cobranca],
         contrato' \in [Contratos -> Contrato],
         receitas' \in Seq(Financeiro),
         UNCHANGED <<hoje, mp>>, lock' \in {lock, Unlocking(s)},
         SesFull(n, cobranca', mp, Pago'), ~Propria(n),
         \A i \in Cobrancas : n.mapa[i] = NoRow,
         Cresce(cobranca', mp, Pago'),
         RowsFullInv',
         NEW j, Ordens(s, j)
  PROVE  TypeOK' /\ SesFullInv' /\ DebitosInv' /\ Lugares'
<1>1. ses' \in [Sessions -> Session] /\ SesFullInv'
  BY Outras
<1>2. TypeOK' /\ DebitosInv'
  BY <1>1, Fatos DEF TypeOK, Unlocking, DebitosInv, FInv, Base
<1>4. Lugares'
  <2>1. PICK f \in [Charges -> Cobrancas \cup {None}] : Lugar(f)
    BY DEF FInv, Base, Lugares
  <2>2. ses'[s] = n /\ \A t \in Sessions : t # s => ses'[t] = ses[t]
    BY Fatos
  <2>3. \A t \in Sessions : Propria(ses[t]) =>
          ses[t].charge \in Charges /\ mp[ses[t].charge].status # "livre"
    BY Fatos DEF SesFull, Cobra
  <2>4. /\ \A i \in Cobrancas : cobranca[i].order \in Charges \cup {None}
        /\ \A t \in Sessions, i \in Cobrancas :
             ses[t].mapa[i].order \in Charges \cup {None}
    <3>1. ASSUME NEW t \in Sessions PROVE ses[t].mapa \in [Cobrancas -> Cobranca]
      BY Fatos DEF Session
    <3>2. \A row \in Cobranca : row.order \in Charges \cup {None}
      BY DEF Cobranca
    <3>3. \A i \in Cobrancas : cobranca[i] \in Cobranca
      BY Fatos
    <3>4. \A t \in Sessions, i \in Cobrancas : ses[t].mapa[i] \in Cobranca
      BY <3>1
    <3> QED
      BY <3>2, <3>3, <3>4
  <2>5. CASE Propria(ses[s])
    <3> DEFINE c == ses[s].charge
    <3>0. c \in Charges /\ f[c] = None /\ mp[c].status # "livre"
      BY <2>1, <2>3, <2>5 DEF Lugar
    <3> HIDE DEF c
    <3>1. PICK g \in [Charges -> Cobrancas \cup {None}] : g = [f EXCEPT ![c] = j]
      BY <2>5 DEF Ordens
    <3>2. \A o \in Charges : f[o] # None => g[o] = f[o]
      BY <3>0, <3>1
    <3>3. g[c] = j
      BY <3>0, <3>1
    <3>4. \A i \in Cobrancas : cobranca'[i].order # None => g[cobranca'[i].order] = i
      <4> SUFFICES ASSUME NEW i \in Cobrancas, cobranca'[i].order # None
                   PROVE  g[cobranca'[i].order] = i
        OBVIOUS
      <4>0. i # None
        OBVIOUS
      <4>1. CASE cobranca'[i].order \in {cobranca[i].order, ses[s].mapa[i].order}
        <5>1. f[cobranca'[i].order] = i
          BY <2>1, <4>1 DEF Lugar
        <5>2. cobranca'[i].order \in Charges
          BY <2>4, <4>1
        <5> QED
          BY <3>2, <4>0, <5>1, <5>2
      <4>2. CASE i = j /\ cobranca'[i].order = ses[s].charge
        BY <3>3, <4>2 DEF c
      <4> QED
        BY <4>1, <4>2 DEF Ordens
    <3>5. \A t \in Sessions, i \in Cobrancas :
            ses'[t].mapa[i].order # None => g[ses'[t].mapa[i].order] = i
      <4> SUFFICES ASSUME NEW t \in Sessions, NEW i \in Cobrancas,
                          ses'[t].mapa[i].order # None
                   PROVE  g[ses'[t].mapa[i].order] = i
        OBVIOUS
      <4>0. i # None
        OBVIOUS
      <4>1. CASE t = s
        BY <2>2, <4>1 DEF NoRow
      <4>2. CASE t # s
        BY <2>1, <2>2, <2>4, <3>2, <4>0, <4>2 DEF Lugar
      <4> QED
        BY <4>1, <4>2
    <3>6. \A t \in Sessions : Propria(ses'[t]) => g[ses'[t].charge] = None
      <4> SUFFICES ASSUME NEW t \in Sessions, Propria(ses'[t])
                   PROVE  g[ses'[t].charge] = None
        OBVIOUS
      <4>1. t # s /\ ses'[t] = ses[t]
        BY <2>2
      <4>2. ses[t].charge # c /\ f[ses[t].charge] = None /\ ses[t].charge \in Charges
        BY <2>1, <2>3, <2>5, <4>1 DEF Lugar, c
      <4> QED
        BY <3>1, <4>1, <4>2
    <3>7. \A t, u \in Sessions :
            Propria(ses'[t]) /\ Propria(ses'[u]) /\ ses'[t].charge = ses'[u].charge
              => t = u
      BY <2>1, <2>2 DEF Lugar
    <3>8. \A o \in Charges : mp[o].status = "livre" => g[o] = None
      BY <2>1, <3>0, <3>1 DEF Lugar
    <3>9. Lugar(g)'
      BY <3>4, <3>5, <3>6, <3>7, <3>8 DEF Lugar
    <3> QED
      BY <3>9 DEF Lugares
  <2>6. CASE ~Propria(ses[s])
    <3>1. \A i \in Cobrancas : cobranca'[i].order # None => f[cobranca'[i].order] = i
      BY <2>1, <2>6 DEF Lugar, Ordens
    <3>2. \A t \in Sessions, i \in Cobrancas :
            ses'[t].mapa[i].order # None => f[ses'[t].mapa[i].order] = i
      BY <2>1, <2>2 DEF Lugar, NoRow
    <3>3. \A t \in Sessions : Propria(ses'[t]) => ses'[t] = ses[t]
      BY <2>2
    <3>4. \A t \in Sessions : Propria(ses'[t]) => f[ses'[t].charge] = None
      BY <2>1, <3>3 DEF Lugar
    <3>5. \A t, u \in Sessions :
            Propria(ses'[t]) /\ Propria(ses'[u]) /\ ses'[t].charge = ses'[u].charge
              => t = u
      BY <2>1, <3>3 DEF Lugar
    <3>6. Lugar(f)'
      BY <2>1, <3>1, <3>2, <3>4, <3>5 DEF Lugar
    <3> QED
      BY <3>6 DEF Lugares
  <2> QED
    BY <2>5, <2>6
<1> QED
  BY <1>1, <1>2, <1>4

-----------------------------------------------------------------------------
(* A session that ends without a write.                                    *)
LEMMA Fecha ==
  ASSUME FInv, NEW s \in Sessions, Close(s),
         UNCHANGED <<hoje, contrato, cobranca, receitas>>, MpAnda
  PROVE  FInv'
<1>1. lock' \in [Cobrancas -> Sessions \cup {None}]
  BY Fatos DEF Close, Unlocking
<1>2. \A i \in Cobrancas : Livre.mapa[i] = NoRow
  BY DEF Livre
<1> QED
  BY <1>1, <1>2, LivreOK, LivreFull, Passa DEF Close

(* The copies a SELECT leaves: those the session had, and of the selected  *)
(* rows it had no copy of, what is stored.                                 *)
LEMMA Copias ==
  ASSUME FInv, NEW s \in Sessions, NEW rows \in SUBSET Cobrancas,
         NEW m, m = Holding(s, rows)
  PROVE  /\ m \in [Cobrancas -> Cobranca]
         /\ Mapa(m, cobranca, mp)
         /\ \A i \in Cobrancas : m[i] \in {NoRow, cobranca[i], ses[s].mapa[i]}
         /\ \A i \in rows : m[i] = View(s, i)
         /\ \A i \in Cobrancas : ses[s].mapa[i] # NoRow => m[i] = ses[s].mapa[i]
<1>1. \A i \in Cobrancas : m[i] = IF i \in rows THEN View(s, i) ELSE ses[s].mapa[i]
  BY DEF Holding
<1>2. \A i \in Cobrancas : View(s, i) \in {cobranca[i], ses[s].mapa[i]}
  BY DEF View
<1>3. Mapa(ses[s].mapa, cobranca, mp)
  BY Fatos DEF SesFull
<1>4. \A i \in Cobrancas :
        RowFull(cobranca[i], mp) /\ (cobranca[i].status = "ausente" => cobranca[i] = NoRow)
  BY Fatos DEF RowFull, RowOK
<1>5. Mapa(m, cobranca, mp)
  BY <1>1, <1>2, <1>3, <1>4 DEF Mapa
<1>6. m \in [Cobrancas -> Cobranca]
  <2>1. ses[s].mapa \in [Cobrancas -> Cobranca] /\ cobranca \in [Cobrancas -> Cobranca]
    BY Fatos DEF Session
  <2> QED
    BY <2>1 DEF Holding, View
<1> QED
  BY <1>1, <1>2, <1>5, <1>6 DEF View

(* A notification arrives.                                                 *)
LEMMA ReceiveFull ==
  ASSUME FInv, NEW s \in Sessions, NEW c \in Charges,
         RecvOrder(s, c) \/ RecvPayment(s, c) \/ RecvSubscription(s, c)
  PROVE  FInv'
<1>1. ASSUME NEW via \in {"order", "payment", "subscription"},
             Receive(s, via, c),
             via = "subscription" => mp[c].tipo = "assinatura"
      PROVE  FInv'
  <2> DEFINE n == [Livre EXCEPT !.via = via, !.pc = "lock", !.charge = c,
                                !.cand = Lookup(via, c)]
  <2>1. n \in Session
    BY LivreOK, ZenonT(40) DEF Session, Vias, Lookup, WithOrder, WithPayment, Livre
  <2>2. Aprovada(c, mp)
    BY <1>1 DEF Receive, Fetched, Aprovada
  <2>3. SesFull(n, cobranca, mp, Pago)
    BY <1>1, <2>2 DEF SesFull, Livre, Mapa, Relida, Linha, Contrata, Cobra, RowFull, RowOK,
                      NoRow, Propria, Confirma, PorOrdem, Debitada
  <2>4. ~Propria(n) /\ \A i \in Cobrancas : n.mapa[i] = NoRow
    BY DEF Propria, Livre
  <2> QED
    BY <1>1, <2>1, <2>3, <2>4, Passa, Fatos, MpParado DEF Receive
<1> QED
  BY <1>1 DEF RecvOrder, RecvPayment, RecvSubscription

(* The confirmation takes its row.  If it looks for an order, its copy of  *)
(* the row carries that order: an order is in one row only.                *)
LEMMA LockCobrancaFull ==
  ASSUME FInv, NEW s \in Sessions, LockCobranca(s)
  PROVE  FInv'
<1> DEFINE found == Matching(s)
           m == Holding(s, found)
<1>1. PICK i \in found :
        ses' = [ses EXCEPT ![s].pc = "finalize", ![s].cob = i,
                           ![s].cand = {}, ![s].mapa = m]
  BY DEF LockCobranca
<1> DEFINE n == [ses[s] EXCEPT !.pc = "finalize", !.cob = i, !.cand = {}, !.mapa = m]
<1>2. /\ ses[s] \in Session /\ SesFull(ses[s], cobranca, mp, Pago)
      /\ ses[s].pc = "lock"
  BY Fatos DEF LockCobranca
<1>3. ses[s].via \in Confirma /\ Aprovada(ses[s].charge, mp)
  BY <1>2 DEF SesFull, Cobra, Session, Vias, Confirma, Linha
<1>4. /\ found \in SUBSET Cobrancas /\ i \in Cobrancas
      /\ \/ PorOrdem(ses[s], mp) /\ cobranca[i].order = ses[s].charge
         \/ ~PorOrdem(ses[s], mp) /\ cobranca[i].payment = ses[s].charge
  BY <1>2 DEF Matching, Lookup, ByOrder, PorOrdem, WithOrder, WithPayment
<1>5. /\ UNCHANGED <<hoje, contrato, cobranca, receitas, mp>>
      /\ ses' = [ses EXCEPT ![s] = n]
      /\ lock' \in [Cobrancas -> Sessions \cup {None}]
  BY <1>1, Fatos DEF LockCobranca, Locking
<1> HIDE DEF found, m
<1>6. /\ m \in [Cobrancas -> Cobranca] /\ Mapa(m, cobranca, mp)
      /\ \A j \in Cobrancas : m[j] \in {NoRow, cobranca[j], ses[s].mapa[j]}
      /\ m[i] = View(s, i)
      /\ \A j \in Cobrancas : ses[s].mapa[j] # NoRow => m[j] = ses[s].mapa[j]
  BY <1>1, <1>4, Copias DEF m
<1>7. n \in Session /\ n.mapa = m
  BY <1>2, <1>4, <1>6 DEF Session
<1>8. cobranca[i] # NoRow /\ m[i] # NoRow
  BY <1>3, <1>4, <1>6 DEF NoRow, Aprovada, View
<1>9. PorOrdem(ses[s], mp) => m[i].order = ses[s].charge
  <2> SUFFICES ASSUME PorOrdem(ses[s], mp) PROVE m[i].order = ses[s].charge
    OBVIOUS
  <2>1. PICK f \in [Charges -> Cobrancas \cup {None}] : Lugar(f)
    BY DEF FInv, Base, Lugares
  <2>2. f[ses[s].charge] = i /\ ses[s].charge # None
    BY <1>3, <1>4, <2>1 DEF Lugar, Aprovada
  <2>3. CASE ses[s].mapa[i] = NoRow
    BY <1>4, <1>6, <2>3 DEF View
  <2>4. CASE ses[s].mapa[i] # NoRow
    <3>1. ses[s].via = "reconcile"
      BY <1>2, <1>3, <2>4, <1>4 DEF SesFull, Cobra, Confirma
    <3>2. PICK j \in Cobrancas : ses[s].mapa[j].order = ses[s].charge
      BY <1>2, <3>1 DEF SesFull, Cobra
    <3>3. j = i
      BY <2>1, <2>2, <3>2 DEF Lugar
    <3> QED
      BY <1>6, <2>4, <3>2, <3>3
  <2> QED
    BY <2>3, <2>4
<1>10. SesFull(n, cobranca, mp, Pago) /\ ~Propria(n)
  BY <1>2, <1>3, <1>4, <1>6, <1>7, <1>8, <1>9
     DEF SesFull, Relida, Linha, Contrata, Cobra, Propria, Confirma, PorOrdem
<1> HIDE DEF n
<1> QED
  BY <1>5, <1>6, <1>7, <1>10, Passa, MpParado

(* A session at rest, or one that goes on without a charge of its own, and *)
(* leaves its copies as they are.                                          *)
LEMMA Anda ==
  ASSUME FInv, NEW s \in Sessions, NEW n \in Session,
         ses' = [ses EXCEPT ![s] = n],
         UNCHANGED <<hoje, contrato, cobranca, receitas, mp, lock>>,
         SesFull(n, cobranca, mp, Pago), ~Propria(n),
         n.mapa = ses[s].mapa \/ n.mapa = Livre.mapa
  PROVE  FInv'
<1>1. \A i \in Cobrancas : n.mapa[i] \in {NoRow, cobranca[i], ses[s].mapa[i]}
  BY DEF Livre
<1> QED
  BY <1>1, Passa, MpParado, Fatos

(* The contract as stored is no further than its receipts.                 *)
LEMMA Carrega ==
  ASSUME FInv, NEW k \in Contratos
  PROVE  /\ contrato[k] \in Contrato /\ contrato[k].proximo_vencimento <= Pago[k]
         /\ Atraso(contrato[k].proximo_vencimento, hoje) \in Nat
         /\ OpenOf(k) \in SUBSET Cobrancas
<1>1. contrato[k] \in Contrato /\ hoje \in Nat /\ receitas \in Seq(Financeiro)
  BY DEF FInv, Base, TypeOK
<1>2. Pago[k] = Ciclo + Receitas(k) * Ciclo
  BY <1>1, PagoNat
<1>3. contrato[k].proximo_vencimento <= Ciclo + Receitas(k) * Ciclo
  BY DEF FInv, VencimentoPago
<1>4. contrato[k].proximo_vencimento \in Nat
  BY <1>1 DEF Contrato
<1> QED
  BY <1>1, <1>2, <1>3, <1>4 DEF Atraso, OpenOf

(* Nothing matched, a code reused, an error: the session ends.  A charge   *)
(* already received ends a request; the batch goes on to its next row.     *)
LEMMA FimFull ==
  ASSUME FInv, NEW s \in Sessions,
         \/ NotFound(s) \/ AlreadyReceived(s) \/ ReusePix(s) \/ Abort(s)
         \/ EndReconcile(s)
  PROVE  FInv'
<1>1. CASE AlreadyReceived(s) /\ ses[s].via = "reconcile"
  <2> DEFINE n == [ses[s] EXCEPT !.pc = "scan", !.cob = None, !.charge = None]
  <2>1. ses[s] \in Session /\ SesFull(ses[s], cobranca, mp, Pago)
    BY Fatos
  <2>2. ses' = [ses EXCEPT ![s] = n] /\ n \in Session
    <3>1. n \in Session
      BY <2>1 DEF Session
    <3>2. ses' = [ses EXCEPT ![s] = n]
      BY <1>1, Fatos DEF AlreadyReceived
    <3> QED
      BY <3>1, <3>2
  <2>3. SesFull(n, cobranca, mp, Pago) /\ ~Propria(n)
    BY <1>1, <2>1 DEF SesFull, Relida, Linha, Contrata, Cobra, Propria, Confirma
  <2> QED
    BY <1>1, <2>1, <2>2, <2>3, Anda DEF AlreadyReceived, Session
<1>2. CASE ~(AlreadyReceived(s) /\ ses[s].via = "reconcile")
  BY <1>2, Fecha, MpParado
     DEF NotFound, AlreadyReceived, ReusePix, Abort, EndReconcile
<1> QED
  BY <1>1, <1>2

(* Cancelling an order leaves what is approved.                            *)
LEMMA CancelaOrdem ==
  ASSUME FInv, NEW c \in Charges, CancelOrder(c)
  PROVE  MpAnda
<1>1. mp \in [Charges -> Charge] /\ DebitosInv
  BY DEF FInv, Base, TypeOK
<1> QED
  BY <1>1 DEF CancelOrder, Unpaid, MpAnda, DebitosInv, Charge

LEMMA CancelSupersededFull ==
  ASSUME FInv, NEW s \in Sessions, CancelSuperseded(s)
  PROVE  FInv'
<1>1. ses[s].antigo \in Charges
  BY Fatos DEF CancelSuperseded, SesFull, Cobra
<1> QED
  BY <1>1, CancelaOrdem, Fecha DEF CancelSuperseded

(* A subscription payment no row carries yet: the contract is read.        *)
LEMMA SubscriptionContractFull ==
  ASSUME FInv, NEW s \in Sessions, SubscriptionContract(s)
  PROVE  FInv'
<1> DEFINE k == mp[ses[s].charge].contrato
           v == Atraso(contrato[k].proximo_vencimento, hoje)
           n == [ses[s] EXCEPT !.pc = "lock_open", !.ct = k,
                   !.ctrow = contrato[k], !.valor = v, !.cand = OpenOf(k)]
<1>1. /\ ses[s] \in Session /\ SesFull(ses[s], cobranca, mp, Pago)
      /\ At(s, "subscription", "lock")
  BY Fatos DEF SubscriptionContract
<1>2. k \in Contratos
  BY <1>1 DEF SesFull, Cobra, At, Debitada, Aprovada, FInv, Base, DebitosInv
<1>3. ses' = [ses EXCEPT ![s] = n]
  BY Fatos DEF SubscriptionContract
<1> HIDE DEF k
<1>4. /\ contrato[k] \in Contrato /\ v \in Nat /\ OpenOf(k) \in SUBSET Cobrancas
      /\ contrato[k].proximo_vencimento <= Pago[k]
  BY <1>2, Carrega
<1> HIDE DEF v
<1>5. n \in Session /\ n.mapa = ses[s].mapa
  BY <1>1, <1>2, <1>4 DEF Session
<1>6. SesFull(n, cobranca, mp, Pago) /\ ~Propria(n)
  BY <1>1, <1>2, <1>4 DEF SesFull, Relida, Linha, Contrata, Cobra, Propria, Confirma, At,
                          PorOrdem, Session
<1> HIDE DEF n
<1> QED
  BY <1>3, <1>5, <1>6, Anda DEF SubscriptionContract

(* The open charge it found: its copy is what is stored.                   *)
LEMMA SubscriptionOpenFull ==
  ASSUME FInv, NEW s \in Sessions, SubscriptionOpen(s)
  PROVE  FInv'
<1> DEFINE found == StillOpen(s)
           m == Holding(s, found)
<1>1. PICK i \in found :
        ses' = [ses EXCEPT ![s].pc = "commit", ![s].cob = i,
                           ![s].cand = {}, ![s].mapa = m]
  BY DEF SubscriptionOpen
<1> DEFINE n == [ses[s] EXCEPT !.pc = "commit", !.cob = i, !.cand = {}, !.mapa = m]
<1>2. /\ ses[s] \in Session /\ SesFull(ses[s], cobranca, mp, Pago)
      /\ At(s, "subscription", "lock_open")
  BY Fatos DEF SubscriptionOpen
<1>3. /\ found \in SUBSET Cobrancas /\ i \in Cobrancas
      /\ cobranca[i].contrato = ses[s].ct /\ IsOpen(cobranca[i])
  BY <1>2 DEF StillOpen, OpenOf
<1>4. /\ UNCHANGED <<hoje, contrato, cobranca, receitas, mp>>
      /\ ses' = [ses EXCEPT ![s] = n]
      /\ lock' \in [Cobrancas -> Sessions \cup {None}]
  BY <1>1, Fatos DEF SubscriptionOpen, Locking
<1> HIDE DEF found, m
<1>5. /\ m \in [Cobrancas -> Cobranca] /\ Mapa(m, cobranca, mp)
      /\ \A j \in Cobrancas : m[j] \in {NoRow, cobranca[j], ses[s].mapa[j]}
      /\ m[i] = View(s, i)
  BY <1>1, <1>3, Copias DEF m
<1>6. m[i] = cobranca[i]
  BY <1>2, <1>3, <1>5 DEF SesFull, Cobra, At, View
<1>7. m[i] # NoRow
  BY <1>3, <1>6 DEF NoRow, IsOpen, OPEN_COBRANCA_STATUSES
<1>8. n \in Session /\ n.mapa = m
  BY <1>2, <1>3, <1>5 DEF Session
<1>9. SesFull(n, cobranca, mp, Pago) /\ ~Propria(n)
  BY <1>2, <1>3, <1>5, <1>6, <1>7, <1>8
     DEF SesFull, Relida, Linha, Contrata, Cobra, Propria, Confirma, PorOrdem, At
<1> HIDE DEF n
<1> QED
  BY <1>4, <1>5, <1>8, <1>9, Passa, MpParado

(* _finalize_payment passes its guard and reads the contract of the row.   *)
LEMMA LoadContratoFull ==
  ASSUME FInv, NEW s \in Sessions, LoadContrato(s)
  PROVE  FInv'
<1> DEFINE row == ses[s].mapa[ses[s].cob]
           k == row.contrato
           n == [ses[s] EXCEPT !.pc = "commit", !.ct = k, !.ctrow = contrato[k]]
<1>1. /\ ses[s] \in Session /\ SesFull(ses[s], cobranca, mp, Pago)
      /\ ses[s].pc = "finalize"
  BY Fatos DEF LoadContrato
<1>2. ses[s].cob \in Cobrancas /\ row # NoRow /\ RowOK(row)
  BY <1>1 DEF SesFull, Linha, Mapa, RowFull
<1>3. k \in Contratos /\ ses[s].via \in Confirma
  BY <1>1, <1>2 DEF RowOK, SesFull, Cobra, Linha, Confirma, Session, Vias
<1>4. ses' = [ses EXCEPT ![s] = n]
  BY Fatos DEF LoadContrato
<1> HIDE DEF k
<1>5. contrato[k] \in Contrato /\ contrato[k].proximo_vencimento <= Pago[k]
  BY <1>3, Carrega
<1>6. n \in Session /\ n.mapa = ses[s].mapa
  BY <1>1, <1>3, <1>5 DEF Session
<1>7. SesFull(n, cobranca, mp, Pago) /\ ~Propria(n)
  <2>1. /\ n.pc = "commit" /\ n.ct = k /\ n.ctrow = contrato[k]
        /\ n.via = ses[s].via /\ n.charge = ses[s].charge /\ n.cob = ses[s].cob
    BY <1>1 DEF Session
  <2>2. n.mapa[n.cob] = row /\ row.contrato = k
    BY <1>6, <2>1 DEF k
  <2> HIDE DEF n, row
  <2>3. Mapa(n.mapa, cobranca, mp)
    BY <1>1, <1>6 DEF SesFull
  <2>4. Linha(n) /\ Contrata(n, Pago)
    BY <1>2, <1>3, <1>5, <2>1, <2>2 DEF Linha, Contrata, Confirma
  <2>5. ~Propria(n)
    BY <1>3, <2>1 DEF Propria, Confirma
  <2>6. Cobra(n, mp)
    BY <1>1, <1>3, <1>6, <2>1, <2>5 DEF SesFull, Cobra, Confirma, PorOrdem
  <2> QED
    BY <2>1, <2>3, <2>4, <2>5, <2>6 DEF SesFull, Relida
<1> HIDE DEF n
<1> QED
  BY <1>4, <1>6, <1>7, Anda DEF LoadContrato

(* A request for a PIX starts, from the contract or from an open charge.   *)
LEMMA StartCreatePixFull ==
  ASSUME FInv, NEW s \in Sessions, NEW k \in Contratos, StartCreatePix(s, k)
  PROVE  FInv'
<1> DEFINE v == Atraso(contrato[k].proximo_vencimento, hoje)
           n == [Livre EXCEPT !.via = "create_pix", !.pc = "lock_open",
                     !.ct = k, !.ctrow = contrato[k], !.valor = v,
                     !.cand = OpenOf(k)]
<1>1. /\ contrato[k] \in Contrato /\ v \in Nat /\ OpenOf(k) \in SUBSET Cobrancas
      /\ contrato[k].proximo_vencimento <= Pago[k]
  BY Carrega
<1>2. ses' = [ses EXCEPT ![s] = n]
  BY DEF StartCreatePix
<1> HIDE DEF v
<1>3. n \in Session /\ n.mapa = Livre.mapa
  BY <1>1, LivreOK DEF Session, Vias, Livre
<1>4. SesFull(n, cobranca, mp, Pago) /\ ~Propria(n)
  BY <1>1 DEF SesFull, Livre, Mapa, Relida, Linha, Contrata, Cobra, RowFull, RowOK, NoRow,
              Propria, Confirma, PorOrdem
<1> HIDE DEF n
<1> QED
  BY <1>2, <1>3, <1>4, Anda DEF StartCreatePix

(* The copies of a session that has read one row.                          *)
LEMMA UmaCopia ==
  ASSUME FInv, NEW i \in Cobrancas, IsOpen(cobranca[i]),
         NEW m, m = [Livre.mapa EXCEPT ![i] = cobranca[i]]
  PROVE  /\ m \in [Cobrancas -> Cobranca]
         /\ Mapa(m, cobranca, mp)
         /\ \A j \in Cobrancas : m[j] \in {NoRow, cobranca[j]}
         /\ m[i] = cobranca[i] /\ m[i] # NoRow
         /\ cobranca[i].contrato \in Contratos
         /\ \A dia \in Nat : Atraso(cobranca[i].vencimento, dia) \in Nat
         /\ cobranca[i].order \in Charges \cup {None}
<1>1. /\ RowFull(cobranca[i], mp) /\ cobranca[i] \in Cobranca
      /\ cobranca \in [Cobrancas -> Cobranca]
  BY DEF FInv, Base, TypeOK, RowsFullInv
<1>2. cobranca[i] # NoRow /\ cobranca[i].contrato \in Contratos
      /\ cobranca[i].status # "ausente"
  BY <1>1 DEF RowFull, RowOK, IsOpen, OPEN_COBRANCA_STATUSES, NoRow
<1>3. /\ m \in [Cobrancas -> Cobranca] /\ m[i] = cobranca[i]
      /\ \A j \in Cobrancas : j # i => m[j] = NoRow
  BY <1>1, LivreOK DEF Livre
<1>4. Mapa(m, cobranca, mp)
  BY <1>1, <1>2, <1>3 DEF Mapa, RowFull, RowOK, NoRow
<1>5. /\ cobranca[i].order \in Charges \cup {None}
      /\ \A dia \in Nat : Atraso(cobranca[i].vencimento, dia) \in Nat
  BY <1>1 DEF Cobranca, Atraso
<1> QED
  BY <1>2, <1>3, <1>4, <1>5

LEMMA StartEnsurePixFull ==
  ASSUME FInv, NEW s \in Sessions, NEW i \in Cobrancas, StartEnsurePix(s, i)
  PROVE  FInv'
<1> DEFINE k == cobranca[i].contrato
           v == Atraso(cobranca[i].vencimento, hoje)
           o == cobranca[i].order
           m == [Livre.mapa EXCEPT ![i] = cobranca[i]]
           n == [Livre EXCEPT !.via = "ensure_pix", !.pc = "create", !.cob = i,
                     !.ct = k, !.ctrow = contrato[k], !.valor = v, !.antigo = o,
                     !.mapa = m]
<1>1. ses' = [ses EXCEPT ![s] = n] /\ IsOpen(cobranca[i])
  BY DEF StartEnsurePix
<1>2. /\ m \in [Cobrancas -> Cobranca] /\ Mapa(m, cobranca, mp)
      /\ \A j \in Cobrancas : m[j] \in {NoRow, cobranca[j]}
      /\ m[i] = cobranca[i] /\ m[i] # NoRow
      /\ k \in Contratos /\ o \in Charges \cup {None} /\ v \in Nat
  BY <1>1, Fatos, UmaCopia
<1> HIDE DEF m, v, o
<1>3. contrato[k] \in Contrato /\ contrato[k].proximo_vencimento <= Pago[k]
  BY <1>2, Carrega
<1>4. n \in Session /\ n.mapa = m
  <2> HIDE DEF k
  <2> QED
    BY <1>2, <1>3, LivreOK DEF Session, Vias, Livre
<1>5. SesFull(n, cobranca, mp, Pago) /\ ~Propria(n)
  BY <1>1, <1>2, <1>3, <1>4
     DEF SesFull, Livre, Relida, Linha, Contrata, Cobra, Propria, Confirma, PorOrdem
<1> HIDE DEF n
<1> QED
  BY <1>1, <1>2, <1>4, <1>5, Passa, MpParado, Fatos DEF StartEnsurePix

(* create_pix found an open charge to reissue.                             *)
LEMMA LockOpenFull ==
  ASSUME FInv, NEW s \in Sessions, LockOpen(s)
  PROVE  FInv'
<1> DEFINE found == OpenNow(s)
           m == Holding(s, found)
<1>1. PICK i \in Cobrancas :
        /\ OpenLocked(s, i)
        /\ ses' = [ses EXCEPT ![s].pc = "create", ![s].cob = i, ![s].cand = {},
                              ![s].antigo = cobranca[i].order, ![s].mapa = m]
  BY DEF LockOpen
<1> DEFINE o == cobranca[i].order
           n == [ses[s] EXCEPT !.pc = "create", !.cob = i, !.cand = {},
                   !.antigo = o, !.mapa = m]
<1>2. /\ ses[s] \in Session /\ SesFull(ses[s], cobranca, mp, Pago)
      /\ At(s, "create_pix", "lock_open")
  BY <1>1, Fatos DEF OpenLocked
<1>3. /\ found \in SUBSET Cobrancas /\ i \in found
      /\ cobranca[i].contrato = ses[s].ct /\ IsOpen(cobranca[i])
  BY <1>1, <1>2 DEF OpenLocked, Last, OpenNow, OpenOf
<1>4. /\ UNCHANGED <<hoje, contrato, cobranca, receitas, mp>>
      /\ ses' = [ses EXCEPT ![s] = n]
      /\ lock' \in [Cobrancas -> Sessions \cup {None}]
  BY <1>1, Fatos DEF LockOpen, Locking
<1>5. o \in Charges \cup {None}
  BY <1>1, Fatos DEF Cobranca
<1> HIDE DEF found, m, o
<1>6. /\ m \in [Cobrancas -> Cobranca] /\ Mapa(m, cobranca, mp)
      /\ \A j \in Cobrancas : m[j] \in {NoRow, cobranca[j], ses[s].mapa[j]}
      /\ m[i] = View(s, i)
  BY <1>3, Copias DEF m
<1>7. m[i] = cobranca[i]
  BY <1>2, <1>3, <1>6 DEF SesFull, Cobra, At, View
<1>8. m[i] # NoRow
  BY <1>3, <1>7 DEF NoRow, IsOpen, OPEN_COBRANCA_STATUSES
<1>9. n \in Session /\ n.mapa = m
  BY <1>2, <1>5, <1>6 DEF Session
<1>10. SesFull(n, cobranca, mp, Pago) /\ ~Propria(n)
  BY <1>2, <1>3, <1>6, <1>7, <1>8, <1>9
     DEF SesFull, Relida, Linha, Contrata, Cobra, Propria, Confirma, PorOrdem, At
<1> HIDE DEF n
<1> QED
  BY <1>4, <1>6, <1>9, <1>10, Passa, MpParado

LEMMA NoneOpenFull ==
  ASSUME FInv, NEW s \in Sessions, NoneOpen(s)
  PROVE  FInv'
<1> DEFINE n == [ses[s] EXCEPT !.pc = "create", !.cand = {}]
<1>1. /\ ses[s] \in Session /\ SesFull(ses[s], cobranca, mp, Pago)
      /\ At(s, "create_pix", "lock_open")
  BY Fatos DEF NoneOpen
<1>2. ses' = [ses EXCEPT ![s] = n] /\ n \in Session /\ n.mapa = ses[s].mapa
  BY <1>1, Fatos DEF NoneOpen, Session
<1>3. SesFull(n, cobranca, mp, Pago) /\ ~Propria(n)
  BY <1>1 DEF SesFull, Relida, Linha, Contrata, Cobra, Propria, Confirma, PorOrdem, At, Session
<1> QED
  BY <1>2, <1>3, Anda DEF NoneOpen

(* A new order or a new card charge: nobody has its id yet.                *)
LEMMA CobraNova ==
  ASSUME FInv, NEW c \in Charges, mp[c].status = "livre",
         NEW r \in Charge, r.status # "livre", r.tipo = "order",
         mp' = [mp EXCEPT ![c] = r]
  PROVE  /\ MpAnda
         /\ mp'[c] = r
         /\ \A s \in Sessions : SesFull(ses[s], cobranca, mp', Pago)
<1>1. mp \in [Charges -> Charge] /\ DebitosInv
  BY DEF FInv, Base, TypeOK
<1>2. MpAnda /\ mp'[c] = r
  BY <1>1 DEF MpAnda, DebitosInv
<1>3. receitas \in Seq(Financeiro)
  BY DEF FInv, Base, TypeOK
<1>4. Cresce(cobranca, mp', Pago)
  BY <1>2, <1>3, PagoNat DEF Cresce, MpAnda
<1>5. ASSUME NEW s \in Sessions PROVE SesFull(ses[s], cobranca, mp', Pago)
  BY <1>4, Fatos, Segue
<1> QED
  BY <1>2, <1>5

LEMMA CreateOrderFull ==
  ASSUME FInv, NEW s \in Sessions, CreateOrder(s)
  PROVE  FInv'
<1>1. PICK c \in Charges :
        /\ NewOrder(c, ses[s].ct)
        /\ ses' = [ses EXCEPT ![s].pc = "apply", ![s].charge = c]
  BY DEF CreateOrder
<1> DEFINE n == [ses[s] EXCEPT !.pc = "apply", !.charge = c]
           r == [status |-> "created", tipo |-> "order", contrato |-> ses[s].ct]
<1>2. /\ ses[s] \in Session /\ SesFull(ses[s], cobranca, mp, Pago)
      /\ ses[s].pc = "create" /\ ses[s].via # "card" /\ ses[s].ct \in Contratos
  BY Fatos DEF CreateOrder, SesFull, Contrata
<1>3. r \in Charge /\ mp[c].status = "livre" /\ mp' = [mp EXCEPT ![c] = r]
  BY <1>1, <1>2 DEF NewOrder, Charge
<1>4. MpAnda /\ mp'[c] = r /\ SesFull(ses[s], cobranca, mp', Pago)
  <2> HIDE DEF r
  <2>1. r.status # "livre" /\ r.tipo = "order"
    BY DEF r
  <2> QED
    BY <1>3, <2>1, CobraNova
<1>5. ses' = [ses EXCEPT ![s] = n] /\ n \in Session /\ n.mapa = ses[s].mapa
  <2>1. n \in Session /\ n.mapa = ses[s].mapa
    BY <1>2 DEF Session
  <2>2. ses' = [ses EXCEPT ![s] = n]
    BY <1>1, Fatos
  <2> QED
    BY <2>1, <2>2
<1>6. SesFull(n, cobranca, mp', Pago)
  BY <1>2, <1>4, <1>5 DEF SesFull, Relida, Linha, Contrata, Cobra, Propria, Confirma, PorOrdem
<1> HIDE DEF n
<1>7. n.charge = c
  BY <1>2 DEF Session, n
<1> QED
  BY <1>3, <1>4, <1>5, <1>6, <1>7, Passa, Fatos DEF CreateOrder

LEMMA StartCardFull ==
  ASSUME FInv, NEW s \in Sessions, NEW i \in Cobrancas, StartCard(s, i)
  PROVE  FInv'
<1> DEFINE k == cobranca[i].contrato
           v == Atraso(cobranca[i].vencimento, hoje)
           m == [Livre.mapa EXCEPT ![i] = cobranca[i]]
           n == [Livre EXCEPT !.via = "card", !.pc = "create", !.cob = i,
                     !.ct = k, !.ctrow = contrato[k], !.valor = v, !.mapa = m]
<1>1. ses' = [ses EXCEPT ![s] = n] /\ IsOpen(cobranca[i])
  BY DEF StartCard
<1>2. /\ m \in [Cobrancas -> Cobranca] /\ Mapa(m, cobranca, mp)
      /\ \A j \in Cobrancas : m[j] \in {NoRow, cobranca[j]}
      /\ m[i] = cobranca[i] /\ m[i] # NoRow
      /\ k \in Contratos /\ v \in Nat
  BY <1>1, Fatos, UmaCopia
<1> HIDE DEF m, v
<1>3. contrato[k] \in Contrato /\ contrato[k].proximo_vencimento <= Pago[k]
  BY <1>2, Carrega
<1>4. n \in Session /\ n.mapa = m
  <2> HIDE DEF k
  <2> QED
    BY <1>2, <1>3, LivreOK DEF Session, Vias, Livre
<1>5. SesFull(n, cobranca, mp, Pago) /\ ~Propria(n)
  BY <1>1, <1>2, <1>3, <1>4
     DEF SesFull, Livre, Relida, Linha, Contrata, Cobra, Propria, Confirma, PorOrdem
<1> HIDE DEF n
<1> QED
  BY <1>1, <1>2, <1>4, <1>5, Passa, MpParado, Fatos DEF StartCard

(* The answer of Mercado Pago to a card.                                   *)
LEMMA CobraCartao ==
  ASSUME FInv, NEW s \in Sessions, NEW c \in Charges,
         NEW answer \in {"approved", "pending"}, ses[s].ct \in Contratos,
         NewCardOrder(c, ses[s].ct, answer)
  PROVE  /\ MpAnda /\ SesFull(ses[s], cobranca, mp', Pago)
         /\ mp[c].status = "livre"
         /\ mp'[c].status = answer /\ mp'[c].tipo = "order"
         /\ AfterCard(answer) \in {"commit", "apply"}
         /\ AfterCard(answer) = "commit" => answer = "approved"
<1> DEFINE r == [status |-> answer, tipo |-> "order", contrato |-> ses[s].ct]
<1>1. /\ r \in Charge /\ r.status = answer /\ r.tipo = "order"
      /\ r.status # "livre"
  BY DEF Charge
<1>2. mp[c].status = "livre" /\ mp' = [mp EXCEPT ![c] = r]
  BY DEF NewCardOrder
<1> HIDE DEF r
<1>3. MpAnda /\ mp'[c] = r /\ SesFull(ses[s], cobranca, mp', Pago)
  BY <1>1, <1>2, CobraNova
<1> QED
  BY <1>1, <1>2, <1>3 DEF AfterCard

LEMMA ChargeCardFull ==
  ASSUME FInv, NEW s \in Sessions, ChargeCard(s)
  PROVE  FInv'
<1>1. PICK c \in Charges, answer \in {"approved", "pending"} :
       /\ NewCardOrder(c, ses[s].ct, answer)
       /\ ses' = [ses EXCEPT ![s].charge = c, ![s].pc = AfterCard(answer)]
  BY DEF ChargeCard
<1> DEFINE pc == AfterCard(answer)
           n == [ses[s] EXCEPT !.charge = c, !.pc = pc]
<1>2. /\ ses[s] \in Session /\ SesFull(ses[s], cobranca, mp, Pago)
      /\ At(s, "card", "create") /\ ses[s].ct \in Contratos
  BY Fatos DEF ChargeCard, SesFull, Contrata, At
<1>3. /\ MpAnda /\ SesFull(ses[s], cobranca, mp', Pago)
      /\ mp[c].status = "livre"
      /\ mp'[c].status = answer /\ mp'[c].tipo = "order"
      /\ pc \in {"commit", "apply"} /\ (pc = "commit" => answer = "approved")
  BY <1>1, <1>2, CobraCartao
<1>4. ses' = [ses EXCEPT ![s] = n]
  BY <1>1, Fatos
<1> HIDE DEF pc
<1>5. n \in Session /\ n.mapa = ses[s].mapa /\ n.charge = c
  BY <1>2, <1>3 DEF Session
<1>6. SesFull(n, cobranca, mp', Pago)
  BY <1>2, <1>3, <1>5 DEF SesFull, Relida, Linha, Contrata, Cobra, Propria, Confirma,
      PorOrdem, At, Aprovada
<1> HIDE DEF n
<1> QED
  BY <1>3, <1>4, <1>5, <1>6, Passa, Fatos DEF ChargeCard

(* A batch reads the open charges that carry an order.                     *)
LEMMA StartBatchFull ==
  ASSUME FInv, NEW s \in Sessions, NEW via \in {"reconcile", "expired"},
         StartBatch(s, via)
  PROVE  FInv'
<1> DEFINE m == [i \in Cobrancas |->
                   IF i \in OpenWithOrder THEN cobranca[i] ELSE NoRow]
           n == [Livre EXCEPT !.via = via, !.pc = "scan", !.pend = OpenWithOrder,
                              !.mapa = m]
<1>1. ses' = [ses EXCEPT ![s] = n]
  BY DEF StartBatch
<1>2. OpenWithOrder \in SUBSET Cobrancas
  BY DEF OpenWithOrder
<1>3. /\ m \in [Cobrancas -> Cobranca]
      /\ \A i \in Cobrancas : m[i] \in {NoRow, cobranca[i]}
      /\ \A i \in OpenWithOrder : IsOpen(m[i]) /\ m[i].order # None
  <2>1. \A i \in Cobrancas : cobranca[i] \in Cobranca /\ NoRow \in Cobranca
    BY Fatos, LivreOK
  <2> QED
    BY <1>2, <2>1 DEF OpenWithOrder
<1>4. Mapa(m, cobranca, mp)
  <2>1. \A i \in Cobrancas : RowFull(cobranca[i], mp)
    BY Fatos
  <2>2. RowFull(NoRow, mp)
    BY DEF RowFull, RowOK, NoRow
  <2>3. \A i \in Cobrancas : cobranca[i] # NoRow => cobranca[i].status # "ausente"
    BY <2>1 DEF RowFull, RowOK
  <2> QED
    BY <1>3, <2>1, <2>2, <2>3 DEF Mapa
<1> HIDE DEF m
<1>5. n \in Session /\ n.mapa = m
  BY <1>2, <1>3, LivreOK DEF Session, Vias, Livre
<1>6. SesFull(n, cobranca, mp, Pago) /\ ~Propria(n)
  BY <1>3, <1>4, <1>5
     DEF SesFull, Livre, Relida, Linha, Contrata, Cobra, Propria, Confirma, PorOrdem
<1> HIDE DEF n
<1> QED
  BY <1>1, <1>3, <1>5, <1>6, Passa, MpParado, Fatos DEF StartBatch

LEMMA SkipUnpaidFull ==
  ASSUME FInv, NEW s \in Sessions, SkipUnpaid(s)
  PROVE  FInv'
<1>1. PICK i \in Cobrancas :
        /\ Visiting(s, i)
        /\ ses' = [ses EXCEPT ![s].pend = @ \ {i}, ![s].mapa = Holding(s, {i})]
  BY DEF SkipUnpaid
<1> DEFINE m == Holding(s, {i})
           n == [ses[s] EXCEPT !.pend = @ \ {i}, !.mapa = m]
<1>2. /\ ses[s] \in Session /\ SesFull(ses[s], cobranca, mp, Pago)
      /\ At(s, "reconcile", "scan")
  BY <1>1, Fatos DEF SkipUnpaid, Visiting, At
<1>3. ses' = [ses EXCEPT ![s] = n]
  BY <1>1, Fatos
<1>4. /\ m \in [Cobrancas -> Cobranca] /\ Mapa(m, cobranca, mp)
      /\ \A j \in Cobrancas : m[j] \in {NoRow, cobranca[j], ses[s].mapa[j]}
  BY Copias
<1> HIDE DEF m
<1>5. n \in Session /\ n.mapa = m
  BY <1>2, <1>4 DEF Session
<1>6. SesFull(n, cobranca, mp, Pago) /\ ~Propria(n)
  BY <1>2, <1>4, <1>5 DEF SesFull, Relida, Linha, Contrata, Cobra, Propria, Confirma, PorOrdem, At
<1> HIDE DEF n
<1> QED
  BY <1>3, <1>4, <1>5, <1>6, Passa, MpParado, Fatos DEF SkipUnpaid

(* A row of the batch was paid: by its order, which the copy carries, or   *)
(* by a debit put on it.                                                   *)
LEMMA ConfirmPaidFull ==
  ASSUME FInv, NEW s \in Sessions, ConfirmPaid(s)
  PROVE  FInv'
<1>1. PICK i \in Cobrancas :
        /\ Visiting(s, i)
        /\ PaidOrder(View(s, i)) \/ PaidPayment(View(s, i))
        /\ ses' = [ses EXCEPT
            ![s].pc = "fetch", ![s].pend = @ \ {i},
            ![s].mapa = Holding(s, {i}),
            ![s].charge = IF PaidOrder(View(s, i)) THEN View(s, i).order
                          ELSE View(s, i).payment]
  BY DEF ConfirmPaid
<1> DEFINE row == View(s, i)
           c == IF PaidOrder(row) THEN row.order ELSE row.payment
           m == Holding(s, {i})
           n == [ses[s] EXCEPT !.pc = "fetch", !.pend = @ \ {i}, !.mapa = m,
                               !.charge = c]
<1>2. /\ ses[s] \in Session /\ SesFull(ses[s], cobranca, mp, Pago)
      /\ At(s, "reconcile", "scan")
  BY <1>1, Fatos DEF ConfirmPaid, Visiting, At
<1>3. ses' = [ses EXCEPT ![s] = n]
  BY <1>1, Fatos
<1>4. /\ m \in [Cobrancas -> Cobranca] /\ Mapa(m, cobranca, mp)
      /\ \A j \in Cobrancas : m[j] \in {NoRow, cobranca[j], ses[s].mapa[j]}
      /\ m[i] = row
  BY Copias
<1> HIDE DEF m, row
<1>5. row \in Cobranca /\ RowFull(row, mp)
  BY <1>4 DEF Mapa
<1>6. Aprovada(c, mp) /\ (mp[c].tipo = "order" => row.order = c)
  <2>1. CASE PaidOrder(row)
    BY <1>5, <2>1 DEF PaidOrder, Fetched, Cobranca, Aprovada
  <2>2. CASE ~PaidOrder(row)
    <3>1. PaidPayment(row)
      BY <1>1, <2>2 DEF row
    <3> QED
      BY <1>5, <2>2, <3>1
         DEF PaidOrder, PaidPayment, Fetched, Cobranca, Aprovada, RowFull, Debitada
  <2> QED
    BY <2>1, <2>2
<1> HIDE DEF c
<1>7. n \in Session /\ n.mapa = m /\ n.charge = c
  BY <1>2, <1>4, <1>6 DEF Session, Aprovada
<1>8. SesFull(n, cobranca, mp, Pago) /\ ~Propria(n)
  BY <1>2, <1>4, <1>6, <1>7
     DEF SesFull, Relida, Linha, Contrata, Cobra, Propria, Confirma, PorOrdem, At
<1> HIDE DEF n
<1> QED
  BY <1>3, <1>4, <1>7, <1>8, Passa, MpParado, Fatos DEF ConfirmPaid

(* The handler's SELECT starts, or finds nothing.                          *)
LEMMA SelectFull ==
  ASSUME FInv, NEW s \in Sessions, SelectPaid(s) \/ ReconcileNotFound(s)
  PROVE  FInv'
<1>1. ses[s] \in Session /\ SesFull(ses[s], cobranca, mp, Pago)
  BY Fatos
<1>2. CASE SelectPaid(s)
  <2> DEFINE l == Lookup("reconcile", ses[s].charge)
             n == [ses[s] EXCEPT !.pc = "lock", !.cand = l]
  <2>1. l \in SUBSET Cobrancas
    BY DEF Lookup, WithOrder, WithPayment
  <2>2. ses' = [ses EXCEPT ![s] = n]
    BY <1>2, Fatos DEF SelectPaid
  <2> HIDE DEF l
  <2>3. n \in Session /\ n.mapa = ses[s].mapa
    BY <1>1, <2>1 DEF Session
  <2>4. SesFull(n, cobranca, mp, Pago) /\ ~Propria(n)
    BY <1>1, <1>2 DEF SelectPaid, At, SesFull, Relida, Linha, Contrata, Cobra, Propria,
                      Confirma, PorOrdem
  <2> HIDE DEF n
  <2> QED
    BY <1>2, <2>2, <2>3, <2>4, Anda DEF SelectPaid
<1>3. CASE ReconcileNotFound(s)
  <2> DEFINE n == [ses[s] EXCEPT !.pc = "scan", !.cand = {}, !.charge = None]
  <2>1. ses' = [ses EXCEPT ![s] = n] /\ n \in Session /\ n.mapa = ses[s].mapa
    BY <1>1, <1>3, Fatos DEF ReconcileNotFound, Session
  <2>2. SesFull(n, cobranca, mp, Pago) /\ ~Propria(n)
    BY <1>1, <1>3 DEF ReconcileNotFound, At, SesFull, Relida, Linha, Contrata, Cobra, Propria,
                      Confirma, PorOrdem
  <2> QED
    BY <1>3, <2>1, <2>2, Anda DEF ReconcileNotFound
<1> QED
  BY <1>2, <1>3

LEMMA VisitExpiredFull ==
  ASSUME FInv, NEW s \in Sessions, VisitExpired(s)
  PROVE  FInv'
<1>1. PICK i \in Cobrancas :
        /\ Visiting(s, i)
        /\ ses' = [ses EXCEPT ![s].pend = @ \ {i}, ![s].mapa = Holding(s, {i}),
            ![s].cand = IF Dead(View(s, i).order) THEN @ \cup {i} ELSE @]
  BY DEF VisitExpired
<1> DEFINE row == View(s, i)
           m == Holding(s, {i})
           cand == IF Dead(row.order) THEN ses[s].cand \cup {i} ELSE ses[s].cand
           n == [ses[s] EXCEPT !.pend = @ \ {i}, !.mapa = m, !.cand = cand]
<1>2. /\ ses[s] \in Session /\ SesFull(ses[s], cobranca, mp, Pago)
      /\ At(s, "expired", "scan")
  BY <1>1, Fatos DEF VisitExpired, Visiting, At
<1>3. ses' = [ses EXCEPT ![s] = n]
  BY <1>1, Fatos
<1>4. /\ m \in [Cobrancas -> Cobranca] /\ Mapa(m, cobranca, mp)
      /\ \A j \in Cobrancas : m[j] \in {NoRow, cobranca[j], ses[s].mapa[j]}
      /\ m[i] = row
      /\ \A j \in Cobrancas : ses[s].mapa[j] # NoRow => m[j] = ses[s].mapa[j]
  BY Copias
<1> HIDE DEF m, row
<1>5. /\ cand \in SUBSET Cobrancas
      /\ \A j \in cand : j \in ses[s].cand \/ (j = i /\ row.order # None)
  BY <1>2 DEF Session, Dead
<1>6. \A j \in cand : m[j].order # None
  <2>1. \A j \in ses[s].cand : j \in Cobrancas /\ ses[s].mapa[j].order # None
    BY <1>2 DEF SesFull, Linha, At, Session
  <2>2. \A j \in ses[s].cand : m[j].order # None
    BY <1>4, <2>1 DEF NoRow
  <2> QED
    BY <1>4, <1>5, <2>2
<1> HIDE DEF cand
<1>7. n \in Session /\ n.mapa = m /\ n.cand = cand
  BY <1>2, <1>4, <1>5 DEF Session
<1>8. SesFull(n, cobranca, mp, Pago) /\ ~Propria(n)
  BY <1>2, <1>4, <1>6, <1>7
     DEF At, SesFull, Relida, Linha, Contrata, Cobra, Propria, Confirma, PorOrdem
<1> HIDE DEF n
<1> QED
  BY <1>3, <1>4, <1>7, <1>8, Passa, MpParado, Fatos DEF VisitExpired

-----------------------------------------------------------------------------
(* The renewal of the token, where nothing is written: the copies and the  *)
(* locks are gone, the rest of the session is what it was.                 *)
LEMMA RenovaCreatePixFull ==
  ASSUME FInv, NEW s \in Sessions, RenovaCreatePix(s)
  PROVE  FInv'
<1> DEFINE n == [ses[s] EXCEPT !.pc = "renovado", !.mapa = Livre.mapa]
<1>1. /\ ses[s] \in Session /\ SesFull(ses[s], cobranca, mp, Pago)
      /\ At(s, "create_pix", "create")
  BY Fatos DEF RenovaCreatePix
<1>2. ses' = [ses EXCEPT ![s] = n] /\ n \in Session /\ n.mapa = Livre.mapa
  BY <1>1, Fatos, LivreOK DEF RenovaCreatePix, Session
<1>3. \A i \in Cobrancas : n.mapa[i] = NoRow
  BY <1>2 DEF Livre
<1>4. Relida(n, cobranca)
  BY <1>1 DEF SesFull, Linha, Mapa, Relida, Session, At
<1>5. SesFull(n, cobranca, mp, Pago) /\ ~Propria(n)
  BY <1>1, <1>3, <1>4 DEF SesFull, Mapa, RowFull, RowOK, NoRow, Linha, Contrata,
      Cobra, Propria, Confirma, PorOrdem, At
<1>6. lock' \in [Cobrancas -> Sessions \cup {None}]
  BY Fatos DEF RenovaCreatePix, Unlocking
<1> HIDE DEF n
<1> QED
  BY <1>2, <1>3, <1>5, <1>6, Passa, MpParado DEF RenovaCreatePix

LEMMA RenovaReconcileFull ==
  ASSUME FInv, NEW s \in Sessions, RenovaReconcile(s)
  PROVE  FInv'
<1> DEFINE n == [ses[s] EXCEPT !.mapa = Livre.mapa]
<1>1. /\ ses[s] \in Session /\ SesFull(ses[s], cobranca, mp, Pago)
      /\ At(s, "reconcile", "scan")
  BY Fatos DEF RenovaReconcile
<1>2. ses' = [ses EXCEPT ![s] = n] /\ n \in Session /\ n.mapa = Livre.mapa
  BY <1>1, Fatos, LivreOK DEF RenovaReconcile, Session
<1>3. \A i \in Cobrancas : n.mapa[i] = NoRow
  BY <1>2 DEF Livre
<1>4. SesFull(n, cobranca, mp, Pago) /\ ~Propria(n)
  BY <1>1, <1>3 DEF SesFull, Mapa, RowFull, RowOK, NoRow, Relida, Linha, Contrata,
      Cobra, Propria, Confirma, PorOrdem, At
<1>5. lock' \in [Cobrancas -> Sessions \cup {None}]
  BY Fatos DEF RenovaReconcile, Unlocking
<1> HIDE DEF n
<1> QED
  BY <1>2, <1>3, <1>4, <1>5, Passa, MpParado DEF RenovaReconcile

LEMMA RenovaEnsurePixFull ==
  ASSUME FInv, NEW s \in Sessions, RenovaEnsurePix(s)
  PROVE  FInv'
<1> DEFINE n == [ses[s] EXCEPT !.pc = "renovado"]
<1>1. /\ ses[s] \in Session /\ SesFull(ses[s], cobranca, mp, Pago)
      /\ At(s, "ensure_pix", "create")
  BY Fatos DEF RenovaEnsurePix
<1>2. ses' = [ses EXCEPT ![s] = n] /\ n \in Session /\ n.mapa = ses[s].mapa
  BY <1>1, Fatos DEF RenovaEnsurePix, Session
<1>3. SesFull(n, cobranca, mp, Pago) /\ ~Propria(n)
  BY <1>1 DEF SesFull, Relida, Linha, Contrata, Cobra, Propria, Confirma, PorOrdem, At,
      Session
<1> QED
  BY <1>2, <1>3, Anda DEF RenovaEnsurePix

(* The row a session reads again: it is there, and of the same contract.   *)
Relido(s) == [ses[s].mapa EXCEPT ![ses[s].cob] = cobranca[ses[s].cob]]

LEMMA Recarrega ==
  ASSUME FInv, NEW s \in Sessions, ses[s].cob \in Cobrancas,
         ses[s].via \in {"create_pix", "card"}, ses[s].pc = "renovado"
  PROVE  /\ Relido(s) \in [Cobrancas -> Cobranca]
         /\ Mapa(Relido(s), cobranca, mp)
         /\ \A j \in Cobrancas : Relido(s)[j] \in {NoRow, cobranca[j], ses[s].mapa[j]}
         /\ Relido(s)[ses[s].cob] # NoRow
         /\ Relido(s)[ses[s].cob].contrato = ses[s].ct
         /\ cobranca[ses[s].cob].order \in Charges \cup {None}
<1> DEFINE i == ses[s].cob
           m == Relido(s)
<1>1. /\ RowFull(cobranca[i], mp) /\ cobranca[i] \in Cobranca
      /\ cobranca \in [Cobrancas -> Cobranca]
      /\ ses[s].mapa \in [Cobrancas -> Cobranca] /\ Mapa(ses[s].mapa, cobranca, mp)
  BY Fatos DEF SesFull, Session
<1>2. cobranca[i].status # "ausente" /\ cobranca[i].contrato = ses[s].ct
  BY Fatos DEF SesFull, Relida
<1>3. /\ m \in [Cobrancas -> Cobranca] /\ m[i] = cobranca[i]
      /\ \A j \in Cobrancas : j # i => m[j] = ses[s].mapa[j]
  BY <1>1 DEF Relido
<1> HIDE DEF m
<1>4. m[i] # NoRow
  BY <1>2, <1>3 DEF NoRow
<1>5. Mapa(m, cobranca, mp)
  BY <1>1, <1>2, <1>3 DEF Mapa
<1>6. cobranca[i].order \in Charges \cup {None}
  BY <1>1 DEF Cobranca
<1> QED
  BY <1>2, <1>3, <1>4, <1>5, <1>6 DEF m

(* The new order, made after a renewal.                                    *)
LEMMA OrdemNova ==
  ASSUME FInv, NEW s \in Sessions, NEW c \in Charges, ses[s].ct \in Contratos,
         NewOrder(c, ses[s].ct)
  PROVE  /\ MpAnda /\ SesFull(ses[s], cobranca, mp', Pago)
         /\ mp[c].status = "livre"
         /\ mp'[c].status = "created" /\ mp'[c].tipo = "order"
<1> DEFINE r == [status |-> "created", tipo |-> "order", contrato |-> ses[s].ct]
<1>1. r \in Charge /\ r.status = "created" /\ r.tipo = "order" /\ r.status # "livre"
  BY DEF Charge
<1>2. mp[c].status = "livre" /\ mp' = [mp EXCEPT ![c] = r]
  BY DEF NewOrder
<1> HIDE DEF r
<1>3. MpAnda /\ mp'[c] = r /\ SesFull(ses[s], cobranca, mp', Pago)
  BY <1>1, <1>2, CobraNova
<1> QED
  BY <1>1, <1>2, <1>3

LEMMA CreateOrderReloadFull ==
  ASSUME FInv, NEW s \in Sessions, CreateOrderReload(s)
  PROVE  FInv'
<1> DEFINE i == ses[s].cob
           k == ses[s].ct
           o == IF i = None THEN None ELSE cobranca[i].order
           m == IF i = None THEN ses[s].mapa
                ELSE Relido(s)
<1>1. PICK c \in Charges :
        /\ NewOrder(c, k)
        /\ ses' = [ses EXCEPT ![s].pc = "apply", ![s].charge = c,
             ![s].ctrow = contrato[k], ![s].antigo = o, ![s].mapa = m]
  BY DEF CreateOrderReload, Relido
<1> DEFINE n == [ses[s] EXCEPT !.pc = "apply", !.charge = c, !.ctrow = contrato[k],
                               !.antigo = o, !.mapa = m]
<1>2. /\ ses[s] \in Session /\ SesFull(ses[s], cobranca, mp, Pago)
      /\ At(s, "create_pix", "renovado") /\ k \in Contratos
      /\ i \in Cobrancas \cup {None}
  BY Fatos DEF CreateOrderReload, SesFull, Contrata, At, Session
<1>3. /\ MpAnda /\ SesFull(ses[s], cobranca, mp', Pago)
      /\ mp[c].status = "livre"
      /\ mp'[c].status = "created" /\ mp'[c].tipo = "order"
  BY <1>1, <1>2, OrdemNova
<1>4. ses' = [ses EXCEPT ![s] = n]
  BY <1>1, Fatos
<1>5. contrato[k] \in Contrato /\ contrato[k].proximo_vencimento <= Pago[k]
  BY <1>2, Carrega
<1>6. /\ m \in [Cobrancas -> Cobranca] /\ o \in Charges \cup {None}
      /\ \A j \in Cobrancas : m[j] \in {NoRow, cobranca[j], ses[s].mapa[j]}
      /\ i # None => m[i] # NoRow /\ m[i].contrato = k
  <2>1. CASE i = None
    BY <1>2, <2>1 DEF Session
  <2>2. CASE i # None
    <3>1. m = Relido(s) /\ o = cobranca[i].order
      BY <2>2
    <3> HIDE DEF m, o
    <3> QED
      BY <1>2, <2>2, <3>1, Recarrega DEF At
  <2> QED
    BY <2>1, <2>2
<1>7. Mapa(m, cobranca, mp')
  <2>1. Mapa(ses[s].mapa, cobranca, mp')
    BY <1>3 DEF SesFull
  <2>2. ASSUME NEW c1, Debitada(c1, mp) PROVE Debitada(c1, mp')
    BY <1>3, <2>2 DEF Debitada, Aprovada, MpAnda
  <2>3. CASE i # None
    <3>1. Mapa(Relido(s), cobranca, mp) /\ m = Relido(s)
      BY <1>2, <2>3, Recarrega DEF At
    <3> QED
      BY <2>2, <3>1 DEF Mapa, RowFull
  <2> QED
    BY <2>1, <2>3
<1> HIDE DEF m, o
<1>8. n \in Session /\ n.mapa = m /\ n.charge = c /\ n.cob = i /\ n.ct = k
  BY <1>2, <1>5, <1>6 DEF Session
<1>9. SesFull(n, cobranca, mp', Pago)
  BY <1>2, <1>3, <1>5, <1>6, <1>7, <1>8
     DEF SesFull, Relida, Linha, Contrata, Cobra, Propria, Confirma, PorOrdem, At
<1> HIDE DEF n
<1> QED
  BY <1>3, <1>4, <1>6, <1>8, <1>9, Passa, Fatos DEF CreateOrderReload

LEMMA CreateOrderBlindFull ==
  ASSUME FInv, NEW s \in Sessions, CreateOrderBlind(s)
  PROVE  FInv'
<1>1. PICK c \in Charges :
        /\ NewOrder(c, ses[s].ct)
        /\ ses' = [ses EXCEPT ![s].pc = "expirado", ![s].charge = c]
  BY DEF CreateOrderBlind
<1> DEFINE n == [ses[s] EXCEPT !.pc = "expirado", !.charge = c]
<1>2. /\ ses[s] \in Session /\ SesFull(ses[s], cobranca, mp, Pago)
      /\ At(s, "ensure_pix", "renovado") /\ ses[s].ct \in Contratos
  BY Fatos DEF CreateOrderBlind, SesFull, Contrata, At
<1>3. /\ MpAnda /\ SesFull(ses[s], cobranca, mp', Pago)
      /\ mp[c].status = "livre"
      /\ mp'[c].status = "created" /\ mp'[c].tipo = "order"
  BY <1>1, <1>2, OrdemNova
<1>4. ses' = [ses EXCEPT ![s] = n]
  BY <1>1, Fatos
<1>5. n \in Session /\ n.mapa = ses[s].mapa /\ n.charge = c
  BY <1>2 DEF Session
<1>6. SesFull(n, cobranca, mp', Pago)
  BY <1>2, <1>3, <1>5 DEF SesFull, Relida, Linha, Contrata, Cobra, Propria, Confirma,
      PorOrdem, At
<1> HIDE DEF n
<1> QED
  BY <1>3, <1>4, <1>5, <1>6, Passa, Fatos DEF CreateOrderBlind

LEMMA ChargeCardReloadFull ==
  ASSUME FInv, NEW s \in Sessions, ChargeCardReload(s)
  PROVE  FInv'
<1> DEFINE i == ses[s].cob
           k == ses[s].ct
           m == Relido(s)
<1>1. PICK c \in Charges, answer \in {"approved", "pending"} :
        /\ NewCardOrder(c, k, answer)
        /\ ses' = [ses EXCEPT ![s].charge = c, ![s].pc = AfterCard(answer),
                     ![s].ctrow = contrato[k], ![s].mapa = m]
  BY DEF ChargeCardReload, Relido
<1> DEFINE pc == AfterCard(answer)
           n == [ses[s] EXCEPT !.charge = c, !.pc = pc, !.ctrow = contrato[k],
                               !.mapa = m]
<1>2. /\ ses[s] \in Session /\ SesFull(ses[s], cobranca, mp, Pago)
      /\ At(s, "card", "renovado") /\ k \in Contratos /\ i \in Cobrancas
  BY Fatos DEF ChargeCardReload, SesFull, Contrata, Linha, At
<1>3. /\ MpAnda /\ SesFull(ses[s], cobranca, mp', Pago)
      /\ mp[c].status = "livre"
      /\ mp'[c].status = answer /\ mp'[c].tipo = "order"
      /\ pc \in {"commit", "apply"} /\ (pc = "commit" => answer = "approved")
  BY <1>1, <1>2, CobraCartao
<1>4. ses' = [ses EXCEPT ![s] = n]
  BY <1>1, Fatos
<1>5. contrato[k] \in Contrato /\ contrato[k].proximo_vencimento <= Pago[k]
  BY <1>2, Carrega
<1>6. /\ m \in [Cobrancas -> Cobranca] /\ Mapa(m, cobranca, mp)
      /\ \A j \in Cobrancas : m[j] \in {NoRow, cobranca[j], ses[s].mapa[j]}
      /\ m[i] # NoRow /\ m[i].contrato = k
  BY <1>2, Recarrega DEF At
<1>7. Mapa(m, cobranca, mp')
  <2>1. ASSUME NEW c1, Debitada(c1, mp) PROVE Debitada(c1, mp')
    BY <1>3, <2>1 DEF Debitada, Aprovada, MpAnda
  <2> QED
    BY <1>6, <2>1 DEF Mapa, RowFull
<1>8. ses[s].valor = 0
  BY <1>2 DEF SesFull, Linha, At
<1> HIDE DEF m, pc
<1>9. /\ n \in Session /\ n.mapa = m /\ n.charge = c /\ n.cob = i /\ n.ct = k
      /\ n.pc = pc
  BY <1>2, <1>3, <1>5, <1>6 DEF Session
<1>10. SesFull(n, cobranca, mp', Pago)
  BY <1>2, <1>3, <1>5, <1>6, <1>7, <1>8, <1>9
     DEF SesFull, Relida, Linha, Contrata, Cobra, Propria, Confirma, PorOrdem, At, Aprovada
<1> HIDE DEF n
<1> QED
  BY <1>3, <1>4, <1>6, <1>9, <1>10, Passa, Fatos DEF ChargeCardReload

(* The delinquency pass takes a late contract and its open charge.         *)
LEMMA StartDelinquencyFull ==
  ASSUME FInv, NEW s \in Sessions, NEW k \in Contratos, StartDelinquency(s, k)
  PROVE  FInv'
<1> DEFINE v == Atraso(contrato[k].proximo_vencimento, hoje)
           n == [Livre EXCEPT !.via = "delinquency", !.pc = "scan",
                     !.ct = k, !.ctrow = contrato[k], !.valor = v]
<1>1. /\ contrato[k] \in Contrato /\ v \in Nat
      /\ contrato[k].proximo_vencimento <= Pago[k]
  BY Carrega
<1>2. ses' = [ses EXCEPT ![s] = n]
  BY DEF StartDelinquency
<1> HIDE DEF v
<1>3. n \in Session /\ n.mapa = Livre.mapa
  BY <1>1, LivreOK DEF Session, Vias, Livre
<1>4. SesFull(n, cobranca, mp, Pago) /\ ~Propria(n)
  BY <1>1 DEF SesFull, Livre, Mapa, Relida, Linha, Contrata, Cobra, RowFull, RowOK, NoRow,
              Propria, Confirma, PorOrdem
<1> HIDE DEF n
<1> QED
  BY <1>2, <1>3, <1>4, Anda DEF StartDelinquency

LEMMA ReadOpenFull ==
  ASSUME FInv, NEW s \in Sessions, ReadOpen(s)
  PROVE  FInv'
<1>1. /\ ses[s] \in Session /\ SesFull(ses[s], cobranca, mp, Pago)
      /\ At(s, "delinquency", "scan")
  BY Fatos DEF ReadOpen
<1>2. CASE ses' = [ses EXCEPT ![s].pc = "create"]
  <2> DEFINE n == [ses[s] EXCEPT !.pc = "create"]
  <2>1. ses' = [ses EXCEPT ![s] = n] /\ n \in Session /\ n.mapa = ses[s].mapa
    BY <1>1, <1>2, Fatos DEF Session
  <2>2. SesFull(n, cobranca, mp, Pago) /\ ~Propria(n)
    BY <1>1 DEF SesFull, Relida, Linha, Contrata, Cobra, Propria, Confirma, PorOrdem, At, Session
  <2> QED
    BY <2>1, <2>2, Anda DEF ReadOpen
<1>3. ASSUME NEW i \in OpenOf(ses[s].ct), NEW pc \in {"commit", "create"},
             ses' = [ses EXCEPT ![s].pc = pc, ![s].cob = i,
                       ![s].antigo = cobranca[i].order, ![s].mapa = Holding(s, {i})]
      PROVE  FInv'
  <2> DEFINE m == Holding(s, {i})
             o == cobranca[i].order
             n == [ses[s] EXCEPT !.pc = pc, !.cob = i, !.antigo = o, !.mapa = m]
  <2>1. /\ i \in Cobrancas /\ cobranca[i].contrato = ses[s].ct /\ IsOpen(cobranca[i])
        /\ o \in Charges \cup {None}
    BY Fatos DEF OpenOf, Cobranca
  <2>2. ses' = [ses EXCEPT ![s] = n]
    BY <1>3, Fatos
  <2> HIDE DEF o
  <2>3. /\ m \in [Cobrancas -> Cobranca] /\ Mapa(m, cobranca, mp)
        /\ \A j \in Cobrancas : m[j] \in {NoRow, cobranca[j], ses[s].mapa[j]}
        /\ m[i] = View(s, i)
    BY <2>1, Copias
  <2>4. m[i] = cobranca[i]
    BY <1>1, <2>1, <2>3 DEF SesFull, Cobra, At, View
  <2> HIDE DEF m
  <2>5. m[i] # NoRow
    BY <2>1, <2>4 DEF NoRow, IsOpen, OPEN_COBRANCA_STATUSES
  <2>6. n \in Session /\ n.mapa = m
    BY <1>1, <2>1, <2>3 DEF Session
  <2>7. SesFull(n, cobranca, mp, Pago) /\ ~Propria(n)
    BY <1>1, <2>1, <2>3, <2>4, <2>5, <2>6
       DEF SesFull, Relida, Linha, Contrata, Cobra, Propria, Confirma, PorOrdem, At
  <2> HIDE DEF n
  <2> QED
    BY <2>2, <2>3, <2>6, <2>7, Passa, MpParado, Fatos DEF ReadOpen
<1>4. ASSUME ses' # [ses EXCEPT ![s].pc = "create"]
      PROVE  \E i \in OpenOf(ses[s].ct), pc \in {"commit", "create"} :
               ses' = [ses EXCEPT ![s].pc = pc, ![s].cob = i,
                         ![s].antigo = cobranca[i].order, ![s].mapa = Holding(s, {i})]
  BY <1>4 DEF ReadOpen
<1> QED
  BY <1>2, <1>3, <1>4

LEMMA CancelBeforeCommitFull ==
  ASSUME FInv, NEW s \in Sessions, CancelBeforeCommit(s)
  PROVE  FInv'
<1> DEFINE n == [ses[s] EXCEPT !.antigo = None]
<1>1. /\ ses[s] \in Session /\ ses[s].antigo \in Charges /\ ses[s].pc = "apply"
  BY Fatos DEF CancelBeforeCommit, At, Session
<1>2. MpAnda
  BY <1>1, CancelaOrdem DEF CancelBeforeCommit
<1>3. SesFull(ses[s], cobranca, mp', Pago)
  <2>1. Cresce(cobranca, mp', Pago)
    BY <1>2, Tabelas DEF CancelBeforeCommit
  <2> QED
    BY <2>1, Fatos, Segue
<1>4. ses' = [ses EXCEPT ![s] = n] /\ n \in Session
      /\ n.mapa = ses[s].mapa /\ n.charge = ses[s].charge
  BY <1>1, Fatos DEF CancelBeforeCommit, Session
<1>5. SesFull(n, cobranca, mp', Pago)
  BY <1>1, <1>3 DEF SesFull, Relida, Linha, Contrata, Cobra, Propria, Confirma, PorOrdem
<1>6. Propria(ses[s])
  BY <1>1 DEF Propria
<1> HIDE DEF n
<1> QED
  BY <1>2, <1>4, <1>5, <1>6, Passa, Fatos DEF CancelBeforeCommit

(* The world outside writes no row and no session.                         *)
LEMMA MundoFull == FInv /\ Mundo => FInv'
<1> SUFFICES ASSUME FInv, Mundo PROVE FInv'
  OBVIOUS
<1>0. /\ hoje \in Nat /\ mp \in [Charges -> Charge] /\ DebitosInv
      /\ cobranca \in [Cobrancas -> Cobranca]
  BY DEF FInv, Base, TypeOK
<1>1. /\ UNCHANGED <<contrato, cobranca, receitas, lock, ses>>
      /\ hoje' \in Nat /\ MpAnda
  <2> DEFINE Same == /\ UNCHANGED <<contrato, cobranca, receitas, lock, ses>>
                     /\ hoje' \in Nat /\ MpAnda
  <2>1. ASSUME NovoDia PROVE Same
    BY <1>0, <2>1, MpParado DEF NovoDia
  <2>2. ASSUME NEW i \in Cobrancas, VerPix(i) PROVE Same
    BY <1>0, <2>2 DEF VerPix, Charge, Cobranca, MpAnda, DebitosInv
  <2>3. ASSUME NEW c \in Charges, PagarPix(c) \/ ExpirarPix(c) PROVE Same
    BY <1>0, <2>3 DEF PagarPix, ExpirarPix, Unpaid, Charge, MpAnda, DebitosInv
  <2>4. ASSUME NEW c \in Charges, NEW k \in Assinantes, DebitarAssinatura(c, k)
        PROVE  Same
    BY <1>0, <2>4 DEF DebitarAssinatura, Charge, MpAnda, DebitosInv
  <2> QED
    BY <2>1, <2>2, <2>3, <2>4 DEF Mundo
<1>2. /\ RowsFullInv' /\ BooksInv' /\ DebitosInv'
      /\ RecebidaComprovada' /\ ReceitaTemPagamento' /\ VencimentoPago'
      /\ Pago' = Pago /\ Cresce(cobranca, mp', Pago)
  BY <1>1, Tabelas
<1>3. SesFullInv'
  <2>1. ASSUME NEW s \in Sessions PROVE SesFull(ses[s], cobranca, mp', Pago)
    BY <1>2, Fatos, Segue
  <2> QED
    BY <1>1, <1>2, <2>1 DEF SesFullInv
<1>4. Lugares'
  <2>1. PICK f \in [Charges -> Cobrancas \cup {None}] : Lugar(f)
    BY DEF FInv, Base, Lugares
  <2>2. Lugar(f)'
    BY <1>1, <2>1 DEF Lugar, MpAnda
  <2> QED
    BY <2>2 DEF Lugares
<1>5. TypeOK'
  BY <1>1 DEF TypeOK, FInv, Base, MpAnda
<1> QED
  BY <1>2, <1>3, <1>4, <1>5 DEF FInv, Base

-----------------------------------------------------------------------------
(* The commits.  Rows stay, of the same contract.                          *)
Mantem ==
  /\ cobranca' \in [Cobrancas -> Cobranca]
  /\ \A i \in Cobrancas : cobranca[i].status # "ausente" =>
       cobranca'[i].status # "ausente" /\ cobranca'[i].contrato = cobranca[i].contrato

(* A receipt is of a row that exists, so the contract it counts for stays. *)
LEMMA Recibos ==
  ASSUME FInv, Mantem
  PROVE  \A n \in DOMAIN receitas :
           /\ receitas[n] \in Financeiro
           /\ cobranca'[receitas[n].cobranca].status # "ausente"
           /\ cobranca'[receitas[n].cobranca].contrato
                = cobranca[receitas[n].cobranca].contrato
<1>1. receitas \in Seq(Financeiro)
  BY DEF FInv, Base, TypeOK
<1>2. \A n \in DOMAIN receitas : receitas[n] \in Financeiro
  BY <1>1
<1>3. \A r \in Financeiro : r.cobranca \in Cobrancas
  BY DEF Financeiro
<1> QED
  BY <1>2, <1>3 DEF Mantem, FInv, Base, BooksInv

(* A commit without a receipt marks no row received and moves no due date. *)
LEMMA SemRecibo ==
  ASSUME FInv, Mantem, UNCHANGED <<receitas, mp>>,
         \A i \in Cobrancas : Recebida(i)' => Recebida(i),
         \A k \in Contratos :
           contrato'[k].proximo_vencimento = contrato[k].proximo_vencimento
  PROVE  /\ BooksInv' /\ ReceitaTemPagamento' /\ RecebidaComprovada'
         /\ VencimentoPago'
         /\ Cresce(cobranca', mp, Pago')
<1>1. BooksInv' /\ ReceitaTemPagamento'
  BY Recibos DEF BooksInv, ReceitaTemPagamento, FInv
<1>2. RecebidaComprovada'
  BY DEF RecebidaComprovada, TemReceita, FInv
<1>3. \A k : Receitas(k)' = Receitas(k)
  <2> SUFFICES ASSUME NEW k PROVE Receitas(k)' = Receitas(k)
    OBVIOUS
  <2>1. {n \in DOMAIN receitas : cobranca'[receitas[n].cobranca].contrato = k}
          = {n \in DOMAIN receitas : cobranca[receitas[n].cobranca].contrato = k}
    BY Recibos
  <2> QED
    BY <2>1 DEF Receitas
<1>4. VencimentoPago'
  BY <1>3 DEF VencimentoPago, FInv
<1>5. Pago' = Pago
  BY <1>3, Zenon DEF Pago
<1>6. \A k \in Contratos : Pago[k] \in Nat
  BY PagoNat DEF FInv, Base, TypeOK
<1> QED
  BY <1>1, <1>2, <1>4, <1>5, <1>6 DEF Cresce, Mantem

(* A commit with a receipt: the contract it is booked for advances from    *)
(* the copy, which was no further than the receipts of then.               *)
LEMMA ComRecibo ==
  ASSUME FInv, Mantem, mp' = mp,
         NEW s \in Sessions, NEW i \in Cobrancas, NEW c, Aprovada(c, mp),
         Credit(s, i, c),
         ses[s].ct \in Contratos,
         cobranca'[i].contrato = ses[s].ct, cobranca'[i].status # "ausente",
         \A j \in Cobrancas : Recebida(j)' => Recebida(j) \/ j = i
  PROVE  /\ receitas' \in Seq(Financeiro) /\ contrato' \in [Contratos -> Contrato]
         /\ BooksInv' /\ ReceitaTemPagamento' /\ RecebidaComprovada'
         /\ VencimentoPago'
         /\ Cresce(cobranca', mp, Pago')
<1> DEFINE rec == [cobranca |-> i, externo |-> c]
           k0 == ses[s].ct
           S(k) == {n \in DOMAIN receitas : cobranca[receitas[n].cobranca].contrato = k}
<1>1. /\ receitas \in Seq(Financeiro) /\ rec \in Financeiro
      /\ receitas' = Append(receitas, rec)
      /\ contrato \in [Contratos -> Contrato]
      /\ ses[s].ctrow \in Contrato
      /\ ses[s].ctrow.proximo_vencimento <= Pago[k0]
  BY Fatos DEF FInv, Base, TypeOK, Financeiro, Credit, Aprovada, Session,
               SesFull, Contrata
<1>2. receitas' \in Seq(Financeiro)
  BY <1>1
<1>3. /\ Len(receitas) \in Nat
      /\ DOMAIN receitas = 1..Len(receitas)
      /\ DOMAIN receitas' = 1..(Len(receitas) + 1)
      /\ receitas'[Len(receitas) + 1] = rec
      /\ \A n \in DOMAIN receitas : receitas'[n] = receitas[n]
  BY <1>1
<1>4. rec.cobranca = i /\ rec.externo = c
  OBVIOUS
<1> HIDE DEF rec
<1>5. BooksInv'
  BY <1>3, <1>4, Recibos DEF BooksInv
<1>6. ReceitaTemPagamento'
  BY <1>3, <1>4 DEF ReceitaTemPagamento, FInv, Aprovada
<1>7. RecebidaComprovada'
  BY <1>3, <1>4 DEF RecebidaComprovada, TemReceita, FInv
<1>8. ASSUME NEW k \in Contratos
      PROVE  Receitas(k)' = IF k = k0 THEN Receitas(k) + 1 ELSE Receitas(k)
  <2> DEFINE T == {n \in DOMAIN receitas' : cobranca'[receitas'[n].cobranca].contrato = k}
             m == Len(receitas) + 1
  <2>1. Receitas(k)' = Cardinality(T) /\ Receitas(k) = Cardinality(S(k))
    BY DEF Receitas
  <2>2. \A n \in DOMAIN receitas :
          cobranca'[receitas'[n].cobranca].contrato
            = cobranca[receitas[n].cobranca].contrato
    BY <1>3, Recibos
  <2>3. m \notin DOMAIN receitas /\ DOMAIN receitas' = DOMAIN receitas \cup {m}
        /\ cobranca'[receitas'[m].cobranca].contrato = k0
    BY <1>3, <1>4
  <2>4. IsFiniteSet(S(k))
    BY <1>1, Contagem
  <2> HIDE DEF m
  <2>5. CASE k = k0
    <3>1. T = S(k) \cup {m} /\ m \notin S(k)
      BY <2>2, <2>3, <2>5
    <3>2. Cardinality(T) = Cardinality(S(k)) + 1
      BY <2>4, <3>1, FS_AddElement
    <3> QED
      BY <2>1, <2>5, <3>2
  <2>6. CASE k # k0
    <3>1. T = S(k)
      BY <2>2, <2>3, <2>6
    <3> QED
      BY <2>1, <2>6, <3>1
  <2> QED
    BY <2>5, <2>6
<1>9. \A k \in Contratos : Pago[k] = Ciclo + Receitas(k) * Ciclo /\ Pago[k] \in Nat
  BY <1>1, PagoNat
<1>10. ASSUME NEW k \in Contratos
       PROVE  /\ Pago'[k] = Ciclo + Receitas(k)' * Ciclo
              /\ Pago'[k] = IF k = k0 THEN Pago[k] + Ciclo ELSE Pago[k]
  <2>1. Pago'[k] = Ciclo + Receitas(k)' * Ciclo
    BY DEF Pago
  <2>2. Receitas(k) \in Nat
    BY <1>1, Contagem
  <2>3. (Receitas(k) + 1) * Ciclo = Receitas(k) * Ciclo + Ciclo
    BY <2>2
  <2>4. Receitas(k) * Ciclo \in Nat
    BY <2>2
  <2> QED
    BY <1>8, <1>9, <2>1, <2>3, <2>4
<1>11. Cresce(cobranca', mp, Pago')
  BY <1>9, <1>10 DEF Cresce, Mantem
<1>12. /\ contrato' \in [Contratos -> Contrato]
       /\ \A k \in Contratos : k # k0 => contrato'[k] = contrato[k]
       /\ contrato'[k0].proximo_vencimento = ses[s].ctrow.proximo_vencimento + Ciclo
  <2> DEFINE old == contrato[k0]
             new == FlushContrato(old, ses[s].ctrow,
                      [proximo_vencimento |->
                         add_cycle(ses[s].ctrow.proximo_vencimento),
                       inadimplente |-> FALSE])
  <2>1. contrato' = [contrato EXCEPT ![k0] = new]
    BY DEF Credit
  <2>2. old \in Contrato
    BY <1>1
  <2>3. ses[s].ctrow.proximo_vencimento \in Nat
    BY <1>1 DEF Contrato
  <2> HIDE DEF old
  <2> DEFINE p1 == ses[s].ctrow.proximo_vencimento + Ciclo
             i1 == Dirty(old.inadimplente, ses[s].ctrow.inadimplente, FALSE)
  <2>4. p1 \in Nat /\ p1 # ses[s].ctrow.proximo_vencimento
    BY <2>3
  <2>5. i1 \in BOOLEAN
    BY <2>2 DEF Dirty, Contrato
  <2>6. Dirty(old.proximo_vencimento, ses[s].ctrow.proximo_vencimento, p1) = p1
    BY <2>4 DEF Dirty
  <2>7. new = [proximo_vencimento |-> p1, inadimplente |-> i1]
    <3> DEFINE q == Dirty(old.proximo_vencimento, ses[s].ctrow.proximo_vencimento, p1)
    <3>1. new = [old EXCEPT !.proximo_vencimento = q, !.inadimplente = i1]
      BY DEF FlushContrato, add_cycle
    <3> HIDE DEF q, i1, p1, new
    <3>2. new = [proximo_vencimento |-> q, inadimplente |-> i1]
      BY <2>2, <3>1 DEF Contrato
    <3> QED
      BY <2>6, <3>2 DEF q
  <2> HIDE DEF i1
  <2>8. new \in Contrato /\ new.proximo_vencimento = p1
    <3> HIDE DEF new, p1
    <3> QED
      BY <2>4, <2>5, <2>7 DEF Contrato
  <2> HIDE DEF new
  <2> QED
    BY <1>1, <2>1, <2>8
<1>13. VencimentoPago'
  <2> SUFFICES ASSUME NEW k \in Contratos
               PROVE  contrato'[k].proximo_vencimento <= Pago'[k]
    BY <1>10 DEF VencimentoPago
  <2>1. CASE k = k0
    <3>1. ses[s].ctrow.proximo_vencimento \in Nat
      BY <1>1 DEF Contrato
    <3>2. Pago'[k] = Pago[k] + Ciclo /\ Pago[k] \in Nat
      BY <1>9, <1>10, <2>1
    <3>3. contrato'[k].proximo_vencimento = ses[s].ctrow.proximo_vencimento + Ciclo
      BY <1>12, <2>1
    <3>4. ses[s].ctrow.proximo_vencimento <= Pago[k]
      BY <1>1, <2>1
    <3>5. \A a, b \in Nat : a <= b => a + Ciclo <= b + Ciclo
      OBVIOUS
    <3> QED
      BY <3>1, <3>2, <3>3, <3>4, <3>5
  <2>2. CASE k # k0
    <3>1. contrato[k].proximo_vencimento <= Ciclo + Receitas(k) * Ciclo
      BY DEF FInv, VencimentoPago
    <3>2. contrato[k].proximo_vencimento <= Pago[k]
      BY <1>9, <3>1
    <3>3. contrato'[k] = contrato[k] /\ Pago'[k] = Pago[k]
      BY <1>10, <1>12, <2>2
    <3> QED
      BY <3>2, <3>3
  <2> QED
    BY <2>1, <2>2
<1> QED
  BY <1>2, <1>5, <1>6, <1>7, <1>11, <1>12, <1>13

-----------------------------------------------------------------------------
(* A commit without a receipt keeps the invariant, if the row it writes is *)
(* well formed and no row becomes received by it.                          *)
LEMMA GravaSemRecibo ==
  ASSUME FInv, NEW s \in Sessions, NEW n \in Session,
         ses' = [ses EXCEPT ![s] = n], lock' \in {lock, Unlocking(s)},
         UNCHANGED <<hoje, receitas, mp>>,
         \A C, M, L : Cresce(C, M, L) => SesFull(n, C, M, L), ~Propria(n),
         \A i \in Cobrancas : n.mapa[i] = NoRow,
         Mantem, RowsFullInv',
         contrato' \in [Contratos -> Contrato],
         \A k \in Contratos :
           contrato'[k].proximo_vencimento = contrato[k].proximo_vencimento,
         \A i \in Cobrancas : Recebida(i)' => Recebida(i),
         NEW j, Ordens(s, j)
  PROVE  FInv'
<1>1. /\ BooksInv' /\ ReceitaTemPagamento' /\ RecebidaComprovada'
      /\ VencimentoPago' /\ Cresce(cobranca', mp, Pago')
  BY SemRecibo
<1>2. receitas' \in Seq(Financeiro) /\ SesFull(n, cobranca', mp, Pago')
  BY <1>1, Fatos
<1>3. TypeOK' /\ SesFullInv' /\ DebitosInv' /\ Lugares'
  BY <1>1, <1>2, Grava DEF Mantem
<1> QED
  BY <1>1, <1>3 DEF FInv, Base

(* A commit with a receipt, for the row it marks received.                 *)
LEMMA GravaComRecibo ==
  ASSUME FInv, NEW s \in Sessions, NEW i \in Cobrancas, NEW c, Aprovada(c, mp),
         Credit(s, i, c), UNCHANGED <<hoje, mp>>,
         ses[s].ct \in Contratos,
         Mantem, RowsFullInv',
         cobranca'[i].contrato = ses[s].ct, cobranca'[i].status # "ausente",
         \A j \in Cobrancas : Recebida(j)' => Recebida(j) \/ j = i,
         Ordens(s, i)
  PROVE  FInv'
<1>1. /\ receitas' \in Seq(Financeiro) /\ contrato' \in [Contratos -> Contrato]
      /\ BooksInv' /\ ReceitaTemPagamento' /\ RecebidaComprovada'
      /\ VencimentoPago' /\ Cresce(cobranca', mp, Pago')
  BY ComRecibo
<1> DEFINE n == AfterCommit(s)
<1>2. n \in Session
  BY Fatos, LivreOK, ZenonT(40) DEF AfterCommit, Session, Vias, Livre
<1>3. /\ \A j \in Cobrancas : n.mapa[j] = NoRow
      /\ ~Propria(n)
      /\ SesFull(n, cobranca', mp, Pago')
  BY DEF AfterCommit, SesFull, Livre, Mapa, Relida, Linha, Contrata, Cobra, RowFull, RowOK,
         NoRow, Propria, Confirma, PorOrdem
<1>4. ses' = [ses EXCEPT ![s] = n] /\ lock' = Unlocking(s)
  BY DEF Credit
<1> HIDE DEF n
<1>5. TypeOK' /\ SesFullInv' /\ DebitosInv' /\ Lugares'
  BY <1>1, <1>2, <1>3, <1>4, Grava DEF Mantem
<1> QED
  BY <1>1, <1>5 DEF FInv, Base

(* What a flush leaves in a row: of each column the new value if it is not *)
(* the one loaded, else what is stored.                                    *)
LEMMA Descarrega ==
  ASSUME NEW st \in Cobranca, NEW l \in Cobranca, NEW r \in Cobranca,
         NEW w, w = Flush(st, l, r)
  PROVE  /\ w \in Cobranca
         /\ w.contrato = st.contrato
         /\ w.status = Dirty(st.status, l.status, r.status)
         /\ w.order = Dirty(st.order, l.order, r.order)
         /\ w.payment = Dirty(st.payment, l.payment, r.payment)
<1> DEFINE st1 == Dirty(st.status, l.status, r.status)
           v1 == Dirty(st.valor, l.valor, r.valor)
           o1 == Dirty(st.order, l.order, r.order)
           p1 == Dirty(st.payment, l.payment, r.payment)
<1>1. w = [contrato |-> st.contrato, status |-> st1, vencimento |-> st.vencimento,
           valor |-> v1, order |-> o1, payment |-> p1]
  BY DEF Flush, Cobranca
<1>2. /\ st1 \in OPEN_COBRANCA_STATUSES \cup {"recebido", "ausente"}
      /\ v1 \in Nat /\ o1 \in Charges \cup {None} /\ p1 \in Charges \cup {None}
  BY DEF Dirty, Cobranca
<1> HIDE DEF st1, v1, o1, p1
<1>3. w \in Cobranca
  BY <1>1, <1>2 DEF Cobranca
<1> QED
  BY <1>1, <1>3 DEF st1, o1, p1

(* An UPDATE of one row the session has a copy of.                         *)
Escreve(i, l, r) == cobranca' = [cobranca EXCEPT ![i] = Flush(@, l, r)]

LEMMA Atualiza ==
  ASSUME FInv, NEW s \in Sessions, NEW i \in Cobrancas,
         NEW l, l = ses[s].mapa[i], l # NoRow,
         NEW r \in Cobranca, r.status # "ausente",
         Escreve(i, l, r)
  PROVE  /\ Mantem
         /\ l \in Cobranca /\ RowFull(l, mp)
         /\ cobranca'[i].contrato = l.contrato /\ cobranca'[i].status # "ausente"
         /\ RowOK(cobranca'[i])
         /\ \A j \in Cobrancas : j # i => cobranca'[j] = cobranca[j]
         /\ cobranca'[i].status = Dirty(cobranca[i].status, l.status, r.status)
         /\ cobranca'[i].order = Dirty(cobranca[i].order, l.order, r.order)
         /\ cobranca'[i].payment = Dirty(cobranca[i].payment, l.payment, r.payment)
<1>1. /\ cobranca \in [Cobrancas -> Cobranca] /\ cobranca[i] \in Cobranca
      /\ RowFull(cobranca[i], mp) /\ l \in Cobranca
  BY Fatos DEF Session
<1>2. /\ RowFull(l, mp)
      /\ cobranca[i].status # "ausente" /\ cobranca[i].contrato = l.contrato
  BY Fatos DEF SesFull, Mapa
<1> DEFINE w == Flush(cobranca[i], l, r)
<1>3. /\ w \in Cobranca /\ w.contrato = cobranca[i].contrato
      /\ w.status = Dirty(cobranca[i].status, l.status, r.status)
      /\ w.order = Dirty(cobranca[i].order, l.order, r.order)
      /\ w.payment = Dirty(cobranca[i].payment, l.payment, r.payment)
  BY <1>1, Descarrega
<1>4. /\ cobranca' \in [Cobrancas -> Cobranca] /\ cobranca'[i] = w
      /\ \A j \in Cobrancas : j # i => cobranca'[j] = cobranca[j]
  <2>1. cobranca' = [cobranca EXCEPT ![i] = w]
    BY DEF Escreve
  <2> HIDE DEF w
  <2> QED
    BY <1>1, <1>3, <2>1
<1> HIDE DEF w
<1>5. w.status # "ausente"
  BY <1>2, <1>3 DEF Dirty
<1>6. RowOK(w)
  BY <1>1, <1>2, <1>3, <1>5 DEF RowOK, RowFull
<1>7. Mantem
  BY <1>2, <1>3, <1>4, <1>5 DEF Mantem
<1> QED
  BY <1>1, <1>2, <1>3, <1>4, <1>5, <1>6, <1>7

(* The charge a session has created is in none of its copies.              *)
LEMMA Nova ==
  ASSUME FInv, NEW s \in Sessions, Propria(ses[s]), NEW i \in Cobrancas
  PROVE  /\ ses[s].charge \in Charges /\ ses[s].charge # None
         /\ ses[s].mapa[i].order # ses[s].charge
         /\ ses[s].mapa[i].payment # ses[s].charge
<1>1. PICK f \in [Charges -> Cobrancas \cup {None}] : Lugar(f)
  BY DEF FInv, Base, Lugares
<1>2. /\ ses[s].charge \in Charges /\ mp[ses[s].charge].tipo = "order"
      /\ RowFull(ses[s].mapa[i], mp)
  BY Fatos DEF SesFull, Cobra, Mapa
<1>3. f[ses[s].charge] = None /\ i # None /\ ses[s].charge # None
  BY <1>1, <1>2 DEF Lugar
<1>4. ses[s].mapa[i].order # ses[s].charge
  BY <1>1, <1>3 DEF Lugar
<1> QED
  BY <1>2, <1>3, <1>4 DEF RowFull, Debitada

(* A new charge takes both columns of the row it is written to.            *)
LEMMA Troca ==
  ASSUME FInv, NEW s \in Sessions, Propria(ses[s]), NEW i \in Cobrancas,
         ses[s].mapa[i] # NoRow, mp' = mp,
         NEW r \in Cobranca, r.status # "ausente",
         r.order = ses[s].charge, r.payment = ses[s].charge,
         Escreve(i, ses[s].mapa[i], r)
  PROVE  /\ Mantem /\ RowsFullInv'
         /\ cobranca'[i].contrato = ses[s].mapa[i].contrato
         /\ cobranca'[i].status # "ausente"
         /\ \A j \in Cobrancas : Recebida(j)' => Recebida(j)
              \/ (j = i /\ r.status = "recebido" /\ r.status # ses[s].mapa[i].status)
         /\ Ordens(s, i)
<1> DEFINE l == ses[s].mapa[i]
<1>1. /\ Mantem
      /\ cobranca'[i].contrato = l.contrato /\ cobranca'[i].status # "ausente"
      /\ RowOK(cobranca'[i])
      /\ \A j \in Cobrancas : j # i => cobranca'[j] = cobranca[j]
      /\ cobranca'[i].status = Dirty(cobranca[i].status, l.status, r.status)
      /\ cobranca'[i].order = Dirty(cobranca[i].order, l.order, r.order)
      /\ cobranca'[i].payment = Dirty(cobranca[i].payment, l.payment, r.payment)
  BY Atualiza
<1>2. cobranca'[i].order = ses[s].charge /\ cobranca'[i].payment = ses[s].charge
  BY <1>1, Nova DEF Dirty
<1>3. RowsFullInv'
  <2>1. \A j \in Cobrancas : RowFull(cobranca[j], mp)
    BY Fatos
  <2>2. RowFull(cobranca'[i], mp)
    BY <1>1, <1>2 DEF RowFull
  <2>3. \A j \in Cobrancas : RowFull(cobranca'[j], mp)
    BY <1>1, <2>1, <2>2
  <2> QED
    BY <2>3 DEF RowsFullInv
<1>4. \A j \in Cobrancas : Recebida(j)' => Recebida(j)
        \/ (j = i /\ r.status = "recebido" /\ r.status # l.status)
  BY <1>1 DEF Recebida, Dirty
<1>5. Ordens(s, i)
  BY <1>1, <1>2 DEF Ordens
<1> QED
  BY <1>1, <1>3, <1>4, <1>5

(* An INSERT takes an id no row has.                                       *)
LEMMA Insere ==
  ASSUME FInv, NEW i \in Cobrancas, NextId(i), mp' = mp,
         NEW r \in Cobranca, r.status # "ausente", r.contrato \in Contratos,
         RowFull(r, mp), cobranca' = [cobranca EXCEPT ![i] = r]
  PROVE  /\ Mantem /\ RowsFullInv' /\ cobranca'[i] = r
         /\ \A j \in Cobrancas : j # i => cobranca'[j] = cobranca[j]
<1>1. cobranca \in [Cobrancas -> Cobranca] /\ RowsFullInv
  BY DEF FInv, Base, TypeOK
<1>2. /\ cobranca' \in [Cobrancas -> Cobranca] /\ cobranca'[i] = r
      /\ \A j \in Cobrancas : j # i => cobranca'[j] = cobranca[j]
  BY <1>1
<1>3. RowsFullInv'
  BY <1>1, <1>2 DEF RowsFullInv
<1>4. Mantem
  BY <1>2 DEF Mantem, NextId
<1> QED
  BY <1>2, <1>3, <1>4

-----------------------------------------------------------------------------
(* The session after a commit of a PIX: at rest, or about to cancel.       *)
LEMMA DepoisDoPix ==
  ASSUME FInv, NEW s \in Sessions, Committed(s),
         ses[s].via \in {"create_pix", "ensure_pix"}
  PROVE  \E n \in Session :
           /\ ses' = [ses EXCEPT ![s] = n] /\ lock' = Unlocking(s)
           /\ \A C, M, L : SesFull(n, C, M, L)
           /\ ~Propria(n)
           /\ \A i \in Cobrancas : n.mapa[i] = NoRow
<1>0. ses[s] \in Session
  BY Fatos
<1>1. CASE ses[s].antigo = None
  <2>1. ses' = [ses EXCEPT ![s] = Livre] /\ lock' = Unlocking(s)
    BY <1>1 DEF Committed
  <2>2. \A i \in Cobrancas : Livre.mapa[i] = NoRow
    BY DEF Livre
  <2> QED
    BY <2>1, <2>2, LivreOK, LivreFull
<1>2. CASE ses[s].antigo # None
  <2> DEFINE n == [Livre EXCEPT !.via = ses[s].via, !.pc = "cancel",
                                !.antigo = ses[s].antigo]
  <2>1. ses' = [ses EXCEPT ![s] = n] /\ lock' = Unlocking(s)
    BY <1>2 DEF Committed, Superseded
  <2>2. ses[s].antigo \in Charges
    BY <1>0, <1>2 DEF Session
  <2>3. n \in Session
    BY <1>0, <2>2, LivreOK DEF Session, Livre
  <2>4. \A i \in Cobrancas : n.mapa[i] = NoRow
    BY DEF Livre
  <2>5. ~Propria(n) /\ \A C, M, L : SesFull(n, C, M, L)
    BY <2>2 DEF SesFull, Livre, Mapa, Relida, Linha, Contrata, Cobra, RowFull, RowOK,
                NoRow, Propria, Confirma, PorOrdem
  <2> HIDE DEF n
  <2> QED
    BY <2>1, <2>3, <2>4, <2>5
<1> QED
  BY <1>1, <1>2

(* The row a new PIX asks for.                                             *)
LEMMA ComPix ==
  ASSUME FInv, NEW s \in Sessions, ses[s].pc \in {"apply", "expirado"},
         NEW row \in Cobranca, NEW st \in OPEN_COBRANCA_STATUSES
  PROVE  /\ WithPix(row, st, s) \in Cobranca
         /\ WithPix(row, st, s).order = ses[s].charge
         /\ WithPix(row, st, s).payment = ses[s].charge
         /\ WithPix(row, st, s).status = st
         /\ WithPix(row, st, s).contrato = row.contrato
         /\ st # "recebido" /\ st # "ausente"
         /\ Propria(ses[s])
<1>1. ses[s].charge \in Charges /\ ses[s].valor \in Nat
  BY Fatos DEF SesFull, Cobra, Propria, Session
<1> QED
  BY <1>1 DEF WithPix, Cobranca, OPEN_COBRANCA_STATUSES, Propria

(* A PIX written over the row at hand.                                     *)
LEMMA TrocaPix ==
  ASSUME FInv, NEW s \in Sessions, ses[s].pc = "apply", ses[s].cob # None,
         NEW st \in OPEN_COBRANCA_STATUSES, mp' = mp,
         Escreve(ses[s].cob, ses[s].mapa[ses[s].cob],
                 WithPix(ses[s].mapa[ses[s].cob], st, s))
  PROVE  /\ Mantem /\ RowsFullInv' /\ Ordens(s, ses[s].cob)
         /\ \A j \in Cobrancas : Recebida(j)' => Recebida(j)
<1> DEFINE i == ses[s].cob
           l == ses[s].mapa[i]
           r == WithPix(l, st, s)
<1>1. ses[s] \in Session /\ i \in Cobrancas
  BY Fatos DEF Session
<1>2. l \in Cobranca /\ l # NoRow
  BY <1>1, Fatos DEF Session, SesFull, Linha
<1>3. /\ r \in Cobranca /\ r.order = ses[s].charge /\ r.payment = ses[s].charge
      /\ r.status # "recebido" /\ r.status # "ausente" /\ Propria(ses[s])
  BY <1>2, ComPix
<1> HIDE DEF r
<1>4. Escreve(i, ses[s].mapa[i], r)
  BY DEF r
<1> HIDE DEF i, l
<1> QED
  BY <1>1, <1>2, <1>3, <1>4, Troca DEF l, i

(* A PIX in a new row.                                                     *)
LEMMA InserePix ==
  ASSUME FInv, NEW s \in Sessions, ses[s].pc = "apply",
         NEW st \in OPEN_COBRANCA_STATUSES, mp' = mp,
         NEW i \in Cobrancas, NextId(i),
         cobranca' = [cobranca EXCEPT ![i] =
            WithPix([NoRow EXCEPT !.contrato = ses[s].ct,
                       !.vencimento = ses[s].ctrow.proximo_vencimento], st, s)]
  PROVE  /\ Mantem /\ RowsFullInv' /\ Ordens(s, i)
         /\ \A j \in Cobrancas : Recebida(j)' => Recebida(j)
<1> DEFINE v == ses[s].ctrow.proximo_vencimento
           k == ses[s].ct
           row == [NoRow EXCEPT !.contrato = k, !.vencimento = v]
           r == WithPix(row, st, s)
<1>1. ses[s] \in Session /\ k \in Contratos
  BY Fatos DEF SesFull, Contrata
<1>2. v \in Nat
  BY <1>1 DEF Session, Contrato
<1> HIDE DEF v, k
<1>3. row \in Cobranca /\ row.contrato \in Contratos
  BY <1>1, <1>2 DEF NoRow, Cobranca
<1> HIDE DEF row
<1>4. /\ r \in Cobranca /\ r.order = ses[s].charge /\ r.payment = ses[s].charge
      /\ r.status # "recebido" /\ r.status # "ausente" /\ Propria(ses[s])
      /\ r.contrato \in Contratos
  BY <1>3, ComPix
<1>5. cobranca' = [cobranca EXCEPT ![i] = r]
  BY DEF row, k, v
<1> HIDE DEF r
<1>6. RowFull(r, mp)
  BY <1>4 DEF RowFull, RowOK
<1>7. /\ Mantem /\ RowsFullInv' /\ cobranca'[i] = r
      /\ \A j \in Cobrancas : j # i => cobranca'[j] = cobranca[j]
  BY <1>4, <1>5, <1>6, Insere
<1> QED
  BY <1>4, <1>7 DEF Ordens, Recebida

LEMMA CommitPixFull ==
  ASSUME FInv, NEW s \in Sessions, CommitPix(s)
  PROVE  FInv'
<1> DEFINE i == ses[s].cob
           l == ses[s].mapa[i]
           st == StatusPix(s)
<1>1. /\ ses[s].pc = "apply" /\ i # None /\ Committed(s)
      /\ ses[s].via \in {"create_pix", "ensure_pix"}
      /\ UNCHANGED <<hoje, contrato, receitas, mp>>
      /\ Escreve(i, l, WithPix(l, st, s))
  BY DEF CommitPix, Escreve
<1>2. st \in OPEN_COBRANCA_STATUSES
  BY <1>1, Fatos DEF StatusPix, SesFull, Linha, IsOpen, OPEN_COBRANCA_STATUSES
<1> HIDE DEF st
<1>3. /\ Mantem /\ RowsFullInv' /\ Ordens(s, i)
      /\ \A j \in Cobrancas : Recebida(j)' => Recebida(j)
  BY <1>1, <1>2, TrocaPix
<1> HIDE DEF i, l
<1>4. PICK n \in Session :
        /\ ses' = [ses EXCEPT ![s] = n] /\ lock' = Unlocking(s)
        /\ \A C, M, L : SesFull(n, C, M, L)
        /\ ~Propria(n)
        /\ \A j \in Cobrancas : n.mapa[j] = NoRow
  BY <1>1, DepoisDoPix
<1>5. contrato \in [Contratos -> Contrato]
  BY Fatos
<1> QED
  BY <1>1, <1>3, <1>4, <1>5, GravaSemRecibo

(* ensure_pix after a renewal: the row is written over, whatever is in it. *)
LEMMA SobrePix ==
  ASSUME FInv, NEW s \in Sessions, OverwritePix(s)
  PROVE  /\ Mantem /\ RowsFullInv' /\ Ordens(s, ses[s].cob)
         /\ \A j \in Cobrancas : Recebida(j)' => Recebida(j)
         /\ ses[s].cob \in Cobrancas /\ Propria(ses[s])
         /\ cobranca'[ses[s].cob].order = ses[s].charge
         /\ \A j \in Cobrancas : j # ses[s].cob => cobranca'[j] = cobranca[j]
<1> DEFINE i == ses[s].cob
           st == StatusPix(s)
           r == WithPix(cobranca[i], st, s)
<1>1. /\ ses[s] \in Session /\ SesFull(ses[s], cobranca, mp, Pago)
      /\ ses[s].via = "ensure_pix" /\ ses[s].pc = "expirado"
      /\ cobranca' = [cobranca EXCEPT ![i] = r] /\ mp' = mp
  BY Fatos DEF OverwritePix, At
<1>2. /\ i \in Cobrancas /\ ses[s].mapa[i] # NoRow /\ IsOpen(ses[s].mapa[i])
      /\ Propria(ses[s])
  BY <1>1 DEF SesFull, Linha, Propria
<1>3. /\ cobranca[i].status # "ausente" /\ cobranca[i] \in Cobranca
      /\ RowFull(cobranca[i], mp) /\ cobranca \in [Cobrancas -> Cobranca]
  BY <1>1, <1>2, Fatos DEF SesFull, Mapa
<1>4. st \in OPEN_COBRANCA_STATUSES
  BY <1>1, <1>2 DEF StatusPix, IsOpen, OPEN_COBRANCA_STATUSES
<1> HIDE DEF st
<1>5. /\ r \in Cobranca /\ r.order = ses[s].charge /\ r.payment = ses[s].charge
      /\ r.status # "recebido" /\ r.status # "ausente"
      /\ r.contrato = cobranca[i].contrato
  BY <1>1, <1>3, <1>4, ComPix
<1> HIDE DEF r
<1>6. /\ cobranca' \in [Cobrancas -> Cobranca] /\ cobranca'[i] = r
      /\ \A j \in Cobrancas : j # i => cobranca'[j] = cobranca[j]
  BY <1>1, <1>2, <1>3, <1>5
<1>7. RowFull(r, mp)
  BY <1>3, <1>5 DEF RowFull, RowOK
<1> HIDE DEF i
<1>8. Mantem
  BY <1>5, <1>6 DEF Mantem
<1>9. RowsFullInv'
  <2>1. \A j \in Cobrancas : RowFull(cobranca[j], mp)
    BY Fatos
  <2>2. \A j \in Cobrancas : RowFull(cobranca'[j], mp)
    BY <1>6, <1>7, <2>1
  <2> QED
    BY <1>1, <2>2 DEF RowsFullInv
<1>10. Ordens(s, i) /\ \A j \in Cobrancas : Recebida(j)' => Recebida(j)
  BY <1>2, <1>5, <1>6 DEF Ordens, Recebida
<1> QED
  BY <1>2, <1>5, <1>6, <1>8, <1>9, <1>10 DEF i

LEMMA OverwritePixFull ==
  ASSUME FInv, NEW s \in Sessions, OverwritePix(s)
  PROVE  FInv'
<1>1. /\ Committed(s) /\ ses[s].via = "ensure_pix"
      /\ UNCHANGED <<hoje, contrato, receitas, mp>>
  BY DEF OverwritePix, At
<1>2. PICK n \in Session :
        /\ ses' = [ses EXCEPT ![s] = n] /\ lock' = Unlocking(s)
        /\ \A C, M, L : SesFull(n, C, M, L)
        /\ ~Propria(n)
        /\ \A j \in Cobrancas : n.mapa[j] = NoRow
  BY <1>1, DepoisDoPix
<1>3. contrato \in [Contratos -> Contrato]
  BY Fatos
<1> QED
  BY <1>1, <1>2, <1>3, SobrePix, GravaSemRecibo

LEMMA InsertPixFull ==
  ASSUME FInv, NEW s \in Sessions, InsertPix(s)
  PROVE  FInv'
<1> DEFINE st == StatusPix(s)
<1>1. /\ ses[s].pc = "apply" /\ Committed(s)
      /\ ses[s].via = "create_pix"
      /\ UNCHANGED <<hoje, contrato, receitas, mp>>
  BY DEF InsertPix, At
<1>2. st \in OPEN_COBRANCA_STATUSES
  BY <1>1 DEF StatusPix, OPEN_COBRANCA_STATUSES
<1>3. PICK i \in Cobrancas :
        /\ NextId(i)
        /\ cobranca' = [cobranca EXCEPT ![i] =
             WithPix([NoRow EXCEPT !.contrato = ses[s].ct,
                       !.vencimento = ses[s].ctrow.proximo_vencimento], st, s)]
  BY DEF InsertPix
<1> HIDE DEF st
<1>4. /\ Mantem /\ RowsFullInv' /\ Ordens(s, i)
      /\ \A j \in Cobrancas : Recebida(j)' => Recebida(j)
  BY <1>1, <1>2, <1>3, InserePix
<1>5. PICK n \in Session :
        /\ ses' = [ses EXCEPT ![s] = n] /\ lock' = Unlocking(s)
        /\ \A C, M, L : SesFull(n, C, M, L)
        /\ ~Propria(n)
        /\ \A j \in Cobrancas : n.mapa[j] = NoRow
  BY <1>1, DepoisDoPix
<1>6. contrato \in [Contratos -> Contrato]
  BY Fatos
<1> QED
  BY <1>1, <1>4, <1>5, <1>6, GravaSemRecibo

LEMMA SubscriptionInsertFull ==
  ASSUME FInv, NEW s \in Sessions, SubscriptionInsert(s)
  PROVE  FInv'
<1> DEFINE c == ses[s].charge
           v == ses[s].ctrow.proximo_vencimento
           r == [contrato |-> ses[s].ct, status |-> "recebido",
                 vencimento |-> v,
                 valor |-> ses[s].valor, order |-> None, payment |-> c]
<1>1. PICK i \in Cobrancas :
        /\ NextId(i)
        /\ cobranca' = [cobranca EXCEPT ![i] = r]
        /\ Credit(s, i, c)
  BY DEF SubscriptionInsert
<1>2. /\ ses[s] \in Session /\ SesFull(ses[s], cobranca, mp, Pago)
      /\ At(s, "subscription", "lock_open") /\ UNCHANGED <<hoje, mp>>
  BY Fatos DEF SubscriptionInsert
<1>3. /\ Debitada(c, mp) /\ Aprovada(c, mp) /\ c \in Charges
      /\ ses[s].ct \in Contratos /\ ses[s].valor \in Nat
  BY <1>2 DEF SesFull, Cobra, Contrata, At, Debitada, Aprovada, Session
<1>4. v \in Nat
  BY <1>2 DEF Session, Contrato
<1> HIDE DEF c, v
<1>5. /\ r \in Cobranca /\ RowFull(r, mp)
      /\ r.status # "ausente" /\ r.contrato = ses[s].ct /\ r.order = None
  BY <1>3, <1>4 DEF Cobranca, RowFull, RowOK
<1> HIDE DEF r
<1>6. /\ Mantem /\ RowsFullInv' /\ cobranca'[i] = r
      /\ \A j \in Cobrancas : j # i => cobranca'[j] = cobranca[j]
  BY <1>1, <1>2, <1>3, <1>5, Insere
<1>7. Ordens(s, i) /\ \A j \in Cobrancas : Recebida(j)' => Recebida(j) \/ j = i
  BY <1>5, <1>6 DEF Ordens, Recebida
<1> QED
  BY <1>1, <1>2, <1>3, <1>5, <1>6, <1>7, GravaComRecibo

LEMMA CommitPaymentFull ==
  ASSUME FInv, NEW s \in Sessions, CommitPayment(s)
  PROVE  FInv'
<1> DEFINE i == ses[s].cob
           l == ses[s].mapa[i]
           r == Received(s)
           c == Externo(s)
<1>1. /\ ses[s] \in Session /\ SesFull(ses[s], cobranca, mp, Pago)
      /\ ses[s].pc = "commit" /\ ses[s].via \in Confirma
      /\ UNCHANGED <<hoje, mp>>
      /\ Escreve(i, l, r) /\ Credit(s, i, c)
  BY Fatos DEF CommitPayment, Escreve, Confirma
<1>2. /\ i \in Cobrancas /\ l # NoRow /\ l.contrato = ses[s].ct
      /\ ses[s].ct \in Contratos /\ Aprovada(ses[s].charge, mp)
      /\ ses[s].charge \in Charges /\ l \in Cobranca /\ RowFull(l, mp)
  <2>1. i \in Cobrancas /\ l # NoRow /\ l.contrato = ses[s].ct
    BY <1>1 DEF SesFull, Linha, Session
  <2>2. ses[s].ct \in Contratos
    BY <1>1 DEF SesFull, Contrata
  <2>3. Aprovada(ses[s].charge, mp) /\ ses[s].charge \in Charges
    BY <1>1 DEF SesFull, Cobra, Aprovada
  <2>4. l \in Cobranca /\ RowFull(l, mp)
    BY <1>1, <2>1 DEF SesFull, Mapa, Session
  <2> QED
    BY <2>1, <2>2, <2>3, <2>4
<1>3. Aprovada(c, mp)
  <2>1. CASE ByOrder(ses[s].via, ses[s].charge) /\ l.payment # None
    <3>1. l.order = ses[s].charge
      BY <1>1, <2>1 DEF SesFull, Cobra, PorOrdem, ByOrder
    <3> QED
      BY <1>2, <2>1, <3>1 DEF Externo, RowFull, Debitada
  <2>2. CASE ~(ByOrder(ses[s].via, ses[s].charge) /\ l.payment # None)
    BY <1>2, <2>2 DEF Externo
  <2> QED
    BY <2>1, <2>2
<1>4. /\ r \in Cobranca /\ r.status = "recebido" /\ r.order = l.order
      /\ r.payment = l.payment \/ Debitada(r.payment, mp)
  <2>1. CASE ses[s].via = "subscription" /\ l.payment # ses[s].charge
    <3> DEFINE v == IF ses[s].valor > 0 THEN ses[s].valor ELSE l.valor
    <3>1. r = [l EXCEPT !.status = "recebido", !.payment = ses[s].charge, !.valor = v]
      BY <2>1 DEF Received
    <3>2. v \in Nat
      BY <1>1, <1>2 DEF Session, Cobranca
    <3>3. Debitada(ses[s].charge, mp)
      BY <1>1, <2>1 DEF SesFull, Cobra
    <3> HIDE DEF v, r, l
    <3> QED
      BY <1>2, <3>1, <3>2, <3>3 DEF Cobranca
  <2>2. CASE ~(ses[s].via = "subscription" /\ l.payment # ses[s].charge)
    <3>1. r = [l EXCEPT !.status = "recebido"]
      BY <2>2 DEF Received
    <3> HIDE DEF r, l
    <3> QED
      BY <1>2, <3>1 DEF Cobranca
  <2> QED
    BY <2>1, <2>2
<1> HIDE DEF r, c
<1>5. /\ Mantem
      /\ cobranca'[i].contrato = l.contrato /\ cobranca'[i].status # "ausente"
      /\ RowOK(cobranca'[i])
      /\ \A j \in Cobrancas : j # i => cobranca'[j] = cobranca[j]
      /\ cobranca'[i].order = Dirty(cobranca[i].order, l.order, r.order)
      /\ cobranca'[i].payment = Dirty(cobranca[i].payment, l.payment, r.payment)
  BY <1>1, <1>2, <1>4, Atualiza
<1> HIDE DEF l, i
<1>6. cobranca'[i].order = cobranca[i].order
  BY <1>4, <1>5 DEF Dirty
<1>7. RowsFullInv'
  <2>1. \A j \in Cobrancas : RowFull(cobranca[j], mp)
    BY Fatos
  <2>2. cobranca'[i].payment = cobranca[i].payment \/ Debitada(cobranca'[i].payment, mp)
    BY <1>4, <1>5 DEF Dirty
  <2>3. RowFull(cobranca'[i], mp)
    BY <1>2, <1>5, <1>6, <2>1, <2>2 DEF RowFull
  <2>4. \A j \in Cobrancas : RowFull(cobranca'[j], mp)
    BY <1>5, <2>1, <2>3
  <2> QED
    BY <1>1, <2>4 DEF RowsFullInv
<1>8. ~Propria(ses[s])
  BY <1>1 DEF Propria, Confirma
<1>9. Ordens(s, i) /\ \A j \in Cobrancas : Recebida(j)' => Recebida(j) \/ j = i
  BY <1>5, <1>6, <1>8 DEF Ordens, Recebida
<1> QED
  BY <1>1, <1>2, <1>3, <1>5, <1>7, <1>9, GravaComRecibo

(* The row a card asks for.                                                *)
LEMMA ComCartao ==
  ASSUME FInv, NEW s \in Sessions, ses[s].via = "card",
         ses[s].pc \in {"commit", "apply"}, mp' = mp,
         NEW st \in OPEN_COBRANCA_STATUSES \cup {"recebido"},
         StoreCard(s, st)
  PROVE  /\ ses[s].cob \in Cobrancas /\ ses[s].ct \in Contratos
         /\ Mantem /\ RowsFullInv' /\ Ordens(s, ses[s].cob)
         /\ cobranca'[ses[s].cob].contrato = ses[s].ct
         /\ cobranca'[ses[s].cob].status # "ausente"
         /\ \A j \in Cobrancas : Recebida(j)' => Recebida(j)
              \/ /\ j = ses[s].cob /\ st = "recebido"
                 /\ st # ses[s].mapa[ses[s].cob].status
<1> DEFINE i == ses[s].cob
           l == ses[s].mapa[i]
           r == WithCard(s, st)
<1>1. /\ ses[s] \in Session /\ SesFull(ses[s], cobranca, mp, Pago)
      /\ Propria(ses[s])
  BY Fatos DEF Propria
<1>2. /\ i \in Cobrancas /\ l # NoRow /\ l.contrato = ses[s].ct
      /\ ses[s].ct \in Contratos /\ ses[s].charge \in Charges /\ l \in Cobranca
  BY <1>1 DEF SesFull, Relida, Linha, Contrata, Cobra, Session
<1>3. Escreve(i, l, r)
  BY DEF StoreCard, Escreve
<1>4. /\ r \in Cobranca /\ r.order = ses[s].charge /\ r.payment = ses[s].charge
      /\ r.status = st
  <2>1. r = [l EXCEPT !.status = st, !.order = ses[s].charge, !.payment = ses[s].charge]
    BY DEF WithCard
  <2> HIDE DEF r, l
  <2> QED
    BY <1>2, <2>1 DEF Cobranca
<1>5. st # "ausente"
  BY DEF OPEN_COBRANCA_STATUSES
<1> HIDE DEF r
<1>6. Escreve(i, ses[s].mapa[i], r) /\ ses[s].mapa[i] # NoRow
  BY <1>2, <1>3
<1>7. /\ Mantem /\ RowsFullInv' /\ Ordens(s, i)
      /\ cobranca'[i].contrato = ses[s].mapa[i].contrato
      /\ cobranca'[i].status # "ausente"
      /\ \A j \in Cobrancas : Recebida(j)' => Recebida(j)
           \/ (j = i /\ r.status = "recebido" /\ r.status # ses[s].mapa[i].status)
  <2> HIDE DEF i, l
  <2> QED
    BY <1>1, <1>2, <1>4, <1>5, <1>6, Troca
<1> QED
  BY <1>2, <1>4, <1>7

LEMMA CommitCardPaidFull ==
  ASSUME FInv, NEW s \in Sessions, CommitCardPaid(s)
  PROVE  FInv'
<1>1. /\ ses[s].via = "card" /\ ses[s].pc = "commit" /\ StoreCard(s, "recebido")
      /\ Credit(s, ses[s].cob, ses[s].charge) /\ UNCHANGED <<hoje, mp>>
  BY DEF CommitCardPaid, At
<1>2. Aprovada(ses[s].charge, mp)
  BY <1>1, Fatos DEF SesFull, Cobra
<1>3. /\ ses[s].cob \in Cobrancas /\ ses[s].ct \in Contratos
      /\ Mantem /\ RowsFullInv' /\ Ordens(s, ses[s].cob)
      /\ cobranca'[ses[s].cob].contrato = ses[s].ct
      /\ cobranca'[ses[s].cob].status # "ausente"
      /\ \A j \in Cobrancas : Recebida(j)' => Recebida(j) \/ j = ses[s].cob
  BY <1>1, ComCartao
<1> QED
  BY <1>1, <1>2, <1>3, GravaComRecibo

(* Closing leaves a session nothing can be said against.                   *)
LEMMA FechaGrava ==
  ASSUME FInv, NEW s \in Sessions, Close(s), UNCHANGED <<hoje, receitas, mp>>,
         Mantem, RowsFullInv', NEW j, Ordens(s, j),
         contrato' \in [Contratos -> Contrato],
         \A k \in Contratos :
           contrato'[k].proximo_vencimento = contrato[k].proximo_vencimento,
         \A i \in Cobrancas : Recebida(i)' => Recebida(i)
  PROVE  FInv'
<1>1. ses' = [ses EXCEPT ![s] = Livre] /\ lock' = Unlocking(s)
  BY DEF Close
<1>2. \A i \in Cobrancas : Livre.mapa[i] = NoRow
  BY DEF Livre
<1>3. Livre \in Session /\ ~Propria(Livre) /\ \A C, M, L : SesFull(Livre, C, M, L)
  BY LivreOK, LivreFull
<1> QED
  BY <1>1, <1>2, <1>3, GravaSemRecibo

LEMMA CommitCardPendingFull ==
  ASSUME FInv, NEW s \in Sessions, CommitCardPending(s)
  PROVE  FInv'
<1> DEFINE st == StatusCard(s)
<1>1. /\ ses[s].via = "card" /\ ses[s].pc = "apply" /\ StoreCard(s, st)
      /\ Close(s) /\ UNCHANGED <<hoje, contrato, receitas, mp>>
  BY DEF CommitCardPending, At
<1>2. /\ st \in OPEN_COBRANCA_STATUSES \cup {"recebido"}
      /\ st = "recebido" => st = ses[s].mapa[ses[s].cob].status
  <2>1. ses[s].cob \in Cobrancas /\ ses[s].mapa[ses[s].cob] # NoRow
    BY <1>1, Fatos DEF SesFull, Linha
  <2>2. /\ RowOK(ses[s].mapa[ses[s].cob])
        /\ ses[s].mapa[ses[s].cob] \in Cobranca
    BY <2>1, Fatos DEF SesFull, Mapa, RowFull, Session
  <2> QED
    BY <2>1, <2>2 DEF StatusCard, RowOK, Cobranca, OPEN_COBRANCA_STATUSES
<1> HIDE DEF st
<1>4. /\ Mantem /\ RowsFullInv' /\ Ordens(s, ses[s].cob)
      /\ \A j \in Cobrancas : Recebida(j)' => Recebida(j)
  BY <1>1, <1>2, ComCartao
<1>5. contrato \in [Contratos -> Contrato]
  BY Fatos
<1> QED
  BY <1>1, <1>4, <1>5, FechaGrava

LEMMA CardAlreadyReceivedFull ==
  ASSUME FInv, NEW s \in Sessions, CardAlreadyReceived(s)
  PROVE  FInv'
  BY Fecha, MpParado DEF CardAlreadyReceived

(* The renewal before the card: the late status is in the row.             *)
LEMMA RenovaCardEscreve ==
  ASSUME FInv, NEW s \in Sessions, RenovaCard(s)
  PROVE  /\ Mantem /\ RowsFullInv' /\ Ordens(s, None)
         /\ \A j \in Cobrancas : Recebida(j)' => Recebida(j)
         /\ \A j \in Cobrancas : cobranca'[j].order = cobranca[j].order
<1> DEFINE i == ses[s].cob
           l == ses[s].mapa[i]
           st == StatusCard(s)
           r == [l EXCEPT !.status = st]
<1>1. /\ ses[s] \in Session /\ SesFull(ses[s], cobranca, mp, Pago)
      /\ ses[s].via = "card" /\ ses[s].pc = "create" /\ mp' = mp
      /\ Escreve(i, l, r)
  BY Fatos DEF RenovaCard, At, Escreve
<1>2. i \in Cobrancas /\ l # NoRow /\ IsOpen(l) /\ l \in Cobranca
  BY <1>1 DEF SesFull, Linha, Session
<1>3. st \in OPEN_COBRANCA_STATUSES
  BY <1>2 DEF StatusCard, IsOpen, OPEN_COBRANCA_STATUSES
<1> HIDE DEF st
<1>4. /\ r \in Cobranca /\ r.status = st /\ r.order = l.order
      /\ r.payment = l.payment /\ st # "ausente" /\ st # "recebido"
  BY <1>2, <1>3 DEF Cobranca, OPEN_COBRANCA_STATUSES
<1> HIDE DEF r
<1>5. /\ Mantem
      /\ RowOK(cobranca'[i])
      /\ \A j \in Cobrancas : j # i => cobranca'[j] = cobranca[j]
      /\ cobranca'[i].status = Dirty(cobranca[i].status, l.status, r.status)
      /\ cobranca'[i].order = Dirty(cobranca[i].order, l.order, r.order)
      /\ cobranca'[i].payment = Dirty(cobranca[i].payment, l.payment, r.payment)
  BY <1>1, <1>2, <1>4, Atualiza
<1> HIDE DEF l, i
<1>6. cobranca'[i].order = cobranca[i].order /\ cobranca'[i].payment = cobranca[i].payment
  BY <1>4, <1>5 DEF Dirty
<1>7. RowsFullInv'
  <2>1. \A j \in Cobrancas : RowFull(cobranca[j], mp)
    BY Fatos
  <2>2. RowFull(cobranca'[i], mp)
    BY <1>2, <1>5, <1>6, <2>1 DEF RowFull
  <2>3. \A j \in Cobrancas : RowFull(cobranca'[j], mp)
    BY <1>5, <2>1, <2>2
  <2> QED
    BY <1>1, <2>3 DEF RowsFullInv
<1>8. ~Propria(ses[s])
  BY <1>1 DEF Propria
<1>9. \A j \in Cobrancas : cobranca'[j].order = cobranca[j].order
  BY <1>5, <1>6
<1>10. Ordens(s, None) /\ \A j \in Cobrancas : Recebida(j)' => Recebida(j)
  BY <1>4, <1>5, <1>8, <1>9 DEF Ordens, Recebida, Dirty
<1> QED
  BY <1>5, <1>7, <1>9, <1>10

LEMMA RenovaCardFull ==
  ASSUME FInv, NEW s \in Sessions, RenovaCard(s)
  PROVE  FInv'
<1> DEFINE n == [ses[s] EXCEPT !.pc = "renovado", !.valor = 0, !.mapa = Livre.mapa]
<1>1. /\ ses[s] \in Session /\ SesFull(ses[s], cobranca, mp, Pago)
      /\ At(s, "card", "create")
  BY Fatos DEF RenovaCard
<1>2. ses' = [ses EXCEPT ![s] = n] /\ n \in Session /\ n.mapa = Livre.mapa
  BY <1>1, Fatos, LivreOK DEF RenovaCard, Session
<1>3. \A i \in Cobrancas : n.mapa[i] = NoRow
  BY <1>2 DEF Livre
<1>4. ~Propria(n)
  BY <1>1 DEF Propria, Session
<1>5. ASSUME NEW C, NEW M, NEW L, Cresce(C, M, L) PROVE SesFull(n, C, M, L)
  <2>1. SesFull(ses[s], C, M, L)
    BY <1>1, <1>5, Segue
  <2>2. Relida(n, C)
    BY <1>1, <2>1 DEF SesFull, Linha, Mapa, Relida, Session, At
  <2> QED
    BY <1>1, <1>3, <1>4, <2>1, <2>2 DEF SesFull, Mapa, RowFull, RowOK, NoRow, Linha,
        Contrata, Cobra, Confirma, PorOrdem, At, Session
<1> HIDE DEF n
<1>6. contrato \in [Contratos -> Contrato]
  BY Fatos
<1> QED
  BY <1>2, <1>3, <1>4, <1>5, <1>6, RenovaCardEscreve, GravaSemRecibo DEF RenovaCard

(* The batch wipes the dead orders, in rows that carried one when loaded.  *)
LEMMA LimpaMortas ==
  ASSUME FInv, NEW s \in Sessions, StoreCleared(s)
  PROVE  /\ Mantem /\ RowsFullInv' /\ Ordens(s, None)
         /\ \A i \in Cobrancas : Recebida(i)' => Recebida(i)
         /\ \A i \in Cobrancas : cobranca'[i].order \in {None, cobranca[i].order}
<1>1. /\ ses[s] \in Session /\ SesFull(ses[s], cobranca, mp, Pago)
      /\ ses[s].via = "expired" /\ ses[s].pc = "scan"
      /\ UNCHANGED <<hoje, contrato, receitas, mp>>
  BY Fatos DEF StoreCleared, At
<1>2. ASSUME NEW i \in Cobrancas
      PROVE  /\ cobranca'[i] \in Cobranca
             /\ RowFull(cobranca'[i], mp)
             /\ cobranca[i].status # "ausente" =>
                  cobranca'[i].status # "ausente"
                    /\ cobranca'[i].contrato = cobranca[i].contrato
             /\ cobranca'[i].order \in {None, cobranca[i].order}
             /\ cobranca'[i].status = cobranca[i].status
  <2>0. cobranca[i] \in Cobranca /\ RowFull(cobranca[i], mp)
    BY Fatos
  <2>1. CASE i \notin ses[s].cand
    <3>1. cobranca'[i] = cobranca[i]
      BY <2>1 DEF StoreCleared
    <3> QED
      BY <2>0, <3>1
  <2>2. CASE i \in ses[s].cand
    <3> DEFINE l == ses[s].mapa[i]
               r == Cleared(l)
               w == Flush(cobranca[i], l, r)
    <3>1. cobranca'[i] = w
      BY <2>2 DEF StoreCleared
    <3>2. l \in Cobranca /\ l.order # None /\ RowFull(l, mp)
      BY <1>1, <2>2 DEF SesFull, Linha, Mapa, Session
    <3>3. cobranca[i].status # "ausente" /\ cobranca[i].contrato = l.contrato
      BY <1>1, <3>2 DEF SesFull, Mapa, NoRow
    <3> HIDE DEF l
    <3>4. l.payment # None
      BY <3>2 DEF RowFull, Debitada, Aprovada
    <3>5. r \in Cobranca /\ r.status = l.status /\ r.order = None /\ r.payment = None
      BY <3>2 DEF Cleared, Cobranca
    <3> HIDE DEF r
    <3>6. /\ w \in Cobranca /\ w.contrato = cobranca[i].contrato
          /\ w.status = Dirty(cobranca[i].status, l.status, r.status)
          /\ w.order = Dirty(cobranca[i].order, l.order, r.order)
          /\ w.payment = Dirty(cobranca[i].payment, l.payment, r.payment)
      BY <2>0, <3>2, <3>5, Descarrega
    <3>7. w.status = cobranca[i].status /\ w.order = None /\ w.payment = None
      BY <3>2, <3>4, <3>5, <3>6 DEF Dirty
    <3> HIDE DEF w
    <3>8. RowFull(w, mp)
      BY <2>0, <3>3, <3>6, <3>7 DEF RowFull, RowOK
    <3> QED
      BY <3>1, <3>6, <3>7, <3>8
  <2> QED
    BY <2>1, <2>2
<1>3. Mantem /\ RowsFullInv'
  <2>1. cobranca' = [i \in Cobrancas |-> cobranca'[i]]
    BY DEF StoreCleared
  <2>2. cobranca' \in [Cobrancas -> Cobranca]
    BY <1>2, <2>1
  <2> QED
    BY <1>1, <1>2, <2>2 DEF Mantem, RowsFullInv
<1>4. ~Propria(ses[s])
  BY <1>1 DEF Propria
<1>5. Ordens(s, None) /\ \A i \in Cobrancas : Recebida(i)' => Recebida(i)
  BY <1>2, <1>4 DEF Ordens, Recebida
<1> QED
  BY <1>2, <1>3, <1>5

LEMMA CommitExpiredFull ==
  ASSUME FInv, NEW s \in Sessions, CommitExpired(s)
  PROVE  FInv'
<1>1. StoreCleared(s) /\ Close(s) /\ UNCHANGED <<hoje, contrato, receitas, mp>>
  BY DEF CommitExpired, StoreCleared
<1>2. contrato \in [Contratos -> Contrato]
  BY Fatos
<1> QED
  BY <1>1, <1>2, LimpaMortas, FechaGrava

LEMMA RenovaExpiredFull ==
  ASSUME FInv, NEW s \in Sessions, RenovaExpired(s)
  PROVE  FInv'
<1> DEFINE n == [ses[s] EXCEPT !.cand = {}, !.mapa = Livre.mapa]
<1>1. /\ ses[s] \in Session /\ SesFull(ses[s], cobranca, mp, Pago)
      /\ At(s, "expired", "scan") /\ StoreCleared(s)
  BY Fatos DEF RenovaExpired, StoreCleared
<1>2. /\ ses' = [ses EXCEPT ![s] = n] /\ n \in Session /\ n.mapa = Livre.mapa
      /\ n.cand = {} /\ lock' = lock
      /\ UNCHANGED <<hoje, contrato, receitas, mp>>
  BY <1>1, Fatos, LivreOK DEF RenovaExpired, Session, StoreCleared
<1>3. \A i \in Cobrancas : n.mapa[i] = NoRow
  BY <1>2 DEF Livre
<1>4. ~Propria(n)
  BY <1>1 DEF Propria, Session, At
<1>5. ASSUME NEW C, NEW M, NEW L, Cresce(C, M, L) PROVE SesFull(n, C, M, L)
  <2>1. SesFull(ses[s], C, M, L)
    BY <1>1, <1>5, Segue
  <2> QED
    BY <1>1, <1>2, <1>3, <1>4, <2>1 DEF SesFull, Mapa, RowFull, RowOK, NoRow, Relida,
        Linha, Contrata, Cobra, Confirma, PorOrdem, At, Session
<1> HIDE DEF n
<1>6. contrato \in [Contratos -> Contrato]
  BY Fatos
<1> QED
  BY <1>1, <1>2, <1>3, <1>4, <1>5, <1>6, LimpaMortas, GravaSemRecibo

(* The delinquency pass marks the contract, and leaves its due date.       *)
LEMMA Marca ==
  ASSUME FInv, NEW s \in Sessions, MarkLate(s), ses[s].ct \in Contratos
  PROVE  /\ contrato' \in [Contratos -> Contrato]
         /\ \A k \in Contratos :
              contrato'[k].proximo_vencimento = contrato[k].proximo_vencimento
<1> DEFINE k0 == ses[s].ct
           old == contrato[k0]
           l == ses[s].ctrow
           i1 == Dirty(old.inadimplente, l.inadimplente, TRUE)
           new == FlushContrato(old, l, [l EXCEPT !.inadimplente = TRUE])
<1>1. contrato \in [Contratos -> Contrato] /\ old \in Contrato /\ l \in Contrato
  BY Fatos DEF Session
<1>2. contrato' = [contrato EXCEPT ![k0] = new]
  BY DEF MarkLate
<1> HIDE DEF old, l
<1>3. i1 \in BOOLEAN
  BY <1>1 DEF Dirty, Contrato
<1>4. new = [old EXCEPT !.inadimplente = i1]
  BY <1>1 DEF FlushContrato, Dirty, Contrato
<1> HIDE DEF i1, new
<1>5. new \in Contrato /\ new.proximo_vencimento = old.proximo_vencimento
  BY <1>1, <1>3, <1>4 DEF Contrato
<1> QED
  BY <1>1, <1>2, <1>5 DEF old

LEMMA CommitDelinquencyFull ==
  ASSUME FInv, NEW s \in Sessions, CommitDelinquency(s)
  PROVE  FInv'
<1> DEFINE i == ses[s].cob
           l == ses[s].mapa[i]
<1>1. /\ ses[s] \in Session /\ SesFull(ses[s], cobranca, mp, Pago)
      /\ ses[s].via = "delinquency"
      /\ MarkLate(s) /\ Close(s) /\ UNCHANGED <<hoje, receitas, mp>>
  BY Fatos DEF CommitDelinquency
<1>2. ses[s].ct \in Contratos
  BY <1>1 DEF SesFull, Contrata
<1>3. /\ contrato' \in [Contratos -> Contrato]
      /\ \A k \in Contratos :
           contrato'[k].proximo_vencimento = contrato[k].proximo_vencimento
  BY <1>1, <1>2, Marca
<1>4. "atrasado" \in OPEN_COBRANCA_STATUSES
  BY DEF OPEN_COBRANCA_STATUSES
<1>5. CASE ses[s].pc = "commit" /\ UNCHANGED cobranca
  <2>1. ~Propria(ses[s])
    BY <1>1, <1>5 DEF Propria
  <2>2. Mantem /\ RowsFullInv'
    BY <1>1, <1>5, Fatos DEF Mantem, RowsFullInv
  <2>3. Ordens(s, None) /\ \A j \in Cobrancas : Recebida(j)' => Recebida(j)
    BY <1>5, <2>1 DEF Ordens, Recebida
  <2> QED
    BY <1>1, <1>3, <2>2, <2>3, FechaGrava
<1>6. CASE /\ ses[s].pc = "apply" /\ i # None
           /\ cobranca' = [cobranca EXCEPT ![i] =
                             Flush(@, l, WithPix(l, "atrasado", s))]
  <2>1. Escreve(i, l, WithPix(l, "atrasado", s))
    BY <1>6 DEF Escreve
  <2>2. /\ Mantem /\ RowsFullInv' /\ Ordens(s, i)
        /\ \A j \in Cobrancas : Recebida(j)' => Recebida(j)
    BY <1>1, <1>4, <1>6, <2>1, TrocaPix
  <2> HIDE DEF i
  <2> QED
    BY <1>1, <1>3, <2>2, FechaGrava
<1>7. ASSUME ses[s].pc = "apply", NEW j \in Cobrancas, NextId(j),
             cobranca' = [cobranca EXCEPT ![j] =
                     WithPix([NoRow EXCEPT !.contrato = ses[s].ct,
                                !.vencimento = ses[s].ctrow.proximo_vencimento],
                             "atrasado", s)]
      PROVE  FInv'
  <2>1. /\ Mantem /\ RowsFullInv' /\ Ordens(s, j)
        /\ \A m \in Cobrancas : Recebida(m)' => Recebida(m)
    BY <1>1, <1>4, <1>7, InserePix
  <2> QED
    BY <1>1, <1>3, <2>1, FechaGrava
<1> QED
  BY <1>5, <1>6, <1>7 DEF CommitDelinquency

(* The renewal ends the tick of the contract, which stays marked.          *)
LEMMA RenovaDelinquencyFull ==
  ASSUME FInv, NEW s \in Sessions, RenovaDelinquency(s)
  PROVE  FInv'
<1>1. /\ ses[s] \in Session /\ SesFull(ses[s], cobranca, mp, Pago)
      /\ ses[s].via = "delinquency"
      /\ MarkLate(s) /\ Close(s) /\ UNCHANGED <<hoje, cobranca, receitas, mp>>
  BY Fatos DEF RenovaDelinquency
<1>2. ses[s].ct \in Contratos
  BY <1>1 DEF SesFull, Contrata
<1>3. /\ contrato' \in [Contratos -> Contrato]
      /\ \A k \in Contratos :
           contrato'[k].proximo_vencimento = contrato[k].proximo_vencimento
  BY <1>1, <1>2, Marca
<1>4. Mantem /\ RowsFullInv'
  BY <1>1, Fatos DEF Mantem, RowsFullInv
<1>5. Ordens(s, None) /\ \A j \in Cobrancas : Recebida(j)' => Recebida(j)
  BY <1>1 DEF Ordens, Recebida
<1> QED
  BY <1>1, <1>3, <1>4, <1>5, FechaGrava

-----------------------------------------------------------------------------
(* Every step keeps the invariant.                                         *)
LEMMA NextFull == FInv /\ [Next]_vars => FInv'
<1> SUFFICES ASSUME FInv, [Next]_vars PROVE FInv'
  OBVIOUS
<1>1. CASE Mundo
  BY <1>1, MundoFull
<1>2. ASSUME NEW s \in Sessions, LockingStep(s) PROVE FInv'
  <2>1. CASE Webhook(s)
    BY <2>1, ReceiveFull, LockCobrancaFull, FimFull, SubscriptionContractFull,
       SubscriptionOpenFull, SubscriptionInsertFull, LoadContratoFull,
       CommitPaymentFull DEF Webhook, Finalize
  <2>2. CASE CreatePixCharge(s)
    BY <2>2, StartCreatePixFull, FimFull, LockOpenFull, NoneOpenFull, InsertPixFull,
       CreateOrderReloadFull DEF CreatePixCharge
  <2>3. CASE SendPix(s)
    BY <2>3, CreateOrderFull, CommitPixFull, CancelSupersededFull DEF SendPix
  <2>4. CASE Abort(s)
    BY <2>4, FimFull
  <2>5. CASE RenovaCreatePix(s)
    BY <2>5, RenovaCreatePixFull
  <2> QED
    BY <1>2, <2>1, <2>2, <2>3, <2>4, <2>5 DEF LockingStep, LockedStep
<1>3. ASSUME NEW s \in Sessions, UnlockedStep(s) PROVE FInv'
  <2>1. CASE Reconcile(s)
    BY <2>1, StartBatchFull, SkipUnpaidFull, ConfirmPaidFull, SelectFull, FimFull,
       RenovaReconcileFull DEF Reconcile, StartReconcile
  <2>2. CASE ReconcileExpired(s)
    BY <2>2, StartBatchFull, VisitExpiredFull, CommitExpiredFull, RenovaExpiredFull
       DEF ReconcileExpired, StartExpired
  <2>3. CASE Tick(s)
    BY <2>3, StartDelinquencyFull, ReadOpenFull, CancelBeforeCommitFull,
       CommitDelinquencyFull, RenovaDelinquencyFull DEF Tick
  <2>4. CASE EnsurePix(s)
    BY <2>4, StartEnsurePixFull, RenovaEnsurePixFull, CreateOrderBlindFull,
       OverwritePixFull DEF EnsurePix
  <2>5. CASE Card(s)
    BY <2>5, StartCardFull, ChargeCardFull, RenovaCardFull, ChargeCardReloadFull,
       CommitCardPaidFull, CardAlreadyReceivedFull, CommitCardPendingFull DEF Card
  <2> QED
    BY <1>3, <2>1, <2>2, <2>3, <2>4, <2>5 DEF UnlockedStep
<1>4. CASE UNCHANGED vars
  <2>1. UNCHANGED <<cobranca, receitas, contrato>> /\ mp' = mp
    BY <1>4 DEF vars
  <2>2. RecebidaComprovada' /\ ReceitaTemPagamento' /\ VencimentoPago' /\ Pago' = Pago
        /\ RowsFullInv' /\ BooksInv' /\ DebitosInv'
    BY <2>1, Tabelas, MpParado
  <2>3. SesFullInv' /\ TypeOK' /\ Lugares'
    BY <1>4, <2>2 DEF vars, FInv, Base, SesFullInv, TypeOK, Lugares, Lugar
  <2> QED
    BY <2>2, <2>3 DEF FInv, Base
<1> QED
  BY <1>1, <1>2, <1>3, <1>4 DEF Next

LEMMA FullInvariance == Spec => []FInv
  BY InitFull, NextFull, PTL DEF Spec

(* The types, whatever handlers overlap.                                   *)
THEOREM TypeCorrect == Spec => []TypeOK
<1>1. FInv => TypeOK
  BY DEF FInv, Base
<1> QED
  BY <1>1, FullInvariance, PTL

(* No charge is marked received without its receipt, in the whole system:  *)
(* also where handlers write rows they have not locked.                    *)
THEOREM ReceivedIsBooked == Spec => []RecebidaComprovada
<1>1. FInv => RecebidaComprovada
  BY DEF FInv
<1> QED
  BY <1>1, FullInvariance, PTL

(* No receipt without money, whichever handler booked it.                  *)
THEOREM ReceiptsArePaid == Spec => []ReceitaTemPagamento
<1>1. FInv => ReceitaTemPagamento
  BY DEF FInv
<1> QED
  BY <1>1, FullInvariance, PTL

(* The due date of a contract never runs ahead of its receipts, whatever   *)
(* old copy of the contract a session writes back.                         *)
THEOREM DueDateIsPaid == Spec => []VencimentoPago
<1>1. FInv => VencimentoPago
  BY DEF FInv
<1> QED
  BY <1>1, FullInvariance, PTL
-----------------------------------------------------------------------------
(***************************************************************************)
(* The code of an open charge, in the whole system but for the daily tick, *)
(* which cancels before it commits.  A code is cancelled by the session    *)
(* that replaced it, after its commit: by then no row carries it, and none *)
(* ever will, since the only id a session writes that its row did not      *)
(* carry is that of the order it created itself.                           *)
(***************************************************************************)

SemTickStep(s) ==
  \/ LockingStep(s)
  \/ Reconcile(s) \/ ReconcileExpired(s) \/ EnsurePix(s) \/ Card(s)

SemTickNext == Mundo \/ \E s \in Sessions : SemTickStep(s)

SemTickSpec == Init /\ [][SemTickNext]_vars

(* No row has the order c, and no session will write it to one.            *)
Fora(c) ==
  /\ \A i \in Cobrancas : cobranca[i].order # c
  /\ \A s \in Sessions : Propria(ses[s]) => ses[s].charge # c

(* The order a session will cancel: the one of its row, until it replaced  *)
(* it; then one that is gone for good.                                     *)
Reemite(n) ==
  \/ n.via \in {"create_pix", "ensure_pix"} /\ n.pc \in {"create", "apply"}
  \/ n.via = "ensure_pix" /\ n.pc \in {"renovado", "expirado"}

Antigo(n) ==
  /\ n.via = "create_pix" /\ n.pc = "lock_open" => n.antigo = None
  /\ Reemite(n) =>
       n.antigo = IF n.cob = None THEN None ELSE n.mapa[n.cob].order

CodInv ==
  /\ \A c \in Charges : mp[c].status = "cancelled" => Fora(c)
  /\ \A s \in Sessions :
       /\ Antigo(ses[s])
       /\ \A c \in Charges : ses[s].pc = "cancel" /\ ses[s].antigo = c =>
            Fora(c) /\ mp[c].status # "livre"

(* What a step may do to the orders of rows and to the charges sessions    *)
(* hold: nothing comes back.                                               *)
Regra ==
  /\ \A i \in Cobrancas :
       \/ cobranca'[i].order \in {None, cobranca[i].order}
       \/ \E s \in Sessions : Propria(ses[s]) /\ cobranca'[i].order = ses[s].charge
  /\ \A s \in Sessions : Propria(ses'[s]) =>
       \/ Propria(ses[s]) /\ ses'[s].charge = ses[s].charge
       \/ mp[ses'[s].charge].status = "livre"
  /\ \A c \in Charges : mp[c].status # "livre" => mp'[c].status # "livre"

LEMMA Fica ==
  ASSUME Regra, NEW c \in Charges, Fora(c), mp[c].status # "livre"
  PROVE  Fora(c)'
<1>1. \A i \in Cobrancas : cobranca'[i].order # c
  BY DEF Regra, Fora
<1>2. \A s \in Sessions : Propria(ses'[s]) => ses'[s].charge # c
  BY DEF Regra, Fora
<1> QED
  BY <1>1, <1>2 DEF Fora

(* A step of one session, that cancels nothing or what is gone.            *)
LEMMA PassoCod ==
  ASSUME CodInv, NEW s \in Sessions,
         \A t \in Sessions : t # s => ses'[t] = ses[t],
         Regra, Antigo(ses'[s]),
         \A c \in Charges : ses'[s].pc = "cancel" /\ ses'[s].antigo = c =>
           Fora(c)' /\ mp'[c].status # "livre",
         \A c \in Charges : mp'[c].status = "cancelled" =>
           \/ mp[c].status = "cancelled"
           \/ Fora(c) /\ mp[c].status # "livre"
  PROVE  CodInv'
<1>1. ASSUME NEW c \in Charges, mp'[c].status = "cancelled" PROVE Fora(c)'
  <2>1. Fora(c) /\ mp[c].status # "livre"
    BY <1>1 DEF CodInv
  <2> QED
    BY <2>1, Fica
<1>2. ASSUME NEW t \in Sessions
      PROVE  /\ Antigo(ses'[t])
             /\ \A c \in Charges : ses'[t].pc = "cancel" /\ ses'[t].antigo = c =>
                  Fora(c)' /\ mp'[c].status # "livre"
  <2>1. CASE t # s
    <3>1. ses'[t] = ses[t] /\ Antigo(ses[t])
      BY <2>1 DEF CodInv
    <3>2. ASSUME NEW c \in Charges, ses[t].pc = "cancel", ses[t].antigo = c
          PROVE  Fora(c)' /\ mp'[c].status # "livre"
      <4>1. Fora(c) /\ mp[c].status # "livre"
        BY <3>2 DEF CodInv
      <4> QED
        BY <4>1, Fica DEF Regra
    <3> QED
      BY <3>1, <3>2
  <2> QED
    BY <2>1
<1> QED
  BY <1>1, <1>2 DEF CodInv

(* A step that writes no row, calls nobody and holds no charge of its own. *)
Calma(s) ==
  /\ \A t \in Sessions : t # s => ses'[t] = ses[t]
  /\ UNCHANGED <<cobranca, mp>>
  /\ ses'[s].pc # "cancel" /\ ~Propria(ses'[s])

LEMMA CalmaCod ==
  ASSUME CodInv, NEW s \in Sessions, Calma(s), Antigo(ses'[s])
  PROVE  CodInv'
<1>1. Regra
  BY DEF Calma, Regra
<1>2. /\ \A t \in Sessions : t # s => ses'[t] = ses[t]
      /\ mp' = mp /\ ses'[s].pc # "cancel"
  BY DEF Calma
<1>3. \A c \in Charges : ses'[s].pc = "cancel" /\ ses'[s].antigo = c =>
        Fora(c)' /\ mp'[c].status # "livre"
  BY <1>2
<1>4. \A c \in Charges : mp'[c].status = "cancelled" =>
        mp[c].status = "cancelled" \/ (Fora(c) /\ mp[c].status # "livre")
  BY <1>2
<1> QED
  BY <1>1, <1>2, <1>3, <1>4, PassoCod

(* The steps to a point where nothing is known of the order to cancel.     *)
LEMMA OutrosCod ==
  ASSUME FInv, CodInv, NEW s \in Sessions,
         \/ \E c \in Charges : RecvOrder(s, c) \/ RecvPayment(s, c) \/ RecvSubscription(s, c)
         \/ LockCobranca(s) \/ NotFound(s) \/ AlreadyReceived(s) \/ LoadContrato(s)
         \/ SubscriptionContract(s) \/ SubscriptionOpen(s)
         \/ ReusePix(s) \/ Abort(s)
         \/ StartReconcile(s) \/ SkipUnpaid(s) \/ ConfirmPaid(s) \/ SelectPaid(s)
         \/ ReconcileNotFound(s) \/ RenovaReconcile(s) \/ EndReconcile(s)
         \/ StartExpired(s) \/ VisitExpired(s) \/ CardAlreadyReceived(s)
  PROVE  CodInv'
<1>0. /\ ses \in [Sessions -> Session] /\ ses[s] \in Session
      /\ SesFull(ses[s], cobranca, mp, Pago)
  BY Fatos
<1>1. ASSUME NEW n, ses' = [ses EXCEPT ![s] = n], UNCHANGED <<cobranca, mp>>,
             n.pc \notin {"create", "renovado", "apply", "expirado", "cancel"},
             ~Propria(n),
             n.via = "create_pix" => n.pc # "lock_open"
      PROVE  CodInv'
  <2>1. ses'[s] = n /\ \A t \in Sessions : t # s => ses'[t] = ses[t]
    BY <1>0, <1>1
  <2>2. Calma(s) /\ Antigo(ses'[s])
    BY <1>1, <2>1 DEF Calma, Antigo, Reemite
  <2> QED
    BY <2>2, CalmaCod
<1>2. CASE Close(s) /\ UNCHANGED <<cobranca, mp>>
  <2>1. Livre.pc = "livre" /\ Livre.via = "livre" /\ ~Propria(Livre)
    BY DEF Livre, Propria
  <2> QED
    BY <1>1, <1>2, <2>1 DEF Close
<1>3. ASSUME NEW c \in Charges,
             RecvOrder(s, c) \/ RecvPayment(s, c) \/ RecvSubscription(s, c)
      PROVE  CodInv'
  <2>1. PICK via \in {"order", "payment", "subscription"} : Receive(s, via, c)
    BY <1>3 DEF RecvOrder, RecvPayment, RecvSubscription
  <2> DEFINE n == [Livre EXCEPT !.via = via, !.pc = "lock", !.charge = c,
                                !.cand = Lookup(via, c)]
  <2>2. ses' = [ses EXCEPT ![s] = n] /\ UNCHANGED <<cobranca, mp>>
    BY <2>1 DEF Receive
  <2>3. n.pc = "lock" /\ n.via # "create_pix" /\ ~Propria(n)
    BY DEF Livre, Propria
  <2> HIDE DEF n
  <2> QED
    BY <1>1, <2>2, <2>3
<1>4. ASSUME NEW n, ses' = [ses EXCEPT ![s] = n], UNCHANGED <<cobranca, mp>>,
             n.via = ses[s].via,
             n.pc \in {"finalize", "scan", "fetch", "lock"}
               \/ (n.pc = "commit" /\ n.via # "card")
               \/ (n.pc = "lock_open" /\ n.via = "subscription")
      PROVE  CodInv'
  <2>1. ~Propria(n)
    BY <1>4 DEF Propria
  <2> QED
    BY <1>1, <1>4, <2>1
<1>5. CASE LockCobranca(s)
  <2>1. PICK i \in Matching(s) :
          ses' = [ses EXCEPT ![s].pc = "finalize", ![s].cob = i,
                    ![s].cand = {}, ![s].mapa = Holding(s, Matching(s))]
    BY <1>5 DEF LockCobranca
  <2> DEFINE n == [ses[s] EXCEPT !.pc = "finalize", !.cob = i, !.cand = {},
                                 !.mapa = Holding(s, Matching(s))]
  <2>2. ses' = [ses EXCEPT ![s] = n] /\ UNCHANGED <<cobranca, mp>>
    BY <1>0, <1>5, <2>1 DEF LockCobranca
  <2>3. n.via = ses[s].via /\ n.pc = "finalize"
    BY <1>0 DEF Session
  <2> HIDE DEF n
  <2> QED
    BY <1>4, <2>2, <2>3
<1>6. CASE \/ NotFound(s) \/ ReusePix(s) \/ Abort(s) \/ EndReconcile(s)
           \/ CardAlreadyReceived(s)
  BY <1>2, <1>6 DEF NotFound, ReusePix, Abort, EndReconcile, CardAlreadyReceived
<1>7. CASE AlreadyReceived(s)
  <2>1. CASE ses[s].via # "reconcile"
    BY <1>2, <1>7, <2>1 DEF AlreadyReceived
  <2>2. CASE ses[s].via = "reconcile"
    <3> DEFINE n == [ses[s] EXCEPT !.pc = "scan", !.cob = None, !.charge = None]
    <3>1. ses' = [ses EXCEPT ![s] = n] /\ UNCHANGED <<cobranca, mp>>
      BY <1>0, <1>7, <2>2 DEF AlreadyReceived
    <3>2. n.via = ses[s].via /\ n.pc = "scan"
      BY <1>0 DEF Session
    <3> HIDE DEF n
    <3> QED
      BY <1>4, <3>1, <3>2
  <2> QED
    BY <2>1, <2>2
<1>8. CASE LoadContrato(s)
  <2> DEFINE k == ses[s].mapa[ses[s].cob].contrato
             n == [ses[s] EXCEPT !.pc = "commit", !.ct = k, !.ctrow = contrato[k]]
  <2>1. ses' = [ses EXCEPT ![s] = n] /\ UNCHANGED <<cobranca, mp>>
    BY <1>0, <1>8 DEF LoadContrato
  <2>2. n.via = ses[s].via /\ n.pc = "commit" /\ ses[s].via # "card"
    BY <1>0, <1>8 DEF LoadContrato, Session, SesFull, Cobra
  <2> HIDE DEF n
  <2> QED
    BY <1>4, <2>1, <2>2
<1>9. CASE SubscriptionContract(s)
  <2> DEFINE k == mp[ses[s].charge].contrato
             n == [ses[s] EXCEPT !.pc = "lock_open", !.ct = k, !.ctrow = contrato[k],
                     !.valor = Atraso(contrato[k].proximo_vencimento, hoje),
                     !.cand = OpenOf(k)]
  <2>1. ses' = [ses EXCEPT ![s] = n] /\ UNCHANGED <<cobranca, mp>>
    BY <1>0, <1>9 DEF SubscriptionContract
  <2>2. n.via = ses[s].via /\ n.pc = "lock_open" /\ n.via = "subscription"
    BY <1>0, <1>9 DEF SubscriptionContract, Session, At
  <2> HIDE DEF n
  <2> QED
    BY <1>4, <2>1, <2>2
<1>10. CASE SubscriptionOpen(s)
  <2>1. PICK i \in StillOpen(s) :
          ses' = [ses EXCEPT ![s].pc = "commit", ![s].cob = i,
                    ![s].cand = {}, ![s].mapa = Holding(s, StillOpen(s))]
    BY <1>10 DEF SubscriptionOpen
  <2> DEFINE n == [ses[s] EXCEPT !.pc = "commit", !.cob = i, !.cand = {},
                                 !.mapa = Holding(s, StillOpen(s))]
  <2>2. ses' = [ses EXCEPT ![s] = n] /\ UNCHANGED <<cobranca, mp>>
    BY <1>0, <1>10, <2>1 DEF SubscriptionOpen
  <2>3. n.via = ses[s].via /\ n.pc = "commit" /\ n.via = "subscription"
    BY <1>0, <1>10 DEF Session, SubscriptionOpen, At
  <2> HIDE DEF n
  <2> QED
    BY <1>4, <2>2, <2>3
<1>11. ASSUME NEW via \in {"reconcile", "expired"}, StartBatch(s, via) PROVE CodInv'
  <2> DEFINE m == [i \in Cobrancas |->
                     IF i \in OpenWithOrder THEN cobranca[i] ELSE NoRow]
             n == [Livre EXCEPT !.via = via, !.pc = "scan", !.pend = OpenWithOrder,
                                !.mapa = m]
  <2>1. ses' = [ses EXCEPT ![s] = n] /\ UNCHANGED <<cobranca, mp>>
    BY <1>11 DEF StartBatch
  <2>2. n.via = via /\ n.pc = "scan"
    BY DEF Livre
  <2> HIDE DEF n
  <2>3. ~Propria(n)
    BY <2>2 DEF Propria
  <2> QED
    BY <1>1, <2>1, <2>2, <2>3
<1>12. CASE SkipUnpaid(s)
  <2>1. PICK i \in Cobrancas :
          /\ Visiting(s, i)
          /\ ses' = [ses EXCEPT ![s].pend = @ \ {i}, ![s].mapa = Holding(s, {i})]
    BY <1>12 DEF SkipUnpaid
  <2> DEFINE n == [ses[s] EXCEPT !.pend = @ \ {i}, !.mapa = Holding(s, {i})]
  <2>2. ses' = [ses EXCEPT ![s] = n] /\ UNCHANGED <<cobranca, mp>>
    BY <1>0, <1>12, <2>1 DEF SkipUnpaid
  <2>3. n.via = ses[s].via /\ n.pc = "scan"
    BY <1>0, <2>1 DEF Session, Visiting
  <2> HIDE DEF n
  <2> QED
    BY <1>4, <2>2, <2>3
<1>13. CASE ConfirmPaid(s)
  <2>1. PICK i \in Cobrancas :
          ses' = [ses EXCEPT
            ![s].pc = "fetch", ![s].pend = @ \ {i},
            ![s].mapa = Holding(s, {i}),
            ![s].charge = IF PaidOrder(View(s, i)) THEN View(s, i).order
                          ELSE View(s, i).payment]
    BY <1>13 DEF ConfirmPaid
  <2> DEFINE n == [ses[s] EXCEPT !.pc = "fetch", !.pend = @ \ {i},
                     !.mapa = Holding(s, {i}),
                     !.charge = IF PaidOrder(View(s, i)) THEN View(s, i).order
                                ELSE View(s, i).payment]
  <2>2. ses' = [ses EXCEPT ![s] = n] /\ UNCHANGED <<cobranca, mp>>
    BY <1>0, <1>13, <2>1 DEF ConfirmPaid
  <2>3. n.via = ses[s].via /\ n.pc = "fetch"
    BY <1>0 DEF Session
  <2> HIDE DEF n
  <2> QED
    BY <1>4, <2>2, <2>3
<1>14. CASE SelectPaid(s) \/ ReconcileNotFound(s)
  <2>1. CASE SelectPaid(s)
    <3> DEFINE n == [ses[s] EXCEPT !.pc = "lock",
                                   !.cand = Lookup("reconcile", ses[s].charge)]
    <3>1. ses' = [ses EXCEPT ![s] = n] /\ UNCHANGED <<cobranca, mp>>
      BY <1>0, <2>1 DEF SelectPaid
    <3>2. n.via = ses[s].via /\ n.pc = "lock"
      BY <1>0 DEF Session
    <3> HIDE DEF n
    <3> QED
      BY <1>4, <3>1, <3>2
  <2>2. CASE ReconcileNotFound(s)
    <3> DEFINE n == [ses[s] EXCEPT !.pc = "scan", !.cand = {}, !.charge = None]
    <3>1. ses' = [ses EXCEPT ![s] = n] /\ UNCHANGED <<cobranca, mp>>
      BY <1>0, <2>2 DEF ReconcileNotFound
    <3>2. n.via = ses[s].via /\ n.pc = "scan"
      BY <1>0 DEF Session
    <3> HIDE DEF n
    <3> QED
      BY <1>4, <3>1, <3>2
  <2> QED
    BY <1>14, <2>1, <2>2
<1>15. CASE VisitExpired(s)
  <2>1. PICK i \in Cobrancas :
          /\ Visiting(s, i)
          /\ ses' = [ses EXCEPT ![s].pend = @ \ {i}, ![s].mapa = Holding(s, {i}),
              ![s].cand = IF Dead(View(s, i).order) THEN @ \cup {i} ELSE @]
    BY <1>15 DEF VisitExpired
  <2> DEFINE n == [ses[s] EXCEPT !.pend = @ \ {i}, !.mapa = Holding(s, {i}),
              !.cand = IF Dead(View(s, i).order) THEN @ \cup {i} ELSE @]
  <2>2. ses' = [ses EXCEPT ![s] = n] /\ UNCHANGED <<cobranca, mp>>
    BY <1>0, <1>15, <2>1 DEF VisitExpired
  <2>3. n.via = ses[s].via /\ n.pc = "scan"
    BY <1>0, <2>1 DEF Session, Visiting
  <2> HIDE DEF n
  <2> QED
    BY <1>4, <2>2, <2>3
<1>16. CASE RenovaReconcile(s)
  <2> DEFINE n == [ses[s] EXCEPT !.mapa = Livre.mapa]
  <2>1. ses' = [ses EXCEPT ![s] = n] /\ UNCHANGED <<cobranca, mp>>
    BY <1>0, <1>16 DEF RenovaReconcile
  <2>2. n.via = ses[s].via /\ n.pc = "scan"
    BY <1>0, <1>16 DEF RenovaReconcile, Session, At
  <2> HIDE DEF n
  <2> QED
    BY <1>4, <2>1, <2>2
<1> QED
  BY <1>3, <1>5, <1>6, <1>7, <1>8, <1>9, <1>10, <1>11, <1>12, <1>13, <1>14, <1>15,
     <1>16 DEF StartReconcile, StartExpired

(* The steps that remember, or carry along, the order to supersede.        *)
LEMMA PixCod ==
  ASSUME FInv, CodInv, NEW s \in Sessions,
         \/ \E k \in Contratos : StartCreatePix(s, k)
         \/ \E i \in Cobrancas : StartEnsurePix(s, i) \/ StartCard(s, i)
         \/ LockOpen(s) \/ NoneOpen(s)
         \/ RenovaCreatePix(s) \/ RenovaEnsurePix(s)
  PROVE  CodInv'
<1>0. /\ ses \in [Sessions -> Session] /\ ses[s] \in Session
      /\ SesFull(ses[s], cobranca, mp, Pago)
  BY Fatos
<1>1. ASSUME NEW n, ses' = [ses EXCEPT ![s] = n], UNCHANGED <<cobranca, mp>>,
             n.pc \in {"create", "lock_open", "renovado"}, Antigo(n)
      PROVE  CodInv'
  <2>1. ses'[s] = n /\ \A t \in Sessions : t # s => ses'[t] = ses[t]
    BY <1>0, <1>1
  <2>2. Calma(s)
    BY <1>1, <2>1 DEF Calma, Propria
  <2> QED
    BY <1>1, <2>1, <2>2, CalmaCod
<1>2. ASSUME NEW k \in Contratos, StartCreatePix(s, k) PROVE CodInv'
  <2> DEFINE n == [Livre EXCEPT !.via = "create_pix", !.pc = "lock_open",
                     !.ct = k, !.ctrow = contrato[k],
                     !.valor = Atraso(contrato[k].proximo_vencimento, hoje),
                     !.cand = OpenOf(k)]
  <2>1. ses' = [ses EXCEPT ![s] = n] /\ UNCHANGED <<cobranca, mp>>
    BY <1>2 DEF StartCreatePix
  <2>2. n.pc = "lock_open" /\ n.antigo = None
    BY DEF Livre
  <2> HIDE DEF n
  <2> QED
    BY <1>1, <2>1, <2>2 DEF Antigo, Reemite
<1>3. ASSUME NEW i \in Cobrancas, StartEnsurePix(s, i) PROVE CodInv'
  <2> DEFINE m == [Livre.mapa EXCEPT ![i] = cobranca[i]]
             n == [Livre EXCEPT !.via = "ensure_pix", !.pc = "create", !.cob = i,
                     !.ct = cobranca[i].contrato,
                     !.ctrow = contrato[cobranca[i].contrato],
                     !.valor = Atraso(cobranca[i].vencimento, hoje),
                     !.antigo = cobranca[i].order, !.mapa = m]
  <2>1. ses' = [ses EXCEPT ![s] = n] /\ UNCHANGED <<cobranca, mp>>
    BY <1>3 DEF StartEnsurePix
  <2>2. m[i] = cobranca[i] /\ i # None
    BY DEF Livre
  <2>3. n.pc = "create" /\ n.antigo = cobranca[i].order /\ n.cob = i /\ n.mapa = m
    BY DEF Livre
  <2> HIDE DEF n, m
  <2> QED
    BY <1>1, <2>1, <2>2, <2>3 DEF Antigo, Reemite
<1>4. ASSUME NEW i \in Cobrancas, StartCard(s, i) PROVE CodInv'
  <2> DEFINE n == [Livre EXCEPT !.via = "card", !.pc = "create", !.cob = i,
                     !.ct = cobranca[i].contrato,
                     !.ctrow = contrato[cobranca[i].contrato],
                     !.valor = Atraso(cobranca[i].vencimento, hoje),
                     !.mapa = [Livre.mapa EXCEPT ![i] = cobranca[i]]]
  <2>1. ses' = [ses EXCEPT ![s] = n] /\ UNCHANGED <<cobranca, mp>>
    BY <1>4 DEF StartCard
  <2>2. n.pc = "create" /\ n.via = "card"
    BY DEF Livre
  <2> HIDE DEF n
  <2> QED
    BY <1>1, <2>1, <2>2 DEF Antigo, Reemite
<1>5. CASE LockOpen(s)
  <2> DEFINE m == Holding(s, OpenNow(s))
  <2>1. PICK i \in Cobrancas :
          /\ OpenLocked(s, i)
          /\ ses' = [ses EXCEPT ![s].pc = "create", ![s].cob = i, ![s].cand = {},
                       ![s].antigo = cobranca[i].order, ![s].mapa = m]
    BY <1>5 DEF LockOpen
  <2> DEFINE n == [ses[s] EXCEPT !.pc = "create", !.cob = i, !.cand = {},
                     !.antigo = cobranca[i].order, !.mapa = m]
  <2>2. ses' = [ses EXCEPT ![s] = n] /\ UNCHANGED <<cobranca, mp>>
    BY <1>0, <1>5, <2>1 DEF LockOpen
  <2>3. m[i] = cobranca[i] /\ i # None
    BY <1>0, <2>1 DEF OpenLocked, Last, SesFull, Cobra, At, Holding, View
  <2>4. n.pc = "create" /\ n.antigo = cobranca[i].order /\ n.cob = i /\ n.mapa = m
    BY <1>0 DEF Session
  <2> HIDE DEF n, m
  <2> QED
    BY <1>1, <2>2, <2>3, <2>4 DEF Antigo, Reemite
<1>6. CASE NoneOpen(s)
  <2> DEFINE n == [ses[s] EXCEPT !.pc = "create", !.cand = {}]
  <2>1. ses' = [ses EXCEPT ![s] = n] /\ UNCHANGED <<cobranca, mp>>
    BY <1>0, <1>6 DEF NoneOpen
  <2>2. ses[s].antigo = None /\ ses[s].cob = None
    BY <1>0, <1>6 DEF NoneOpen, At, SesFull, Cobra, CodInv, Antigo
  <2>3. n.pc = "create" /\ n.antigo = None /\ n.cob = None
    BY <1>0, <2>2 DEF Session
  <2> HIDE DEF n
  <2> QED
    BY <1>1, <2>1, <2>3 DEF Antigo, Reemite
<1>7. CASE RenovaCreatePix(s)
  <2> DEFINE n == [ses[s] EXCEPT !.pc = "renovado", !.mapa = Livre.mapa]
  <2>1. ses' = [ses EXCEPT ![s] = n] /\ UNCHANGED <<cobranca, mp>>
    BY <1>0, <1>7 DEF RenovaCreatePix
  <2>2. n.pc = "renovado" /\ n.via = "create_pix"
    BY <1>0, <1>7 DEF RenovaCreatePix, Session, At
  <2> HIDE DEF n
  <2> QED
    BY <1>1, <2>1, <2>2 DEF Antigo, Reemite
<1>8. CASE RenovaEnsurePix(s)
  <2> DEFINE n == [ses[s] EXCEPT !.pc = "renovado"]
  <2>1. ses' = [ses EXCEPT ![s] = n] /\ UNCHANGED <<cobranca, mp>>
    BY <1>0, <1>8 DEF RenovaEnsurePix
  <2>2. Antigo(ses[s]) /\ Reemite(ses[s])
    BY <1>8 DEF CodInv, RenovaEnsurePix, At, Reemite
  <2>3. /\ n.pc = "renovado" /\ n.via = "ensure_pix" /\ n.antigo = ses[s].antigo
        /\ n.cob = ses[s].cob /\ n.mapa = ses[s].mapa
    BY <1>0, <1>8 DEF RenovaEnsurePix, Session, At
  <2> HIDE DEF n
  <2> QED
    BY <1>1, <2>1, <2>2, <2>3 DEF Antigo
<1> QED
  BY <1>2, <1>3, <1>4, <1>5, <1>6, <1>7, <1>8

(* A new charge at Mercado Pago goes to the session that asked for it.     *)
LEMMA CriaCod ==
  ASSUME FInv, CodInv, NEW s \in Sessions,
         \/ CreateOrder(s) \/ CreateOrderReload(s) \/ CreateOrderBlind(s)
         \/ ChargeCard(s) \/ ChargeCardReload(s)
  PROVE  CodInv'
<1>0. /\ ses \in [Sessions -> Session] /\ ses[s] \in Session
      /\ mp \in [Charges -> Charge]
  BY Fatos
<1>1. ASSUME NEW c \in Charges, mp[c].status = "livre",
             NEW r, mp' = [mp EXCEPT ![c] = r],
             r.status # "livre", r.status # "cancelled",
             NEW n, ses' = [ses EXCEPT ![s] = n], n.charge = c, n.pc # "cancel",
             Antigo(n), UNCHANGED cobranca
      PROVE  CodInv'
  <2>1. ses'[s] = n /\ \A t \in Sessions : t # s => ses'[t] = ses[t]
    BY <1>0, <1>1
  <2>2. mp'[c] = r /\ \A o \in Charges : o # c => mp'[o] = mp[o]
    BY <1>0, <1>1
  <2>3. Regra
    BY <1>1, <2>1, <2>2 DEF Regra
  <2>4. \A o \in Charges : mp'[o].status = "cancelled" => mp[o].status = "cancelled"
    BY <1>1, <2>2
  <2>5. \A o \in Charges : ses'[s].pc = "cancel" /\ ses'[s].antigo = o =>
          Fora(o)' /\ mp'[o].status # "livre"
    BY <1>1, <2>1
  <2> QED
    BY <1>1, <2>1, <2>3, <2>4, <2>5, PassoCod
<1>2. CASE CreateOrder(s)
  <2>1. PICK c \in Charges :
          /\ NewOrder(c, ses[s].ct)
          /\ ses' = [ses EXCEPT ![s].pc = "apply", ![s].charge = c]
    BY <1>2 DEF CreateOrder
  <2> DEFINE n == [ses[s] EXCEPT !.pc = "apply", !.charge = c]
             r == [status |-> "created", tipo |-> "order", contrato |-> ses[s].ct]
  <2>2. ses' = [ses EXCEPT ![s] = n] /\ UNCHANGED cobranca
    BY <1>0, <1>2, <2>1 DEF CreateOrder
  <2>3. mp[c].status = "livre" /\ mp' = [mp EXCEPT ![c] = r]
    BY <2>1 DEF NewOrder
  <2>4. r.status = "created"
    OBVIOUS
  <2>5. /\ n.charge = c /\ n.pc = "apply" /\ n.via = ses[s].via
        /\ n.antigo = ses[s].antigo /\ n.cob = ses[s].cob /\ n.mapa = ses[s].mapa
    BY <1>0 DEF Session
  <2>6. Antigo(n)
    BY <1>2, <2>5 DEF CreateOrder, CodInv, Antigo, Reemite
  <2> HIDE DEF n, r
  <2> QED
    BY <1>1, <2>2, <2>3, <2>4, <2>5, <2>6
<1>3. CASE ChargeCard(s)
  <2>1. PICK c \in Charges, answer \in {"approved", "pending"} :
         /\ NewCardOrder(c, ses[s].ct, answer)
         /\ ses' = [ses EXCEPT ![s].charge = c, ![s].pc = AfterCard(answer)]
    BY <1>3 DEF ChargeCard
  <2> DEFINE pc == AfterCard(answer)
             n == [ses[s] EXCEPT !.charge = c, !.pc = pc]
             r == [status |-> answer, tipo |-> "order", contrato |-> ses[s].ct]
  <2>2. ses' = [ses EXCEPT ![s] = n] /\ UNCHANGED cobranca
    BY <1>0, <1>3, <2>1 DEF ChargeCard
  <2>3. mp[c].status = "livre" /\ mp' = [mp EXCEPT ![c] = r] /\ r.status = answer
    BY <2>1 DEF NewCardOrder
  <2>4. pc # "cancel"
    BY DEF AfterCard
  <2>5. n.charge = c /\ n.pc = pc /\ n.via = "card"
    BY <1>0, <1>3 DEF Session, ChargeCard, At
  <2>6. Antigo(n)
    BY <2>5 DEF Antigo, Reemite
  <2> HIDE DEF n, r, pc
  <2> QED
    BY <1>1, <2>1, <2>2, <2>3, <2>4, <2>5, <2>6
<1>4. CASE ChargeCardReload(s)
  <2>1. PICK c \in Charges, answer \in {"approved", "pending"} :
         /\ NewCardOrder(c, ses[s].ct, answer)
         /\ ses' = [ses EXCEPT ![s].charge = c, ![s].pc = AfterCard(answer),
                      ![s].ctrow = contrato[ses[s].ct], ![s].mapa = Relido(s)]
    BY <1>4 DEF ChargeCardReload, Relido
  <2> DEFINE pc == AfterCard(answer)
             n == [ses[s] EXCEPT !.charge = c, !.pc = pc,
                     !.ctrow = contrato[ses[s].ct], !.mapa = Relido(s)]
             r == [status |-> answer, tipo |-> "order", contrato |-> ses[s].ct]
  <2>2. ses' = [ses EXCEPT ![s] = n] /\ UNCHANGED cobranca
    BY <1>0, <1>4, <2>1 DEF ChargeCardReload
  <2>3. mp[c].status = "livre" /\ mp' = [mp EXCEPT ![c] = r] /\ r.status = answer
    BY <2>1 DEF NewCardOrder
  <2>4. pc # "cancel"
    BY DEF AfterCard
  <2>5. n.charge = c /\ n.pc = pc /\ n.via = "card"
    BY <1>0, <1>4 DEF Session, ChargeCardReload, At
  <2>6. Antigo(n)
    BY <2>5 DEF Antigo, Reemite
  <2> HIDE DEF n, r, pc
  <2> QED
    BY <1>1, <2>1, <2>2, <2>3, <2>4, <2>5, <2>6
<1>5. CASE CreateOrderReload(s)
  <2> DEFINE i == ses[s].cob
             o == IF i = None THEN None ELSE cobranca[i].order
             m == IF i = None THEN ses[s].mapa ELSE Relido(s)
  <2>1. PICK c \in Charges :
          /\ NewOrder(c, ses[s].ct)
          /\ ses' = [ses EXCEPT ![s].pc = "apply", ![s].charge = c,
               ![s].ctrow = contrato[ses[s].ct], ![s].antigo = o, ![s].mapa = m]
    BY <1>5 DEF CreateOrderReload, Relido
  <2> DEFINE n == [ses[s] EXCEPT !.pc = "apply", !.charge = c,
                     !.ctrow = contrato[ses[s].ct], !.antigo = o, !.mapa = m]
             r == [status |-> "created", tipo |-> "order", contrato |-> ses[s].ct]
  <2>2. ses' = [ses EXCEPT ![s] = n] /\ UNCHANGED cobranca
    BY <1>0, <1>5, <2>1 DEF CreateOrderReload
  <2>3. mp[c].status = "livre" /\ mp' = [mp EXCEPT ![c] = r]
    BY <2>1 DEF NewOrder
  <2>4. r.status = "created"
    OBVIOUS
  <2>5. n.charge = c /\ n.pc = "apply" /\ n.antigo = o /\ n.cob = i /\ n.mapa = m
    BY <1>0 DEF Session
  <2>6. i # None => o = m[i].order
    <3>1. i # None => i \in Cobrancas /\ ses[s].mapa \in [Cobrancas -> Cobranca]
      BY <1>0 DEF Session
    <3> QED
      BY <3>1 DEF Relido
  <2>7. Antigo(n)
    <3> HIDE DEF n, m
    <3> QED
      BY <2>5, <2>6 DEF Antigo, Reemite
  <2> HIDE DEF n, r, m, o, i
  <2> QED
    BY <1>1, <2>2, <2>3, <2>4, <2>5, <2>7
<1>6. CASE CreateOrderBlind(s)
  <2>1. PICK c \in Charges :
          /\ NewOrder(c, ses[s].ct)
          /\ ses' = [ses EXCEPT ![s].pc = "expirado", ![s].charge = c]
    BY <1>6 DEF CreateOrderBlind
  <2> DEFINE n == [ses[s] EXCEPT !.pc = "expirado", !.charge = c]
             r == [status |-> "created", tipo |-> "order", contrato |-> ses[s].ct]
  <2>2. ses' = [ses EXCEPT ![s] = n] /\ UNCHANGED cobranca
    BY <1>0, <1>6, <2>1 DEF CreateOrderBlind
  <2>3. mp[c].status = "livre" /\ mp' = [mp EXCEPT ![c] = r]
    BY <2>1 DEF NewOrder
  <2>4. r.status = "created"
    OBVIOUS
  <2>5. /\ n.charge = c /\ n.pc = "expirado" /\ n.via = ses[s].via
        /\ n.antigo = ses[s].antigo /\ n.cob = ses[s].cob /\ n.mapa = ses[s].mapa
    BY <1>0 DEF Session
  <2>6. Antigo(n)
    BY <1>6, <2>5 DEF CreateOrderBlind, At, CodInv, Antigo, Reemite
  <2> HIDE DEF n, r
  <2> QED
    BY <1>1, <2>2, <2>3, <2>4, <2>5, <2>6
<1> QED
  BY <1>2, <1>3, <1>4, <1>5, <1>6

(* A commit that puts on rows no order but the one the session created,    *)
(* after which the session has nothing to cancel.                          *)
OrdensNovas(s) ==
  \A i \in Cobrancas :
    \/ cobranca'[i].order \in {None, cobranca[i].order}
    \/ Propria(ses[s]) /\ cobranca'[i].order = ses[s].charge

LEMMA CommitCod ==
  ASSUME FInv, CodInv, NEW s \in Sessions, mp' = mp, OrdensNovas(s),
         NEW n, ses' = [ses EXCEPT ![s] = n],
         n.pc \in {"livre", "scan", "cancel"} \/ (n.pc = "renovado" /\ n.via = "card"),
         \A c \in Charges : n.pc = "cancel" /\ n.antigo = c =>
           Fora(c)' /\ mp[c].status # "livre"
  PROVE  CodInv'
<1>1. ses'[s] = n /\ \A t \in Sessions : t # s => ses'[t] = ses[t]
  BY Fatos
<1>2. ~Propria(n) /\ Antigo(n)
  BY DEF Propria, Antigo, Reemite
<1>3. Regra
  BY <1>1, <1>2 DEF Regra, OrdensNovas
<1> QED
  BY <1>1, <1>2, <1>3, PassoCod

LEMMA OrdemEscrita ==
  ASSUME FInv, NEW i \in Cobrancas, NEW l, NEW r, Escreve(i, l, r)
  PROVE  /\ \A j \in Cobrancas : j # i => cobranca'[j] = cobranca[j]
         /\ cobranca'[i].order = Dirty(cobranca[i].order, l.order, r.order)
<1>1. cobranca \in [Cobrancas -> Cobranca]
  BY DEF FInv, Base, TypeOK
<1> DEFINE w == Flush(cobranca[i], l, r)
<1>2. cobranca' = [cobranca EXCEPT ![i] = w]
  BY DEF Escreve
<1>3. w.order = Dirty(cobranca[i].order, l.order, r.order)
  BY <1>1 DEF Flush, Cobranca
<1> HIDE DEF w
<1> QED
  BY <1>1, <1>2, <1>3

(* A new PIX over a charge: the order it replaces is in that row only, and *)
(* this step takes it off.                                                 *)
LEMMA SubstituiCod ==
  ASSUME FInv, CodInv, NEW s \in Sessions, Committed(s), mp' = mp,
         NEW i \in Cobrancas, Propria(ses[s]),
         ses[s].antigo = ses[s].mapa[i].order,
         cobranca'[i].order = ses[s].charge,
         \A j \in Cobrancas : j # i => cobranca'[j] = cobranca[j]
  PROVE  CodInv'
<1> DEFINE l == ses[s].mapa[i]
<1>1. ses[s] \in Session /\ i \in Cobrancas /\ ses[s].antigo = l.order
  BY Fatos
<1> HIDE DEF l
<1>4. l.order # ses[s].charge
  BY Nova DEF l
<1>7. OrdensNovas(s)
  BY DEF OrdensNovas
<1>8. PICK n : /\ ses' = [ses EXCEPT ![s] = n] /\ n.pc \in {"livre", "cancel"}
               /\ n.pc = "cancel" => n.antigo = ses[s].antigo
  <2>1. CASE ses[s].antigo = None
    <3>1. ses' = [ses EXCEPT ![s] = Livre]
      BY <2>1 DEF Committed
    <3>2. Livre.pc = "livre"
      BY DEF Livre
    <3> QED
      BY <3>1, <3>2
  <2>2. CASE ses[s].antigo # None
    <3> DEFINE m == [Livre EXCEPT !.via = ses[s].via, !.pc = "cancel",
                                  !.antigo = ses[s].antigo]
    <3>1. ses' = [ses EXCEPT ![s] = m]
      BY <2>2 DEF Committed, Superseded
    <3>2. m.pc = "cancel" /\ m.antigo = ses[s].antigo
      BY DEF Livre
    <3> HIDE DEF m
    <3> QED
      BY <3>1, <3>2
  <2> QED
    BY <2>1, <2>2
<1>9. ASSUME NEW c \in Charges, n.pc = "cancel", n.antigo = c
      PROVE  Fora(c)' /\ mp[c].status # "livre"
  <2>1. PICK f \in [Charges -> Cobrancas \cup {None}] : Lugar(f)
    BY DEF FInv, Base, Lugares
  <2>2. l.order = c /\ c # None
    BY <1>1, <1>8, <1>9
  <2>3. f[c] = i /\ i # None
    BY <1>1, <2>1, <2>2 DEF Lugar, l
  <2>4. \A j \in Cobrancas : cobranca'[j].order # c
    BY <1>1, <1>4, <2>1, <2>2, <2>3 DEF Lugar
  <2>5. \A t \in Sessions : Propria(ses'[t]) => ses'[t].charge # c
    <3>1. ses'[s] = n /\ \A t \in Sessions : t # s => ses'[t] = ses[t]
      BY <1>8, Fatos
    <3>2. ~Propria(n)
      BY <1>9 DEF Propria
    <3> QED
      BY <2>1, <2>3, <3>1, <3>2 DEF Lugar
  <2>6. mp[c].status # "livre"
    BY <2>1, <2>3 DEF Lugar
  <2> QED
    BY <2>4, <2>5, <2>6 DEF Fora
<1> QED
  BY <1>7, <1>8, <1>9, CommitCod

LEMMA CommitPixCod ==
  ASSUME FInv, CodInv, NEW s \in Sessions, CommitPix(s)
  PROVE  CodInv'
<1> DEFINE i == ses[s].cob
           l == ses[s].mapa[i]
           r == WithPix(l, StatusPix(s), s)
<1>1. /\ ses[s] \in Session /\ i \in Cobrancas /\ l \in Cobranca
      /\ ses[s].pc = "apply" /\ ses[s].via \in {"create_pix", "ensure_pix"}
      /\ Escreve(i, l, r) /\ mp' = mp /\ Committed(s)
      /\ Propria(ses[s])
  BY Fatos DEF CommitPix, Escreve, Session, Propria
<1>2. r.order = ses[s].charge
  BY <1>1 DEF WithPix, Cobranca
<1>3. /\ \A j \in Cobrancas : j # i => cobranca'[j] = cobranca[j]
      /\ cobranca'[i].order = Dirty(cobranca[i].order, l.order, r.order)
  <2> HIDE DEF l, r, i
  <2> QED
    BY <1>1, OrdemEscrita
<1>4. l.order # ses[s].charge
  BY <1>1, Nova
<1>5. cobranca'[i].order = ses[s].charge
  BY <1>2, <1>3, <1>4 DEF Dirty
<1>6. ses[s].antigo = l.order
  BY <1>1 DEF CodInv, Antigo, Reemite
<1> QED
  BY <1>1, <1>3, <1>5, <1>6, SubstituiCod

LEMMA OverwritePixCod ==
  ASSUME FInv, CodInv, NEW s \in Sessions, OverwritePix(s)
  PROVE  CodInv'
<1>1. /\ ses[s].via = "ensure_pix" /\ ses[s].pc = "expirado"
      /\ Committed(s) /\ mp' = mp
  BY DEF OverwritePix, At
<1>2. /\ ses[s].cob \in Cobrancas /\ Propria(ses[s])
      /\ cobranca'[ses[s].cob].order = ses[s].charge
      /\ \A j \in Cobrancas : j # ses[s].cob => cobranca'[j] = cobranca[j]
  BY SobrePix
<1>3. ses[s].antigo = ses[s].mapa[ses[s].cob].order
  BY <1>1, <1>2 DEF CodInv, Antigo, Reemite
<1> QED
  BY <1>1, <1>2, <1>3, SubstituiCod

(* The other commits.                                                      *)
LEMMA CommitsCod ==
  ASSUME FInv, CodInv, NEW s \in Sessions,
         \/ InsertPix(s) \/ SubscriptionInsert(s) \/ CommitPayment(s)
         \/ CommitCardPaid(s) \/ CommitCardPending(s) \/ RenovaCard(s)
         \/ CommitExpired(s) \/ RenovaExpired(s)
  PROVE  CodInv'
<1>0. /\ ses[s] \in Session /\ SesFull(ses[s], cobranca, mp, Pago)
      /\ cobranca \in [Cobrancas -> Cobranca]
  BY Fatos
<1>1. ASSUME OrdensNovas(s), mp' = mp, ses' = [ses EXCEPT ![s] = Livre]
      PROVE  CodInv'
  <2>1. Livre.pc = "livre"
    BY DEF Livre
  <2> QED
    BY <1>1, <2>1, CommitCod
<1>2. ASSUME NEW i, NEW c, Credit(s, i, c), mp' = mp, OrdensNovas(s)
      PROVE  CodInv'
  <2>1. ses' = [ses EXCEPT ![s] = AfterCommit(s)]
    BY <1>2 DEF Credit
  <2>2. AfterCommit(s).pc \in {"livre", "scan"}
    BY DEF AfterCommit, Livre
  <2> QED
    BY <1>2, <2>1, <2>2, CommitCod
<1>3. ASSUME NEW i \in Cobrancas, NEW r, cobranca' = [cobranca EXCEPT ![i] = r],
             r.order = None \/ (Propria(ses[s]) /\ r.order = ses[s].charge)
      PROVE  OrdensNovas(s)
  <2>1. cobranca'[i] = r /\ \A j \in Cobrancas : j # i => cobranca'[j] = cobranca[j]
    BY <1>0, <1>3
  <2> QED
    BY <1>3, <2>1 DEF OrdensNovas
<1>4. ASSUME NEW i \in Cobrancas, NEW l, NEW r, Escreve(i, l, r),
             r.order = l.order \/ (Propria(ses[s]) /\ r.order = ses[s].charge)
      PROVE  OrdensNovas(s)
  BY <1>4, OrdemEscrita DEF OrdensNovas, Dirty
<1>5. CASE InsertPix(s)
  <2>1. ses[s].pc = "apply" /\ ses[s].via = "create_pix" /\ ses[s].cob = None
        /\ mp' = mp /\ Committed(s) /\ Propria(ses[s])
    BY <1>5 DEF InsertPix, At, Propria
  <2>2. ses' = [ses EXCEPT ![s] = Livre]
    BY <2>1 DEF CodInv, Antigo, Reemite, Committed
  <2> DEFINE r == WithPix([NoRow EXCEPT !.contrato = ses[s].ct,
                       !.vencimento = ses[s].ctrow.proximo_vencimento],
                    StatusPix(s), s)
  <2>3. \E i \in Cobrancas : cobranca' = [cobranca EXCEPT ![i] = r]
    BY <1>5 DEF InsertPix
  <2>4. r.order = ses[s].charge
    BY DEF WithPix, NoRow
  <2> HIDE DEF r
  <2> QED
    BY <1>1, <1>3, <2>1, <2>2, <2>3, <2>4
<1>6. CASE SubscriptionInsert(s)
  <2> DEFINE r == [contrato |-> ses[s].ct, status |-> "recebido",
                   vencimento |-> ses[s].ctrow.proximo_vencimento,
                   valor |-> ses[s].valor, order |-> None, payment |-> ses[s].charge]
  <2>1. PICK i \in Cobrancas :
          cobranca' = [cobranca EXCEPT ![i] = r] /\ Credit(s, i, ses[s].charge)
    BY <1>6 DEF SubscriptionInsert
  <2>2. r.order = None
    OBVIOUS
  <2>3. mp' = mp
    BY <1>6 DEF SubscriptionInsert
  <2> HIDE DEF r
  <2> QED
    BY <1>2, <1>3, <2>1, <2>2, <2>3
<1>7. CASE CommitPayment(s)
  <2> DEFINE i == ses[s].cob
             l == ses[s].mapa[i]
  <2>1. Escreve(i, l, Received(s)) /\ Credit(s, i, Externo(s)) /\ mp' = mp
    BY <1>7 DEF CommitPayment, Escreve
  <2>2. i \in Cobrancas /\ l \in Cobranca
    BY <1>0, <1>7 DEF CommitPayment, SesFull, Linha, Session
  <2>3. Received(s).order = l.order
    BY <2>2 DEF Received, Cobranca
  <2> HIDE DEF i, l
  <2> QED
    BY <1>2, <1>4, <2>1, <2>2, <2>3
<1>8. ASSUME NEW st, StoreCard(s, st), ses[s].via = "card", ses[s].pc \in {"commit", "apply"}
      PROVE  OrdensNovas(s)
  <2> DEFINE i == ses[s].cob
             l == ses[s].mapa[i]
             r == WithCard(s, st)
  <2>1. Escreve(i, l, r) /\ i \in Cobrancas /\ l \in Cobranca /\ Propria(ses[s])
    BY <1>0, <1>8 DEF StoreCard, Escreve, SesFull, Linha, Session, Propria
  <2>2. r.order = ses[s].charge
    BY <2>1 DEF WithCard, Cobranca
  <2> HIDE DEF i, l, r
  <2> QED
    BY <1>4, <2>1, <2>2
<1>9. CASE CommitCardPaid(s)
  <2>1. ses[s].via = "card" /\ ses[s].pc = "commit" /\ StoreCard(s, "recebido")
        /\ Credit(s, ses[s].cob, ses[s].charge) /\ mp' = mp
    BY <1>9 DEF CommitCardPaid, At
  <2> QED
    BY <1>2, <1>8, <2>1
<1>10. CASE CommitCardPending(s)
  <2>1. ses[s].via = "card" /\ ses[s].pc = "apply" /\ StoreCard(s, StatusCard(s))
        /\ ses' = [ses EXCEPT ![s] = Livre] /\ mp' = mp
    BY <1>10 DEF CommitCardPending, At, Close
  <2> QED
    BY <1>1, <1>8, <2>1
<1>11. CASE CommitExpired(s)
  <2>1. StoreCleared(s) /\ ses' = [ses EXCEPT ![s] = Livre] /\ mp' = mp
    BY <1>11 DEF CommitExpired, StoreCleared, Close
  <2>2. OrdensNovas(s)
    BY <2>1, LimpaMortas DEF OrdensNovas
  <2> QED
    BY <1>1, <2>1, <2>2
<1>12. CASE RenovaExpired(s)
  <2> DEFINE n == [ses[s] EXCEPT !.cand = {}, !.mapa = Livre.mapa]
  <2>1. StoreCleared(s) /\ ses' = [ses EXCEPT ![s] = n] /\ mp' = mp
    BY <1>0, <1>12, Fatos DEF RenovaExpired, StoreCleared
  <2>2. OrdensNovas(s)
    BY <2>1, LimpaMortas DEF OrdensNovas
  <2>3. n.pc = "scan"
    BY <1>0, <2>1 DEF StoreCleared, At, Session
  <2> HIDE DEF n
  <2> QED
    BY <2>1, <2>2, <2>3, CommitCod
<1>13. CASE RenovaCard(s)
  <2> DEFINE n == [ses[s] EXCEPT !.pc = "renovado", !.valor = 0, !.mapa = Livre.mapa]
  <2>1. ses' = [ses EXCEPT ![s] = n] /\ mp' = mp
    BY <1>0, <1>13, Fatos DEF RenovaCard
  <2>2. OrdensNovas(s)
    BY <1>13, RenovaCardEscreve DEF OrdensNovas
  <2>3. n.pc = "renovado" /\ n.via = "card"
    BY <1>0, <1>13 DEF RenovaCard, At, Session
  <2> HIDE DEF n
  <2> QED
    BY <2>1, <2>2, <2>3, CommitCod
<1> QED
  BY <1>5, <1>6, <1>7, <1>9, <1>10, <1>11, <1>12, <1>13

(* The superseded order is cancelled: it is gone from every row.           *)
LEMMA CancelCod ==
  ASSUME FInv, CodInv, NEW s \in Sessions, CancelSuperseded(s)
  PROVE  CodInv'
<1> DEFINE a == ses[s].antigo
<1>1. /\ ses[s].pc = "cancel" /\ CancelOrder(a)
      /\ ses' = [ses EXCEPT ![s] = Livre] /\ UNCHANGED cobranca
      /\ mp \in [Charges -> Charge] /\ a \in Charges
  BY Fatos DEF CancelSuperseded, Close, SesFull, Cobra
<1>2. Fora(a) /\ mp[a].status # "livre"
  BY <1>1 DEF CodInv
<1> HIDE DEF a
<1>3. \A c \in Charges : c # a => mp'[c] = mp[c]
  BY <1>1 DEF CancelOrder
<1>4. mp'[a].status \in {mp[a].status, "cancelled"}
  BY <1>1 DEF CancelOrder, Charge
<1>5. ses'[s] = Livre /\ \A t \in Sessions : t # s => ses'[t] = ses[t]
  BY <1>1, Fatos
<1>6. ~Propria(Livre) /\ Antigo(Livre) /\ Livre.pc # "cancel"
  BY DEF Livre, Propria, Antigo, Reemite
<1>7. Regra
  BY <1>1, <1>2, <1>3, <1>4, <1>5, <1>6 DEF Regra
<1>8. \A c \in Charges : mp'[c].status = "cancelled" =>
        mp[c].status = "cancelled" \/ (Fora(c) /\ mp[c].status # "livre")
  BY <1>2, <1>3
<1>9. \A c \in Charges : ses'[s].pc = "cancel" /\ ses'[s].antigo = c =>
        Fora(c)' /\ mp'[c].status # "livre"
  BY <1>5, <1>6
<1> QED
  BY <1>5, <1>6, <1>7, <1>8, <1>9, PassoCod

(* The world outside cancels nothing.                                      *)
LEMMA MundoCod ==
  ASSUME FInv, CodInv, Mundo
  PROVE  CodInv'
<1>0. mp \in [Charges -> Charge] /\ cobranca \in [Cobrancas -> Cobranca]
  BY DEF FInv, Base, TypeOK
<1> DEFINE Igual == /\ UNCHANGED <<cobranca, ses>>
                    /\ \A c \in Charges :
                         /\ mp'[c].status = "cancelled" => mp[c].status = "cancelled"
                         /\ mp[c].status # "livre" => mp'[c].status # "livre"
<1>1. Igual
  <2>1. ASSUME NovoDia PROVE Igual
    BY <2>1 DEF NovoDia
  <2>2. ASSUME NEW i \in Cobrancas, VerPix(i) PROVE Igual
    BY <1>0, <2>2 DEF VerPix, Charge, Cobranca
  <2>3. ASSUME NEW c \in Charges, PagarPix(c) \/ ExpirarPix(c) PROVE Igual
    BY <1>0, <2>3, SMTT(30) DEF PagarPix, ExpirarPix, Unpaid, Charge
  <2>4. ASSUME NEW c \in Charges, NEW k \in Assinantes, DebitarAssinatura(c, k)
        PROVE  Igual
    BY <1>0, <2>4 DEF DebitarAssinatura
  <2> QED
    BY <2>1, <2>2, <2>3, <2>4 DEF Mundo
<1>2. \A c \in Charges : Fora(c) => Fora(c)'
  BY <1>1 DEF Fora
<1> QED
  BY <1>1, <1>2 DEF CodInv

(* Every step but those of the tick.                                       *)
LEMMA SemTickCod == FInv /\ CodInv /\ [SemTickNext]_vars => CodInv'
<1> SUFFICES ASSUME FInv, CodInv, [SemTickNext]_vars PROVE CodInv'
  OBVIOUS
<1>1. ASSUME NEW s \in Sessions, LockingStep(s) PROVE CodInv'
  <2>1. CASE Webhook(s)
    BY <2>1, OutrosCod, CommitsCod DEF Webhook, Finalize
  <2>2. CASE CreatePixCharge(s)
    BY <2>2, OutrosCod, PixCod, CriaCod, CommitsCod DEF CreatePixCharge
  <2>3. CASE SendPix(s)
    BY <2>3, CriaCod, CommitPixCod, CancelCod DEF SendPix
  <2>4. CASE Abort(s)
    BY <2>4, OutrosCod
  <2>5. CASE RenovaCreatePix(s)
    BY <2>5, PixCod
  <2> QED
    BY <1>1, <2>1, <2>2, <2>3, <2>4, <2>5 DEF LockingStep, LockedStep
<1>2. ASSUME NEW s \in Sessions, Reconcile(s) PROVE CodInv'
  BY <1>2, OutrosCod DEF Reconcile
<1>3. ASSUME NEW s \in Sessions, ReconcileExpired(s) PROVE CodInv'
  BY <1>3, OutrosCod, CommitsCod DEF ReconcileExpired
<1>4. ASSUME NEW s \in Sessions, EnsurePix(s) PROVE CodInv'
  BY <1>4, PixCod, CriaCod, OverwritePixCod DEF EnsurePix
<1>5. ASSUME NEW s \in Sessions, Card(s) PROVE CodInv'
  BY <1>5, OutrosCod, PixCod, CriaCod, CommitsCod DEF Card
<1>6. CASE UNCHANGED vars
  BY <1>6 DEF vars, CodInv, Fora, Propria
<1> QED
  BY <1>1, <1>2, <1>3, <1>4, <1>5, <1>6, MundoCod DEF SemTickNext, SemTickStep

LEMMA SemTickInvariance == SemTickSpec => [](FInv /\ CodInv)
<1>1. Init => FInv /\ CodInv
  <2>1. Init => CodInv
    BY DEF Init, CodInv, Antigo, Reemite, Livre
  <2> QED
    BY <2>1, InitFull
<1>2. FInv /\ CodInv /\ [SemTickNext]_vars => (FInv /\ CodInv)'
  <2>1. [SemTickNext]_vars => [Next]_vars
    BY DEF SemTickNext, SemTickStep, Next, UnlockedStep
  <2> QED
    BY <2>1, NextFull, SemTickCod
<1> QED
  BY <1>1, <1>2, PTL DEF SemTickSpec

(* The code stored in an open charge is never one this system cancelled,   *)
(* whatever webhooks, PIX issuers, card payments and reconciliations       *)
(* overlap: only the daily tick, which cancels first, can break this.      *)
THEOREM CodesStayAlive == SemTickSpec => []CodigoVivo
<1>1. FInv /\ CodInv => CodigoVivo
  <2> SUFFICES ASSUME FInv, CodInv, NEW i \in Cobrancas, cobranca[i].order # None
               PROVE  mp[cobranca[i].order].status # "cancelled"
    BY DEF CodigoVivo
  <2>1. cobranca[i].order \in Charges
    BY DEF FInv, Base, TypeOK, Cobranca
  <2> QED
    BY <2>1 DEF CodInv, Fora
<1> QED
  BY <1>1, SemTickInvariance, PTL

(* In particular in the locking part, lost locks included.                 *)
THEOREM LockingCodesStayAlive == LockedSpec => []CodigoVivo
<1>1. [LockedNext]_lockedVars => [SemTickNext]_vars
  BY DEF LockedNext, Presa, Solta, SemTickNext, SemTickStep, LockingStep, lockedVars
<1>2. LockedSpec => SemTickSpec
  BY <1>1, PTL DEF LockedSpec, LockedInit, SemTickSpec
<1> QED
  BY <1>2, CodesStayAlive, PTL
=============================================================================

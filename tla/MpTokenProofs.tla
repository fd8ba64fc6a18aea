----------------------------- MODULE MpTokenProofs -----------------------------
(***************************************************************************)
(* For any sessions and any number of token pairs: the state is well typed *)
(* and a connected operacao can renew its tokens.                          *)
(*                                                                         *)
(* The argument is who knows a pair.  A pair that was issued and not yet   *)
(* stored is known to one session only: no copy of the row holds it, so no *)
(* other session can exchange it, and it is still good when it is stored.  *)
(***************************************************************************)
EXTENDS MpToken, TLAPS

Guarda(s) == sessao[s].pc \in {"gravar", "conectar", "reconectar"}

(* What was handed out so far bounds every number in sight.                *)
Emitidos ==
  /\ op <= emitidos
  /\ \A par \in validos : par <= emitidos
  /\ \A s \in Sessions : sessao[s].visto <= emitidos /\ sessao[s].nova <= emitidos

(* A pair about to be stored is good and known to nobody else.             *)
Posse ==
  \A s \in Sessions : Guarda(s) =>
    /\ sessao[s].nova \in validos
    /\ op # sessao[s].nova
    /\ \A u \in Sessions : sessao[u].visto # sessao[s].nova
    /\ \A u \in Sessions \ {s} : Guarda(u) => sessao[u].nova # sessao[s].nova

Vistos ==
  \A s \in Sessions :
    sessao[s].pc \in {"lida", "trocar", "gravar"} => sessao[s].visto \in Pares

IInv ==
  /\ TypeOK
  /\ Emitidos
  /\ Vistos
  /\ Posse
  /\ ConectadaRenovavel

LEMMA InitInv == Init => IInv
<1>1. Init => ligada \in BOOLEAN
  BY DEF Init
<1>2. Init => /\ op \in 0..MaxPares /\ trava \in Sessions \cup {None}
              /\ sessao \in [Sessions -> Sessao] /\ emitidos \in 0..MaxPares
              /\ validos \in SUBSET Pares
              /\ idade \in [Pares -> {"longe", "semana", "vence"}]
              /\ renovados \in SUBSET Pares /\ perdidos \in SUBSET Pares
  BY MpTokenConstants DEF Init, Fora, Sessao, Pares
<1>3. Init => Emitidos /\ Vistos /\ Posse /\ ConectadaRenovavel
  BY MpTokenConstants DEF Init, Emitidos, Vistos, Posse, Guarda,
                          ConectadaRenovavel, Fora, Pares
<1> QED BY <1>1, <1>2, <1>3 DEF IInv, TypeOK

LEMMA Writes ==
  ASSUME IInv, NEW s \in Sessions, NEW r \in Sessao,
         sessao' = [sessao EXCEPT ![s] = r]
  PROVE  /\ sessao' \in [Sessions -> Sessao]
         /\ sessao'[s] = r
         /\ \A u \in Sessions \ {s} : sessao'[u] = sessao[u]
BY DEF IInv, TypeOK

(* A session's record, field by field.                                     *)
LEMMA Fields ==
  ASSUME IInv, NEW s \in Sessions
  PROVE  /\ sessao[s].pc \in {"fora", "lida", "trocar", "gravar", "conectar", "reconectar"}
         /\ sessao[s].margem \in {"pedido", "semana"}
         /\ sessao[s].visto \in 0..MaxPares /\ sessao[s].nova \in 0..MaxPares
         /\ emitidos \in 0..MaxPares /\ op \in 0..MaxPares
         /\ MaxPares \in Nat \ {0}
BY MpTokenConstants DEF IInv, TypeOK, Sessao

(* A session that leaves takes nothing along.                              *)
LEMMA Leaves ==
  ASSUME IInv, NEW s \in Sessions, Sair(s)
  PROVE  /\ sessao' \in [Sessions -> Sessao]
         /\ sessao'[s] = Fora
         /\ \A u \in Sessions \ {s} : sessao'[u] = sessao[u]
         /\ Fora.pc = "fora" /\ Fora.visto = 0 /\ Fora.nova = 0
<1>1. Fora \in Sessao
  BY MpTokenConstants DEF Fora, Sessao
<1>2. sessao' = [sessao EXCEPT ![s] = Fora]
  BY DEF Sair
<1> HIDE DEF Sair
<1>3. Fora.pc = "fora" /\ Fora.visto = 0 /\ Fora.nova = 0
  BY DEF Fora
<1> QED BY <1>1, <1>2, <1>3, Writes

LEMMA Goes ==
  ASSUME IInv, NEW s \in Sessions, NEW nova \in 0..MaxPares,
         NEW pc \in {"trocar", "gravar", "conectar", "reconectar"}, Go(s, pc, nova)
  PROVE  /\ sessao' \in [Sessions -> Sessao]
         /\ sessao'[s].pc = pc /\ sessao'[s].nova = nova
         /\ sessao'[s].visto = sessao[s].visto
         /\ \A u \in Sessions \ {s} : sessao'[u] = sessao[u]
<1> DEFINE r == [pc |-> pc, margem |-> sessao[s].margem,
                 visto |-> sessao[s].visto, nova |-> nova]
<1>1. r \in Sessao
  BY Fields DEF Sessao
<1>2. sessao' = [sessao EXCEPT ![s] = r]
  BY DEF Go
<1>3. r.pc = pc /\ r.nova = nova /\ r.visto = sessao[s].visto
  OBVIOUS
<1> HIDE DEF r
<1> QED BY <1>1, <1>2, <1>3, Writes

(* A session leaves and the row holds what it held, nothing, or the pair   *)
(* the session alone knew.                                                 *)
LEMMA LeaveInv ==
  ASSUME IInv, NEW s \in Sessions, Sair(s),
         UNCHANGED <<emitidos, validos, idade>>,
         trava' \in Sessions \cup {None}, ligada' \in BOOLEAN,
         renovados' \in SUBSET Pares, perdidos' \in SUBSET Pares,
         perdidos \subseteq perdidos',
         \/ op' = 0
         \/ Guarda(s) /\ op' = sessao[s].nova
         \/ /\ op' = op
            /\ sessao[s].pc = "gravar" => sessao[s].visto \in perdidos'
  PROVE  IInv'
<1>1. op' \in 0..MaxPares /\ op' <= emitidos
  BY Fields DEF IInv, Emitidos
<1>2. TypeOK'
  BY <1>1, Leaves DEF IInv, TypeOK
<1>3. Emitidos'
  BY <1>1, Leaves, Fields DEF IInv, Emitidos
<1>4. Vistos'
  BY Leaves DEF IInv, Vistos
<1>5. Posse'
  <2> SUFFICES ASSUME NEW u \in Sessions, Guarda(u)'
               PROVE  /\ sessao'[u].nova \in validos
                      /\ op' # sessao'[u].nova
                      /\ \A v \in Sessions : sessao'[v].visto # sessao'[u].nova
                      /\ \A v \in Sessions \ {u} :
                           Guarda(v)' => sessao'[v].nova # sessao'[u].nova
    BY DEF Posse
  <2>1. u # s /\ Guarda(u) /\ sessao'[u] = sessao[u]
    BY Leaves DEF Guarda
  <2>2. sessao[u].nova \in validos /\ sessao[u].nova # 0
    BY <2>1 DEF IInv, Posse, TypeOK, Pares
  <2>3. op' # sessao[u].nova
    BY <2>1, <2>2 DEF IInv, Posse
  <2>4. \A v \in Sessions : sessao'[v].visto # sessao[u].nova
    BY <2>1, <2>2, Leaves DEF IInv, Posse
  <2>5. \A v \in Sessions \ {u} : Guarda(v)' => sessao'[v].nova # sessao[u].nova
    BY <2>1, Leaves DEF IInv, Posse, Guarda
  <2> QED BY <2>1, <2>2, <2>3, <2>4, <2>5
<1>6. ConectadaRenovavel'
  <2> SUFFICES ASSUME op' # 0
               PROVE  \/ op' \in validos \/ op' \in perdidos'
                      \/ \E u \in Sessions : sessao'[u].pc = "gravar"
                                             /\ sessao'[u].visto = op'
    BY DEF ConectadaRenovavel
  <2>1. CASE Guarda(s) /\ op' = sessao[s].nova
    BY <2>1 DEF IInv, Posse
  <2>2. CASE op' = op /\ (sessao[s].pc = "gravar" => sessao[s].visto \in perdidos')
    BY <2>2, Leaves DEF IInv, ConectadaRenovavel
  <2> QED BY <2>1, <2>2
<1> QED BY <1>2, <1>3, <1>4, <1>5, <1>6 DEF IInv

LEMMA LoadInv ==
  ASSUME IInv, NEW s \in Sessions, NEW margem \in {"pedido", "semana"},
         Load(s, margem)
  PROVE  IInv'
<1> DEFINE r == [pc |-> "lida", margem |-> margem, visto |-> op, nova |-> 0]
<1>1. r \in Sessao /\ op \in Pares
  BY Fields DEF Load, Sessao, Pares
<1>2. sessao' = [sessao EXCEPT ![s] = r]
  BY DEF Load
<1>3. r.pc = "lida" /\ r.visto = op /\ r.nova = 0
  OBVIOUS
<1> HIDE DEF r
<1>4. /\ sessao' \in [Sessions -> Sessao] /\ sessao'[s] = r
      /\ \A u \in Sessions \ {s} : sessao'[u] = sessao[u]
  BY <1>1, <1>2, Writes
<1>5. TypeOK'
  BY <1>4 DEF Load, IInv, TypeOK
<1>6. Emitidos'
  BY <1>3, <1>4, Fields DEF Load, IInv, Emitidos
<1>7. Vistos'
  BY <1>1, <1>3, <1>4 DEF IInv, Vistos
<1>8. Posse'
  BY <1>3, <1>4 DEF Load, IInv, Posse, Guarda
<1>9. ConectadaRenovavel'
  BY <1>4 DEF Load, IInv, ConectadaRenovavel
<1> QED BY <1>5, <1>6, <1>7, <1>8, <1>9 DEF IInv

LEMMA LockRowInv ==
  ASSUME IInv, NEW s \in Sessions, LockRow(s)
  PROVE  IInv'
<1>1. /\ sessao' \in [Sessions -> Sessao]
      /\ sessao'[s].pc = "trocar" /\ sessao'[s].nova = 0
      /\ sessao'[s].visto = sessao[s].visto
      /\ \A u \in Sessions \ {s} : sessao'[u] = sessao[u]
  <2>1. 0 \in 0..MaxPares
    BY MpTokenConstants
  <2> QED BY <2>1, Goes DEF LockRow
<1>2. sessao[s].pc = "lida"
  BY DEF LockRow
<1>3. TypeOK'
  BY <1>1 DEF LockRow, IInv, TypeOK
<1>4. Emitidos'
  BY <1>1, Fields DEF LockRow, IInv, Emitidos
<1>5. Vistos'
  BY <1>1, <1>2 DEF IInv, Vistos
<1>6. Posse'
  BY <1>1 DEF LockRow, IInv, Posse, Guarda
<1>7. ConectadaRenovavel'
  BY <1>1, <1>2 DEF LockRow, IInv, ConectadaRenovavel
<1> QED BY <1>3, <1>4, <1>5, <1>6, <1>7 DEF IInv

(* A fresh pair is above every number in sight.                            *)
LEMMA Fresh ==
  ASSUME IInv, emitidos < MaxPares
  PROVE  /\ emitidos + 1 \in Pares /\ emitidos + 1 \in 0..MaxPares
         /\ emitidos + 1 \notin validos /\ op # emitidos + 1
         /\ \A u \in Sessions : sessao[u].visto # emitidos + 1
                                /\ sessao[u].nova # emitidos + 1
<1>1. emitidos \in 0..MaxPares /\ MaxPares \in Nat
  BY MpTokenConstants DEF IInv, TypeOK
<1>2. emitidos + 1 \notin validos /\ op # emitidos + 1
  BY <1>1 DEF IInv, Emitidos, TypeOK, Pares
<1>3. ASSUME NEW u \in Sessions
      PROVE  sessao[u].visto # emitidos + 1 /\ sessao[u].nova # emitidos + 1
  BY <1>1, Fields DEF IInv, Emitidos
<1> QED BY <1>1, <1>2, <1>3 DEF Pares

(* A session receives a fresh pair, for the one it knows or for none.      *)
LEMMA IssueInv ==
  ASSUME IInv, NEW s \in Sessions, NEW pc \in {"gravar", "conectar", "reconectar"},
         NEW gasto, gasto \subseteq {sessao[s].visto},
         pc # "gravar" => gasto = {},
         pc = "gravar" => sessao[s].pc = "trocar",
         sessao[s].pc \in {"trocar", "fora"},
         emitidos < MaxPares, emitidos' = emitidos + 1,
         validos' = (validos \ gasto) \cup {emitidos + 1},
         Go(s, pc, emitidos + 1),
         UNCHANGED <<op, ligada, trava, idade, renovados, perdidos>>
  PROVE  IInv'
<1> DEFINE n == emitidos + 1
<1>1. /\ sessao' \in [Sessions -> Sessao]
      /\ sessao'[s].pc = pc /\ sessao'[s].nova = n
      /\ sessao'[s].visto = sessao[s].visto
      /\ \A u \in Sessions \ {s} : sessao'[u] = sessao[u]
  BY Fresh, Goes
<1>2. TypeOK'
  BY <1>1, Fresh DEF IInv, TypeOK
<1>3. Emitidos'
  <2>1. op <= emitidos + 1
    BY Fields DEF IInv, Emitidos
  <2>2. \A par \in validos' : par <= emitidos + 1
    BY Fields DEF IInv, Emitidos, TypeOK, Pares
  <2>3. \A u \in Sessions : sessao'[u].visto <= emitidos + 1
                            /\ sessao'[u].nova <= emitidos + 1
    BY <1>1, Fields DEF IInv, Emitidos
  <2> QED BY <2>1, <2>2, <2>3 DEF Emitidos
<1>4. Vistos'
  BY <1>1 DEF IInv, Vistos
<1>5. Posse'
  <2> SUFFICES ASSUME NEW u \in Sessions, Guarda(u)'
               PROVE  /\ sessao'[u].nova \in validos'
                      /\ op # sessao'[u].nova
                      /\ \A v \in Sessions : sessao'[v].visto # sessao'[u].nova
                      /\ \A v \in Sessions \ {u} :
                           Guarda(v)' => sessao'[v].nova # sessao'[u].nova
    BY DEF Posse
  <2>1. CASE u = s
    BY <1>1, <2>1, Fresh
  <2>2. CASE u # s
    <3>1. Guarda(u) /\ sessao'[u] = sessao[u]
      BY <1>1, <2>2 DEF Guarda
    <3>2. sessao[u].nova \in validos'
      BY <3>1 DEF IInv, Posse
    <3>3. op # sessao[u].nova /\ \A v \in Sessions : sessao'[v].visto # sessao[u].nova
      BY <1>1, <3>1 DEF IInv, Posse
    <3>4. \A v \in Sessions \ {u} : Guarda(v)' => sessao'[v].nova # sessao[u].nova
      BY <1>1, <3>1, Fresh DEF IInv, Posse, Guarda
    <3> QED BY <3>1, <3>2, <3>3, <3>4
  <2> QED BY <2>1, <2>2
<1>6. ConectadaRenovavel'
  <2> SUFFICES ASSUME op # 0
               PROVE  \/ op \in validos' \/ op \in perdidos
                      \/ \E u \in Sessions : sessao'[u].pc = "gravar"
                                             /\ sessao'[u].visto = op
    BY DEF ConectadaRenovavel
  <2>1. CASE op \in validos
    BY <1>1, <2>1
  <2>2. CASE \E u \in Sessions : sessao[u].pc = "gravar" /\ sessao[u].visto = op
    BY <1>1, <2>2
  <2> QED BY <2>1, <2>2 DEF IInv, ConectadaRenovavel
<1> QED BY <1>2, <1>3, <1>4, <1>5, <1>6 DEF IInv

LEMMA NextInv == IInv /\ [Next]_vars => IInv'
<1> SUFFICES ASSUME IInv, [Next]_vars PROVE IInv'
  OBVIOUS
<1>1. ASSUME NEW s \in Sessions, NEW margem \in {"pedido", "semana"},
             Load(s, margem)
      PROVE  IInv'
  BY <1>1, LoadInv
<1>2. ASSUME NEW s \in Sessions, Refresh(s) PROVE IInv'
  <2>1. CASE UseToken(s)
    BY <2>1, LeaveInv DEF UseToken, IInv, TypeOK
  <2>2. CASE LockRow(s)
    BY <2>2, LockRowInv
  <2>3. CASE ExchangeOk(s)
    BY <2>3, IssueInv DEF ExchangeOk
  <2>4. CASE ExchangeRefused(s) \/ ExchangeError(s)
    BY <2>4, LeaveInv DEF ExchangeRefused, ExchangeError, Drop, IInv, TypeOK
  <2>5. CASE Persist(s)
    <3>1. sessao[s].visto \in Pares
      BY <2>5 DEF Persist, IInv, Vistos
    <3>2. Guarda(s) /\ op' = sessao[s].nova
      BY <2>5 DEF Persist, Guardado, Guarda
    <3> QED BY <2>5, <3>1, <3>2, LeaveInv DEF Persist, IInv, TypeOK
  <2>6. CASE Fail(s)
    <3>1. sessao[s].visto \in Pares
      BY <2>6 DEF Fail, IInv, Vistos
    <3>2. /\ perdidos' \in SUBSET Pares /\ perdidos \subseteq perdidos'
          /\ sessao[s].pc = "gravar" => sessao[s].visto \in perdidos'
      BY <2>6, <3>1 DEF Fail, IInv, TypeOK
    <3> QED BY <2>6, <3>2, LeaveInv DEF Fail, IInv, TypeOK
  <2> QED BY <1>2, <2>1, <2>2, <2>3, <2>4, <2>5, <2>6 DEF Refresh
<1>3. ASSUME NEW s \in Sessions, ExchangeCode(s) PROVE IInv'
  <2> DEFINE pc == IF ligada THEN "reconectar" ELSE "conectar"
  <2>1. {} \subseteq {sessao[s].visto} /\ validos \ {} = validos
    OBVIOUS
  <2>2. pc \in {"conectar", "reconectar"} /\ Go(s, pc, emitidos + 1)
    BY <1>3 DEF ExchangeCode
  <2> HIDE DEF pc
  <2>3. pc \in {"gravar", "conectar", "reconectar"} /\ pc # "gravar"
    BY <2>2
  <2> QED BY <1>3, <2>1, <2>2, <2>3, IssueInv DEF ExchangeCode
<1>4. ASSUME NEW s \in Sessions, Connect(s) PROVE IInv'
  <2>1. ligada' \in BOOLEAN
    BY <1>4 DEF Connect
  <2>2. Guarda(s) /\ op' = sessao[s].nova
    BY <1>4 DEF Connect, Guarda
  <2> QED BY <1>4, <2>1, <2>2, LeaveInv DEF Connect, IInv, TypeOK
<1>5. CASE Disconnect
  <2>1. TypeOK'
    <3>1. op' \in 0..MaxPares
      BY <1>5, MpTokenConstants DEF Disconnect
    <3>2. ligada' \in BOOLEAN
      BY <1>5 DEF Disconnect
    <3> QED BY <1>5, <3>1, <3>2 DEF Disconnect, IInv, TypeOK
  <2>2. Emitidos'
    <3>1. 0 <= emitidos
      BY DEF IInv, TypeOK
    <3> QED BY <1>5, <3>1 DEF Disconnect, IInv, Emitidos
  <2>3. Posse'
    BY <1>5 DEF Disconnect, IInv, Posse, Guarda, TypeOK, Pares
  <2>4. Vistos' /\ ConectadaRenovavel'
    BY <1>5 DEF Disconnect, IInv, Vistos, ConectadaRenovavel
  <2> QED BY <2>1, <2>2, <2>3, <2>4 DEF IInv
<1>6. ASSUME NEW par \in Pares, Age(par) PROVE IInv'
  <2>1. TypeOK'
    BY <1>6 DEF Age, IInv, TypeOK
  <2> QED BY <1>6, <2>1 DEF Age, IInv, Emitidos, Vistos, Posse, Guarda,
                            ConectadaRenovavel
<1>7. CASE UNCHANGED vars
  BY <1>7 DEF vars, IInv, TypeOK, Emitidos, Vistos, Posse, Guarda,
              ConectadaRenovavel
<1> QED BY <1>1, <1>2, <1>3, <1>4, <1>5, <1>6, <1>7 DEF Next

LEMMA Inductive == Spec => []IInv
BY InitInv, NextInv, PTL DEF Spec

(* Every reachable state is well typed: what is stored or handed around is *)
(* a pair Mercado Pago issued, or none.                                    *)
THEOREM MpTokenTypeCorrect == Spec => []TypeOK
<1>1. IInv => TypeOK
  BY DEF IInv
<1> QED BY <1>1, Inductive, PTL

(* However sessions, callbacks, the daily job and disconnections           *)
(* interleave, the row of a connected operacao holds a refresh token that  *)
(* is still good, but for one in exchange or lost in a failed renewal.     *)
THEOREM ConnectedCanRenew == Spec => []ConectadaRenovavel
<1>1. IInv => ConectadaRenovavel
  BY DEF IInv
<1> QED BY <1>1, Inductive, PTL
=============================================================================

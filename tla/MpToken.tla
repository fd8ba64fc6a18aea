-------------------------------- MODULE MpToken --------------------------------
(***************************************************************************)
(* The Mercado Pago connection of one operacao: ensure_valid_mp_token,     *)
(* which every call to Mercado Pago goes through and which renews the      *)
(* OAuth tokens shortly before they expire, the daily job that renews them *)
(* a week ahead, the OAuth callback and the owner's disconnection.         *)
(*                                                                         *)
(* Access and refresh token come in pairs, numbered in the order Mercado   *)
(* Pago issues them; a refresh token can be exchanged once.  A renewal     *)
(* locks the row of the operacao, but the locking query gives back the     *)
(* instance the session loaded before, with the tokens it had then.        *)
(***************************************************************************)
EXTENDS Integers

CONSTANTS
  Sessions,   \* requests, webhooks, jobs: one SQLAlchemy session each
  MaxPares,   \* bound: token pairs Mercado Pago issues
  None

ASSUME MpTokenConstants == MaxPares \in Nat \ {0} /\ None \notin Sessions

VARIABLES
  op,         \* the pair stored in the row; 0: no tokens
  ligada,     \* mercadopago_connection_status = "connected"
  trava,      \* the session that holds the row lock
  sessao,     \* the sessions
  emitidos,   \* pairs issued so far
  validos,    \* pairs whose refresh token Mercado Pago will exchange
  idade,      \* how near a pair's expiry is
  renovados,  \* pairs exchanged for one that was stored
  perdidos    \* pairs exchanged for one that was never stored

vars == <<op, ligada, trava, sessao, emitidos, validos, idade, renovados, perdidos>>

Pares == 1..MaxPares

Sessao == [pc: {"fora", "lida", "trocar", "gravar", "conectar", "reconectar"},
           margem: {"pedido", "semana"},
           visto: 0..MaxPares,
           nova: 0..MaxPares]

Fora == [pc |-> "fora", margem |-> "pedido", visto |-> 0, nova |-> 0]

(* expires_at > now + margin: five minutes, or a week for the daily job.   *)
Fresco(par, margem) ==
  \/ idade[par] = "longe"
  \/ idade[par] = "semana" /\ margem = "pedido"

Sair(s) == sessao' = [sessao EXCEPT ![s] = Fora]

Go(s, pc, nova) ==
  sessao' = [sessao EXCEPT ![s] = [pc |-> pc, margem |-> sessao[s].margem,
                                   visto |-> sessao[s].visto, nova |-> nova]]

-----------------------------------------------------------------------------
(* ensure_valid_mp_token.                                                  *)

(* The row of a connected operacao is loaded: by a request that needs a    *)
(* token (mp_operacao_ready_for_payments), or by the job, that lists those *)
(* whose tokens expire within a week.                                      *)
Load(s, margem) ==
  /\ sessao[s].pc = "fora"
  /\ ligada /\ op # 0
  /\ margem = "semana" => ~Fresco(op, margem)
  /\ sessao' = [sessao EXCEPT ![s] = [pc |-> "lida", margem |-> margem,
                                      visto |-> op, nova |-> 0]]
  /\ UNCHANGED <<op, ligada, trava, emitidos, validos, idade, renovados, perdidos>>

UseToken(s) ==
  /\ sessao[s].pc = "lida"
  /\ Fresco(sessao[s].visto, sessao[s].margem)
  /\ Sair(s)
  /\ UNCHANGED <<op, ligada, trava, emitidos, validos, idade, renovados, perdidos>>

(* SELECT ... FOR UPDATE.  The second look at the expiry sees the instance *)
(* of the first one and the same `now', so it finds no renewal, ever.      *)
LockRow(s) ==
  /\ sessao[s].pc = "lida"
  /\ ~Fresco(sessao[s].visto, sessao[s].margem)
  /\ trava = None
  /\ trava' = s
  /\ Go(s, "trocar", 0)
  /\ UNCHANGED <<op, ligada, emitidos, validos, idade, renovados, perdidos>>

(* Mercado Pago exchanges the refresh token for a new pair.                *)
ExchangeOk(s) ==
  /\ sessao[s].pc = "trocar"
  /\ sessao[s].visto \in validos
  /\ emitidos < MaxPares
  /\ emitidos' = emitidos + 1
  /\ validos' = (validos \ {sessao[s].visto}) \cup {emitidos + 1}
  /\ Go(s, "gravar", emitidos + 1)
  /\ UNCHANGED <<op, ligada, trava, idade, renovados, perdidos>>

(* mark_mp_disconnected: the tokens are dropped.                           *)
DropNada(s) ==                       \* mutant: the refusal is only logged
  /\ trava' = None
  /\ Sair(s)
  /\ UNCHANGED <<op, ligada, emitidos, validos, idade, renovados, perdidos>>

Drop(s) ==
  /\ op' = 0 /\ ligada' = FALSE
  /\ trava' = None
  /\ Sair(s)
  /\ UNCHANGED <<emitidos, validos, idade, renovados, perdidos>>

(* The refresh token is not valid any more, or Mercado Pago answers with   *)
(* any other error.                                                        *)
ExchangeRefused(s) ==
  /\ sessao[s].pc = "trocar"
  /\ sessao[s].visto \notin validos
  /\ Drop(s)

ExchangeError(s) ==
  /\ sessao[s].pc = "trocar"
  /\ Drop(s)

(* The new pair is stored and the transaction commits.  The status was     *)
(* `connected' when the row was loaded, so it is not among the changes: a  *)
(* disconnection in between keeps the operacao disconnected.               *)
RefreshAntigo(s) == sessao[s].visto  \* mutant: the used refresh token is kept

Guardado(s) == sessao[s].nova

Persist(s) ==
  /\ sessao[s].pc = "gravar"
  /\ op' = Guardado(s)
  /\ renovados' = renovados \cup {sessao[s].visto}
  /\ trava' = None
  /\ Sair(s)
  /\ UNCHANGED <<ligada, emitidos, validos, idade, perdidos>>

(* The answer does not arrive (no handler for httpx errors), the commit    *)
(* fails or the process dies: the row lock goes with the transaction.      *)
Fail(s) ==
  /\ sessao[s].pc \in {"trocar", "gravar"}
  /\ perdidos' = IF sessao[s].pc = "gravar" THEN perdidos \cup {sessao[s].visto}
                                            ELSE perdidos
  /\ trava' = None
  /\ Sair(s)
  /\ UNCHANGED <<op, ligada, emitidos, validos, idade, renovados>>

-----------------------------------------------------------------------------
(* The OAuth callback: the row is loaded, the code is exchanged, then the  *)
(* row is written, which waits for the row lock.  The status is written if *)
(* the loaded one was another.                                             *)
ExchangeCode(s) ==
  /\ sessao[s].pc = "fora"
  /\ emitidos < MaxPares
  /\ emitidos' = emitidos + 1
  /\ validos' = validos \cup {emitidos + 1}
  /\ Go(s, IF ligada THEN "reconectar" ELSE "conectar", emitidos + 1)
  /\ UNCHANGED <<op, ligada, trava, idade, renovados, perdidos>>

Connect(s) ==
  /\ sessao[s].pc \in {"conectar", "reconectar"}
  /\ trava = None
  /\ op' = sessao[s].nova
  /\ ligada' = (ligada \/ sessao[s].pc = "conectar")
  /\ Sair(s)
  /\ UNCHANGED <<trava, emitidos, validos, idade, renovados, perdidos>>

(* The owner disconnects, connected or not.  Mercado Pago is not told.     *)
Disconnect ==
  /\ trava = None
  /\ op' = 0 /\ ligada' = FALSE
  /\ UNCHANGED <<trava, sessao, emitidos, validos, idade, renovados, perdidos>>

(* Time passes.                                                            *)
Age(par) ==
  /\ par <= emitidos
  /\ \/ idade[par] = "longe" /\ idade' = [idade EXCEPT ![par] = "semana"]
     \/ idade[par] = "semana" /\ idade' = [idade EXCEPT ![par] = "vence"]
  /\ UNCHANGED <<op, ligada, trava, sessao, emitidos, validos, renovados, perdidos>>

-----------------------------------------------------------------------------
Init ==
  /\ op = 0 /\ ligada = FALSE /\ trava = None
  /\ sessao = [s \in Sessions |-> Fora]
  /\ emitidos = 0 /\ validos = {}
  /\ idade = [par \in Pares |-> "longe"]
  /\ renovados = {} /\ perdidos = {}

Refresh(s) ==
  \/ UseToken(s) \/ LockRow(s) \/ ExchangeOk(s) \/ ExchangeRefused(s)
  \/ ExchangeError(s) \/ Persist(s) \/ Fail(s)

Next ==
  \/ \E s \in Sessions :
       \/ \E margem \in {"pedido", "semana"} : Load(s, margem)
       \/ Refresh(s)
       \/ ExchangeCode(s) \/ Connect(s)
  \/ Disconnect
  \/ \E par \in Pares : Age(par)

Spec == Init /\ [][Next]_vars

(* Fairness.  Time passes, the daily job runs, a session ends, the row     *)
(* lock is granted in turn, and Mercado Pago answers sooner or later.      *)
Fairness ==
  /\ \A par \in Pares : WF_vars(Age(par))
  /\ \A s \in Sessions :
       /\ SF_vars(Load(s, "semana"))
       /\ WF_vars(UseToken(s)) /\ SF_vars(LockRow(s)) /\ WF_vars(Persist(s))
       /\ WF_vars(Refresh(s) /\ sessao[s].pc = "trocar")
       /\ SF_vars(ExchangeRefused(s))
       /\ SF_vars(Connect(s))

FairSpec == Spec /\ Fairness

-----------------------------------------------------------------------------
TypeOK ==
  /\ op \in 0..MaxPares /\ ligada \in BOOLEAN
  /\ trava \in Sessions \cup {None}
  /\ sessao \in [Sessions -> Sessao]
  /\ emitidos \in 0..MaxPares
  /\ validos \in SUBSET Pares
  /\ idade \in [Pares -> {"longe", "semana", "vence"}]
  /\ renovados \in SUBSET Pares /\ perdidos \in SUBSET Pares

(* An operacao with tokens can always renew: the refresh token is one      *)
(* Mercado Pago will exchange, but for the pair being exchanged right now  *)
(* and the pairs whose exchange was not stored.  Stale copies, callbacks   *)
(* and disconnections in between never leave a used token behind.          *)
ConectadaRenovavel ==
  op # 0 => \/ op \in validos
            \/ op \in perdidos
            \/ \E s \in Sessions : sessao[s].pc = "gravar" /\ sessao[s].visto = op

(* A connected operacao does not stay with a pair that was lost between    *)
(* the exchange and the commit: it ends up disconnected, or connected with *)
(* another one.                                                            *)
PerdidoSai ==
  \A par \in Pares :
    (ligada /\ op = par /\ par \in perdidos) ~> (~ligada \/ op # par)

(* mercadopago_token_service.py:91, "dois webhooks/requests simultaneos    *)
(* nao devem ambos chamar refresh_oauth_token com o mesmo refresh_token":  *)
(* nobody is about to exchange a token that was renewed and stored.        *)
TrocaUnica ==
  \A s \in Sessions : sessao[s].pc = "trocar" => sessao[s].visto \notin renovados
=============================================================================

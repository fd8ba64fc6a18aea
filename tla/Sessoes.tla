------------------------------- MODULE Sessoes -------------------------------
(***************************************************************************)
(* The refresh tokens of one user (refresh_tokens.py, routers/auth.py).    *)
(* A token is a Redis key stamped with the user's epoch; logging out       *)
(* everywhere raises the epoch, and a token with an older stamp is         *)
(* refused.  Both keys have the same time to live, counted down here; a    *)
(* tick of time is long and falls between requests, not inside one.        *)
(***************************************************************************)
EXTENDS Naturals

CONSTANTS
  Tokens, Requisicoes,
  Ttl,         \* refresh_token_expire_days
  MaxEpoca,    \* bound
  SemToken

ASSUME SessoesConstants ==
  Ttl \in Nat \ {0} /\ MaxEpoca \in Nat /\ SemToken \notin Tokens

VARIABLES
  epoca,       \* refresh_epoch:<user>; v 0: no key; resta 0: no expiry
  tokens,      \* refresh:<token>; resta 0: no key
  req,         \* requests under way
  revogados,   \* tokens a revocation of all sessions has caught
  cortada,     \* a revocation broke off between INCR and EXPIRE
  esquecida    \* the epoch expired before a token stamped with it

sessoesVars == <<epoca, tokens, req, revogados, cortada, esquecida>>

Token == [visto: BOOLEAN, epoca: Nat, resta: 0..Ttl]   \* visto: was given out

Requisicao == [pc: {"livre", "trocar", "ler", "gravar", "expirar", "varrer"},
               token: Tokens \cup {SemToken},
               epoca: Nat]

Parada == [pc |-> "livre", token |-> SemToken, epoca |-> 0]

Vai(p, pc) == req' = [req EXCEPT ![p].pc = pc]

Entra(p, pc, t) ==
  /\ req[p].pc = "livre"
  /\ req' = [req EXCEPT ![p] = [pc |-> pc, token |-> t, epoca |-> 0]]

Sai(p) == req' = [req EXCEPT ![p] = Parada]

(* _current_epoch and validate_refresh_token.                              *)
ValidoSemEpoca(t) == tokens[t].resta # 0   \* mutant: the stamp is not compared

Valido(t) == tokens[t].resta # 0 /\ tokens[t].epoca >= epoca.v

Guardados == {t \in Tokens : tokens[t].resta # 0}

Apaga(ts) ==
  tokens' = [t \in Tokens |-> IF t \in ts THEN [tokens[t] EXCEPT !.resta = 0]
                              ELSE tokens[t]]

-----------------------------------------------------------------------------
IssueTokens(p) ==
  /\ Entra(p, "ler", SemToken)
  /\ UNCHANGED <<epoca, tokens, revogados, cortada, esquecida>>

(* /auth/refresh: the token is valid, is removed, and a new one is made.   *)
(* Removing it may fail and is then skipped.                               *)
RefreshTokens(p, t) ==
  /\ Valido(t)
  /\ Entra(p, "trocar", t)
  /\ UNCHANGED <<epoca, tokens, revogados, cortada, esquecida>>

RevokeOld(p) ==
  /\ req[p].pc = "trocar"
  /\ Vai(p, "ler")
  /\ Apaga({req[p].token}) \/ UNCHANGED tokens
  /\ UNCHANGED <<epoca, revogados, cortada, esquecida>>

(* create_refresh_token: GET the epoch, then SETEX the stamped token.      *)
ReadEpoch(p) ==
  /\ req[p].pc = "ler"
  /\ req' = [req EXCEPT ![p].pc = "gravar", ![p].epoca = epoca.v]
  /\ UNCHANGED <<epoca, tokens, revogados, cortada, esquecida>>

CreateRefreshToken(p, t) ==
  /\ req[p].pc = "gravar"
  /\ ~tokens[t].visto
  /\ tokens' = [tokens EXCEPT ![t] = [visto |-> TRUE, epoca |-> req[p].epoca,
                                      resta |-> Ttl]]
  /\ revogados' = IF req[p].epoca < epoca.v THEN revogados \cup {t} ELSE revogados
  /\ Sai(p)
  /\ UNCHANGED <<epoca, cortada, esquecida>>

Logout(t) ==
  /\ Valido(t)
  /\ Apaga({t})
  /\ UNCHANGED <<epoca, req, revogados, cortada, esquecida>>

(* revoke_all_refresh_tokens_for_user, for logout-all and a new password:  *)
(* INCR, EXPIRE, then the keys are walked and removed as far as it goes.   *)
RevokeAll(p) ==
  /\ epoca.v < MaxEpoca
  /\ Entra(p, "expirar", SemToken)
  /\ epoca' = [epoca EXCEPT !.v = @ + 1]
  /\ revogados' = revogados \cup Guardados
  /\ UNCHANGED <<tokens, cortada, esquecida>>

ExpireEpoch(p) ==
  /\ req[p].pc = "expirar"
  /\ epoca' = [epoca EXCEPT !.resta = Ttl]
  /\ Vai(p, "varrer")
  /\ UNCHANGED <<tokens, revogados, cortada, esquecida>>

(* A command that fails is logged, and the walk goes on all the same.      *)
IncrFails(p) ==
  /\ Entra(p, "varrer", SemToken)
  /\ UNCHANGED <<epoca, tokens, revogados, cortada, esquecida>>

ExpireFails(p) ==
  /\ req[p].pc = "expirar"
  /\ cortada' = TRUE
  /\ Vai(p, "varrer")
  /\ UNCHANGED <<epoca, tokens, revogados, esquecida>>

ScanDelete(p) ==
  /\ req[p].pc = "varrer"
  /\ \E ts \in SUBSET Guardados : Apaga(ts)
  /\ Sai(p)
  /\ UNCHANGED <<epoca, revogados, cortada, esquecida>>

(* The process dies, or Redis answers with an error.                       *)
Interrompe(p) ==
  /\ req[p].pc # "livre"
  /\ cortada' = (cortada \/ req[p].pc = "expirar")
  /\ Sai(p)
  /\ UNCHANGED <<epoca, tokens, revogados, esquecida>>

Menos(n) == IF n = 0 THEN 0 ELSE n - 1

Tempo ==
  /\ \A p \in Requisicoes : req[p].pc = "livre"
  /\ epoca' = [v |-> IF epoca.resta = 1 THEN 0 ELSE epoca.v,
               resta |-> Menos(epoca.resta)]
  /\ tokens' = [t \in Tokens |-> [tokens[t] EXCEPT !.resta = Menos(@)]]
  /\ esquecida' = (esquecida \/ (epoca.resta = 1 /\
       \E t \in Tokens : tokens[t].resta > 1 /\ tokens[t].epoca > 0))
  /\ UNCHANGED <<req, revogados, cortada>>

SessoesInit ==
  /\ epoca = [v |-> 0, resta |-> 0]
  /\ tokens = [t \in Tokens |-> [visto |-> FALSE, epoca |-> 0, resta |-> 0]]
  /\ req = [p \in Requisicoes |-> Parada]
  /\ revogados = {} /\ cortada = FALSE /\ esquecida = FALSE

SessoesNext ==
  \/ \E p \in Requisicoes :
       \/ IssueTokens(p) \/ RevokeOld(p) \/ ReadEpoch(p)
       \/ RevokeAll(p) \/ ExpireEpoch(p) \/ IncrFails(p) \/ ExpireFails(p)
       \/ ScanDelete(p) \/ Interrompe(p)
       \/ \E t \in Tokens : RefreshTokens(p, t) \/ CreateRefreshToken(p, t)
  \/ \E t \in Tokens : Logout(t)
  \/ Tempo

SessoesSpec == SessoesInit /\ [][SessoesNext]_sessoesVars

-----------------------------------------------------------------------------
SessoesTypeOK ==
  /\ epoca \in [v: Nat, resta: 0..Ttl]
  /\ tokens \in [Tokens -> Token]
  /\ req \in [Requisicoes -> Requisicao]
  /\ revogados \in SUBSET Tokens
  /\ cortada \in BOOLEAN /\ esquecida \in BOOLEAN

(* A token stored before a revocation of all sessions, or stored after it  *)
(* with a stamp read before, is not accepted again whichever requests and  *)
(* lost deletions overlap: the epoch outlives the tokens it revokes, as    *)
(* long as its expiry was renewed and no token outlived an earlier epoch   *)
(* (refresh_tokens.py:39, :106).                                           *)
RevogadoNaoVale ==
  ~cortada /\ ~esquecida => \A t \in revogados : ~Valido(t)

(* "Invalidacao atomica: nada emitido antes deste ponto continua valido"   *)
(* (refresh_tokens.py:105).                                                *)
RevogacaoAtomica == ~cortada => \A t \in revogados : ~Valido(t)
=============================================================================

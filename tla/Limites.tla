-------------------------------- MODULE Limites --------------------------------
(***************************************************************************)
(* Counting failed attempts (rate_limit.py): the requests of one address   *)
(* to one of the counted doors - login, refresh, webhook, payment portal - *)
(* and its key in Redis.                                                   *)
(*                                                                         *)
(* The counter is read before the attempt and written after it; INCR and   *)
(* EXPIRE are two calls.  Without Redis the doors are open.                *)
(***************************************************************************)
EXTENDS Naturals, FiniteSets

CONSTANTS
  Tentantes,     \* requests at the same time
  MaxFalhas,     \* attempts that block
  Janela,        \* expiry of the counter
  MaxQuedas      \* bound: calls without Redis and deaths

ASSUME LimitesConstants ==
  /\ IsFiniteSet(Tentantes)
  /\ {MaxFalhas, Janela} \subseteq Nat \ {0} /\ MaxQuedas \in Nat

VARIABLES
  tentativas,          \* the counter, 0 without a key
  prazo,      \* what is left of the key, 0 without an expiry
  tentante,   \* the requests
  semRedis,   \* history: calls that found no Redis, deaths
  orfa        \* history: a request died between INCR and EXPIRE

limitesVars == <<tentativas, prazo, tentante, semRedis, orfa>>

Leva(p, pc) == tentante' = [tentante EXCEPT ![p] = pc]

Some == semRedis < MaxQuedas /\ semRedis' = semRedis + 1

(* assert_login_not_blocked and the like: 429, or on to the attempt.       *)
AssertNotBlockedMais(p) ==         \* mutant: one attempt more
  /\ tentante[p] = "fora"
  /\ tentativas <= MaxFalhas
  /\ Leva(p, "dentro") /\ UNCHANGED <<tentativas, prazo, semRedis, orfa>>

AssertNotBlocked(p) ==
  /\ tentante[p] = "fora"
  /\ tentativas < MaxFalhas
  /\ Leva(p, "dentro") /\ UNCHANGED <<tentativas, prazo, semRedis, orfa>>

FailOpen(p) ==
  /\ tentante[p] = "fora"
  /\ Some
  /\ Leva(p, "dentro") /\ UNCHANGED <<tentativas, prazo, orfa>>

(* record_login_failure: the first failure of a window sets its end.       *)
RecordFailureSemPrazo(p) ==        \* mutant: no window is set
  /\ tentante[p] = "dentro"
  /\ tentativas' = tentativas + 1
  /\ Leva(p, "fora")
  /\ UNCHANGED <<prazo, semRedis, orfa>>

RecordFailure(p) ==
  /\ tentante[p] = "dentro"
  /\ tentativas' = tentativas + 1
  /\ Leva(p, IF tentativas = 0 THEN "marcar" ELSE "fora")
  /\ UNCHANGED <<prazo, semRedis, orfa>>

Expire(p) ==
  /\ tentante[p] = "marcar"
  /\ prazo' = IF tentativas = 0 THEN 0 ELSE Janela
  /\ Leva(p, "fora") /\ UNCHANGED <<tentativas, semRedis, orfa>>

(* clear_login_attempts after a success; the portal has none.              *)
ClearAttempts(p) ==
  /\ tentante[p] = "dentro"
  /\ tentativas' = 0 /\ prazo' = 0
  /\ Leva(p, "fora") /\ UNCHANGED <<semRedis, orfa>>

Sucesso(p) ==
  /\ tentante[p] = "dentro"
  /\ Leva(p, "fora") /\ UNCHANGED <<tentativas, prazo, semRedis, orfa>>

(* The write fails, or the process dies.                                   *)
PerdeConta(p) ==
  /\ tentante[p] # "fora"
  /\ Some
  /\ orfa' = (orfa \/ tentante[p] = "marcar")
  /\ Leva(p, "fora") /\ UNCHANGED <<tentativas, prazo>>

PassaTempo ==
  /\ prazo > 0
  /\ prazo' = prazo - 1
  /\ tentativas' = IF prazo = 1 THEN 0 ELSE tentativas
  /\ UNCHANGED <<tentante, semRedis, orfa>>

-----------------------------------------------------------------------------
LimitesInit ==
  /\ tentativas = 0 /\ prazo = 0
  /\ tentante = [p \in Tentantes |-> "fora"]
  /\ semRedis = 0 /\ orfa = FALSE

Termina_(p) ==
  \/ RecordFailure(p) \/ Expire(p) \/ ClearAttempts(p) \/ Sucesso(p)

LimitesNext ==
  \/ \E p \in Tentantes :
       AssertNotBlocked(p) \/ FailOpen(p) \/ Termina_(p) \/ PerdeConta(p)
  \/ PassaTempo

LimitesSpec == LimitesInit /\ [][LimitesNext]_limitesVars

(* Requests come to an end and time passes.                                *)
LimitesFairness ==
  /\ \A p \in Tentantes : WF_limitesVars(Termina_(p))
  /\ WF_limitesVars(PassaTempo)

-----------------------------------------------------------------------------
LimitesTypeOK ==
  /\ tentativas \in Nat /\ prazo \in 0..Janela
  /\ tentante \in [Tentantes -> {"fora", "dentro", "marcar"}]
  /\ semRedis \in Nat /\ orfa \in BOOLEAN

Entraram == {p \in Tentantes : tentante[p] = "dentro"}

(* The check and the count are apart, so requests that are let in together *)
(* exceed the limit, but never by more than there are of them              *)
(* (rate_limit.py:19, :35).                                                *)
LimiteExcedido ==
  semRedis = 0 =>
    tentativas + Cardinality(Entraram) <= MaxFalhas - 1 + Cardinality(Tentantes)

(* A counter has an end, or the request that counted first is about to     *)
(* set it (rate_limit.py:37).                                              *)
ContadorTemPrazo ==
  tentativas > 0 /\ prazo = 0 => orfa \/ \E p \in Tentantes : tentante[p] = "marcar"

(* So nobody stays locked out, however successes, failures and the end of  *)
(* the window overlap.                                                     *)
Desbloqueia == tentativas >= MaxFalhas ~> tentativas < MaxFalhas \/ orfa
=============================================================================

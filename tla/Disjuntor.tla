------------------------------ MODULE Disjuntor ------------------------------
(***************************************************************************)
(* The circuit breaker in front of Telegram (redis_circuit_breaker.py).    *)
(* State, failure count and opening time are three Redis keys; workers     *)
(* read and write them one command at a time, and may die in between.      *)
(***************************************************************************)
EXTENDS Naturals

CONSTANTS
  Workers,
  Limite,       \* failure_threshold
  Recuperacao,  \* recovery_timeout
  Mortes,       \* bound: workers that die or lose Redis inside a call
  SemHora

ASSUME DisjuntorConstants ==
  /\ Limite \in Nat \ {0} /\ Recuperacao \in Nat \ {0} /\ Mortes \in Nat
  /\ SemHora \notin Nat

VARIABLES
  estado,      \* cb:state, no expiry
  aberto,      \* age of cb:opened_at, or no key
  falhasCb,    \* cb:failures and its remaining time
  worker,
  mortes,
  partida      \* some worker died between two writes that belong together

disjuntorVars == <<estado, aberto, falhasCb, worker, mortes, partida>>

Worker == [pc: {"livre", "ver", "meia", "chama", "apagar", "fechar",
                "abrir", "datar"},
           lido: {"closed", "open", "half-open"}]

Ocioso == [pc |-> "livre", lido |-> "closed"]

De(w, pc) == worker[w].pc = pc

Para(w, pc) == worker' = [worker EXCEPT ![w].pc = pc]

Fim(w) == worker' = [worker EXCEPT ![w] = Ocioso]

Chamar(w, st) == worker' = [worker EXCEPT ![w] = [pc |-> "chama", lido |-> st]]

-----------------------------------------------------------------------------
(* _get_state: an open breaker is looked at again once its time is over.   *)
GetState(w) ==
  /\ De(w, "livre")
  /\ IF estado = "open" THEN Para(w, "ver") ELSE Chamar(w, estado)
  /\ UNCHANGED <<estado, aberto, falhasCb, mortes, partida>>

RejectCallRenova(w) ==             \* mutant: a refused call renews the time
  /\ De(w, "ver")
  /\ aberto # SemHora => aberto <= Recuperacao
  /\ aberto' = 0
  /\ Fim(w)
  /\ UNCHANGED <<estado, falhasCb, mortes, partida>>

RejectCall(w) ==
  /\ De(w, "ver")
  /\ aberto # SemHora => aberto <= Recuperacao
  /\ Fim(w)
  /\ UNCHANGED <<estado, aberto, falhasCb, mortes, partida>>

RecoveryOver(w) ==
  /\ De(w, "ver")
  /\ aberto # SemHora /\ aberto > Recuperacao
  /\ Para(w, "meia")
  /\ UNCHANGED <<estado, aberto, falhasCb, mortes, partida>>

SetHalfOpen(w) ==
  /\ De(w, "meia")
  /\ estado' = "half-open"
  /\ Chamar(w, "half-open")
  /\ UNCHANGED <<aberto, falhasCb, mortes, partida>>

(* call: success closes a half-open breaker, and does nothing otherwise.   *)
CallSucceeds(w) ==
  /\ De(w, "chama")
  /\ IF worker[w].lido = "half-open" THEN Para(w, "apagar") ELSE Fim(w)
  /\ UNCHANGED <<estado, aberto, falhasCb, mortes, partida>>

DeleteKeys(w) ==
  /\ De(w, "apagar")
  /\ aberto' = SemHora
  /\ falhasCb' = [n |-> 0, resta |-> 0]
  /\ Para(w, "fechar")
  /\ UNCHANGED <<estado, mortes, partida>>

SetClosed(w) ==
  /\ De(w, "fechar")
  /\ estado' = "closed"
  /\ Fim(w)
  /\ UNCHANGED <<aberto, falhasCb, mortes, partida>>

(* Any exception counts, a permanent refusal of one chat as well.          *)
CallFails(w) ==
  /\ De(w, "chama")
  /\ falhasCb' = [n |-> IF falhasCb.n < Limite THEN falhasCb.n + 1 ELSE Limite,
                  resta |-> 2 * Recuperacao]
  /\ IF falhasCb'.n >= Limite THEN Para(w, "abrir") ELSE Fim(w)
  /\ UNCHANGED <<estado, aberto, mortes, partida>>

SetOpen(w) ==
  /\ De(w, "abrir")
  /\ estado' = "open"
  /\ Para(w, "datar")
  /\ UNCHANGED <<aberto, falhasCb, mortes, partida>>

SetOpenedAt(w) ==
  /\ De(w, "datar")
  /\ aberto' = 0
  /\ Fim(w)
  /\ UNCHANGED <<estado, falhasCb, mortes, partida>>

Morre(w) ==
  /\ ~De(w, "livre")
  /\ mortes < Mortes
  /\ mortes' = mortes + 1
  /\ partida' = (partida \/ De(w, "datar") \/ De(w, "fechar"))
  /\ Fim(w)
  /\ UNCHANGED <<estado, aberto, falhasCb>>

Relogio ==
  /\ aberto' = IF aberto = SemHora \/ aberto > Recuperacao THEN aberto ELSE aberto + 1
  /\ falhasCb' = IF falhasCb.resta <= 1 THEN [n |-> 0, resta |-> 0]
                 ELSE [falhasCb EXCEPT !.resta = @ - 1]
  /\ UNCHANGED <<estado, worker, mortes, partida>>

DisjuntorInit ==
  /\ estado = "closed" /\ aberto = SemHora
  /\ falhasCb = [n |-> 0, resta |-> 0]
  /\ worker = [w \in Workers |-> Ocioso]
  /\ mortes = 0 /\ partida = FALSE

Passo(w) ==
  \/ GetState(w) \/ RejectCall(w) \/ RecoveryOver(w) \/ SetHalfOpen(w)
  \/ CallSucceeds(w) \/ DeleteKeys(w) \/ SetClosed(w)
  \/ CallFails(w) \/ SetOpen(w) \/ SetOpenedAt(w)

DisjuntorNext == Relogio \/ \E w \in Workers : Passo(w) \/ Morre(w)

DisjuntorSpec == DisjuntorInit /\ [][DisjuntorNext]_disjuntorVars

(* Time passes, messages keep coming, and a worker goes on with its call.  *)
DisjuntorFairness ==
  /\ WF_disjuntorVars(Relogio)
  /\ \A w \in Workers : WF_disjuntorVars(Passo(w))

-----------------------------------------------------------------------------
DisjuntorTypeOK ==
  /\ estado \in {"closed", "open", "half-open"}
  /\ aberto \in 0..(Recuperacao + 1) \cup {SemHora}
  /\ falhasCb \in [n: 0..Limite, resta: 0..(2 * Recuperacao)]
  /\ worker \in [Workers -> Worker]
  /\ mortes \in Nat /\ partida \in BOOLEAN

(* An open breaker knows since when, or the worker that opens or closes it *)
(* is about to write the rest; only a death between the two writes takes   *)
(* the time away for good (redis_circuit_breaker.py:60, :70).              *)
AbertoTemHora ==
  estado = "open" /\ aberto = SemHora =>
    partida \/ \E w \in Workers : De(w, "datar") \/ De(w, "fechar")

(* So the breaker does not stay open for ever, however calls, successes    *)
(* and failures of several workers overlap (redis_circuit_breaker.py:44):  *)
(* a worker died between two writes if it does.                            *)
AbertoReabre == estado = "open" ~> estado # "open" \/ partida
=============================================================================

-------------------------------- MODULE Outbox --------------------------------
(***************************************************************************)
(* Domain events: the rows of eventos_dominio, the Celery message that     *)
(* carries each of them to handle_domain_event, the Telegram messages the  *)
(* task sends, and the dead letter queue.                                  *)
(*                                                                         *)
(* The row is committed with the change it tells of; the message is put on *)
(* the broker afterwards, at best effort.  A worker takes a message off    *)
(* the broker before it runs it (acks_late is not set), so what a dying    *)
(* worker runs is gone.  A task that raises TelegramTransientError is put  *)
(* back with its retry count raised; any other failure ends it.            *)
(***************************************************************************)
EXTENDS Integers

CONSTANTS
  Eventos,       \* bound: the events that may be emitted
  Tarefas,       \* bound: the task ids Celery may hand out
  Partes,        \* messages of one event: the default text, custom texts
  MaxRetries,    \* _RETRY_KW max_retries
  None

ASSUME OutboxConstants ==
  /\ Partes \in Nat \ {0}
  /\ MaxRetries \in Nat
  /\ None \notin Eventos

VARIABLES
  evento,      \* eventos_dominio: not there, pending, processado_em set
  emissor,     \* what the request that emitted the event has still to do
  tarefa,      \* the task messages, by task id
  dlq,         \* dlq:tasks, a set of task ids
  broker,      \* the broker answers
  degradado,   \* no REDIS_URL: in-memory fallback, nobody consumes
  enviadas,    \* Telegram messages of the event the customer received
  recusada,    \* nobody to tell: no chat, no bot, or refused for good
  esgotada,    \* the event's task ran out of retries
  repetidos    \* history: the events an operator put back

vars == <<evento, emissor, tarefa, dlq, broker, degradado,
          enviadas, recusada, esgotada, repetidos>>

Tarefa == [pc: {"livre", "fila", "ler", "enviar", "gravar", "fim"},
           evento: Eventos \cup {None},
           retries: 0..MaxRetries,
           parte: 0..Partes]

Livre == [pc |-> "livre", evento |-> None, retries |-> 0, parte |-> 0]

Nova(e) == [pc |-> "fila", evento |-> e, retries |-> 0, parte |-> 0]

Viva(t) == tarefa[t].pc \in {"fila", "ler", "enviar", "gravar"}

Rodando(t) == tarefa[t].pc \in {"ler", "enviar", "gravar"}

-----------------------------------------------------------------------------
(* The emitter.                                                            *)

(* The commit that inserts the row.  The webhook, the refund endpoint, the *)
(* card payment, the moto status change and the daily pass go on to        *)
(* enqueue it; the reconciliation passes drop its id.                      *)
Emit(e) ==
  /\ evento[e] = "nenhum"
  /\ evento' = [evento EXCEPT ![e] = "pendente"]
  /\ \E depois \in {"enfileirar", "fim"} :
       emissor' = [emissor EXCEPT ![e] = depois]
  /\ UNCHANGED <<tarefa, dlq, broker, degradado, enviadas,
                 recusada, esgotada, repetidos>>

(* A message for a fresh task.                                             *)
Publish(e) ==
  \E t \in Tarefas :
    /\ tarefa[t].pc = "livre"
    /\ tarefa' = [tarefa EXCEPT ![t] = Nova(e)]

(* enqueue_domain_event: nothing in degraded mode, and an error of the     *)
(* broker is logged.                                                       *)
NaoFeito(e) == emissor              \* mutant: enqueued again

Feito(e) == [emissor EXCEPT ![e] = "fim"]

Enqueue(e) ==
  /\ emissor[e] = "enfileirar"
  /\ emissor' = Feito(e)
  /\ IF degradado \/ ~broker THEN UNCHANGED tarefa ELSE Publish(e)
  /\ UNCHANGED <<evento, dlq, broker, degradado, enviadas,
                 recusada, esgotada, repetidos>>

(* The process dies between the commit and the enqueue.                    *)
EmitterDies(e) ==
  /\ emissor[e] = "enfileirar"
  /\ emissor' = [emissor EXCEPT ![e] = "fim"]
  /\ UNCHANGED <<evento, tarefa, dlq, broker, degradado,
                 enviadas, recusada, esgotada, repetidos>>

-----------------------------------------------------------------------------
(* The task.                                                               *)

Go(t, pc) == tarefa' = [tarefa EXCEPT ![t].pc = pc]

Take(t) ==
  /\ broker
  /\ tarefa[t].pc = "fila"
  /\ Go(t, "ler")
  /\ UNCHANGED <<evento, emissor, dlq, broker, degradado,
                 enviadas, recusada, esgotada, repetidos>>

JaProcessado(t) == evento[tarefa[t].evento] = "processado"

(* The row is read; a processed event is left alone.  Without a customer   *)
(* chat, or without a bot token, there is nothing to send.                 *)
Load(t) ==
  /\ tarefa[t].pc = "ler"
  /\ \/ /\ JaProcessado(t)
        /\ Go(t, "fim")
        /\ UNCHANGED recusada
     \/ /\ ~JaProcessado(t)
        /\ Go(t, "enviar")
        /\ UNCHANGED recusada
     \/ /\ ~JaProcessado(t)
        /\ Go(t, "gravar")
        /\ recusada' = [recusada EXCEPT ![tarefa[t].evento] = TRUE]
  /\ UNCHANGED <<evento, emissor, dlq, broker, degradado,
                 enviadas, esgotada, repetidos>>

(* One message is received; after the last one the row is written.         *)
Deliver(t) ==
  enviadas' = [enviadas EXCEPT ![tarefa[t].evento] = @ + 1]

Enviada(t) ==
  LET n == tarefa[t].parte + 1
  IN  [tarefa[t] EXCEPT !.parte = n,
                        !.pc = IF n = Partes THEN "gravar" ELSE "enviar"]

Send(t) ==
  /\ tarefa[t].pc = "enviar"
  /\ Deliver(t)
  /\ tarefa' = [tarefa EXCEPT ![t] = Enviada(t)]
  /\ UNCHANGED <<evento, emissor, dlq, broker, degradado,
                 recusada, esgotada, repetidos>>

(* Flood control, 5xx, a timeout (the message may have arrived), an open   *)
(* circuit breaker.  The retry starts over with the first message; it is   *)
(* lost when the broker does not take it, and the last one gives up.       *)
ProximaZero(n) == 0                 \* mutant: the count starts over

Proxima(n) == n + 1

Ignorar(t) == [tarefa[t] EXCEPT !.pc = "gravar"]   \* mutant: error swallowed

Retry(t) == [tarefa[t] EXCEPT !.pc = "fila", !.parte = 0,
                              !.retries = Proxima(@)]

PodeTentar(t) == tarefa[t].retries < MaxRetries

SendTransient(t) ==
  /\ tarefa[t].pc = "enviar"
  /\ Deliver(t) \/ UNCHANGED enviadas
  /\ \/ /\ PodeTentar(t) /\ broker
        /\ tarefa' = [tarefa EXCEPT ![t] = Retry(t)]
        /\ UNCHANGED esgotada
     \/ /\ PodeTentar(t) /\ ~broker
        /\ Go(t, "fim")
        /\ UNCHANGED esgotada
     \/ /\ ~PodeTentar(t)
        /\ Go(t, "fim")
        /\ esgotada' = [esgotada EXCEPT ![tarefa[t].evento] = TRUE]
  /\ UNCHANGED <<evento, emissor, dlq, broker, degradado, recusada, repetidos>>

(* Blocked bot, unknown chat: logged, and the event counts as processed.   *)
SendPermanent(t) ==
  /\ tarefa[t].pc = "enviar"
  /\ Go(t, "gravar")
  /\ recusada' = [recusada EXCEPT ![tarefa[t].evento] = TRUE]
  /\ UNCHANGED <<evento, emissor, dlq, broker, degradado,
                 enviadas, esgotada, repetidos>>

Record(t) ==
  /\ tarefa[t].pc = "gravar"
  /\ Go(t, "fim")
  /\ evento' = [evento EXCEPT ![tarefa[t].evento] = "processado"]
  /\ UNCHANGED <<emissor, dlq, broker, degradado, enviadas,
                 recusada, esgotada, repetidos>>

(* The worker dies, or the database fails: the message was acknowledged.   *)
TaskDies(t) ==
  /\ Rodando(t)
  /\ Go(t, "fim")
  /\ UNCHANGED <<evento, emissor, dlq, broker, degradado,
                 enviadas, recusada, esgotada, repetidos>>

(* SoftTimeLimitExceeded is one of the two exceptions on_failure moves to  *)
(* the dead letter queue.  The other, MaxRetriesExceededError, never comes:*)
(* an exhausted autoretry raises the original TelegramTransientError.      *)
SoftTimeLimit(t) ==
  /\ Rodando(t)
  /\ Go(t, "fim")
  /\ dlq' = IF broker THEN dlq \cup {t} ELSE dlq
  /\ UNCHANGED <<evento, emissor, broker, degradado,
                 enviadas, recusada, esgotada, repetidos>>

-----------------------------------------------------------------------------
(* The operator: a retried item stays in the list.                         *)

DlqRetry(t) ==
  /\ t \in dlq /\ broker
  /\ Publish(tarefa[t].evento)
  /\ repetidos' = repetidos \cup {tarefa[t].evento}
  /\ UNCHANGED <<evento, emissor, dlq, broker, degradado,
                 enviadas, recusada, esgotada>>

DlqDiscard(t) ==
  /\ t \in dlq /\ broker
  /\ dlq' = dlq \ {t}
  /\ UNCHANGED <<evento, emissor, tarefa, broker, degradado,
                 enviadas, recusada, esgotada, repetidos>>

-----------------------------------------------------------------------------
(* Redis.                                                                  *)

Broker ==
  /\ ~degradado
  /\ broker' = ~broker
  /\ UNCHANGED <<evento, emissor, tarefa, dlq, degradado,
                 enviadas, recusada, esgotada, repetidos>>

(* REDIS_URL is set and the system restarted with a worker.                *)
Provision ==
  /\ degradado
  /\ degradado' = FALSE /\ broker' = TRUE
  /\ UNCHANGED <<evento, emissor, tarefa, dlq, enviadas,
                 recusada, esgotada, repetidos>>

Init ==
  /\ evento = [e \in Eventos |-> "nenhum"]
  /\ emissor = [e \in Eventos |-> "livre"]
  /\ tarefa = [t \in Tarefas |-> Livre]
  /\ dlq = {}
  /\ degradado \in BOOLEAN
  /\ broker = ~degradado
  /\ enviadas = [e \in Eventos |-> 0]
  /\ recusada = [e \in Eventos |-> FALSE]
  /\ esgotada = [e \in Eventos |-> FALSE]
  /\ repetidos = {}

Task(t) ==
  \/ Take(t) \/ Load(t) \/ Send(t) \/ SendTransient(t) \/ SendPermanent(t)
  \/ Record(t) \/ TaskDies(t) \/ SoftTimeLimit(t)

Next ==
  \/ \E e \in Eventos : Emit(e) \/ Enqueue(e) \/ EmitterDies(e)
  \/ \E t \in Tarefas : Task(t)
  \/ \E t \in Tarefas : DlqRetry(t) \/ DlqDiscard(t)
  \/ Broker \/ Provision

Spec == Init /\ [][Next]_vars

(* Fairness.  Workers run what they took (WF) and take what the broker     *)
(* offers whenever it is up again (SF); requests end (WF).                 *)
Fairness ==
  /\ \A t \in Tarefas : WF_vars(Rodando(t) /\ Task(t)) /\ SF_vars(Take(t))
  /\ \A e \in Eventos : WF_vars(Enqueue(e))
  /\ WF_vars(Provision)
  /\ SF_vars(Broker /\ broker')

FairSpec == Spec /\ Fairness

-----------------------------------------------------------------------------
TypeOK ==
  /\ evento \in [Eventos -> {"nenhum", "pendente", "processado"}]
  /\ emissor \in [Eventos -> {"livre", "enfileirar", "fim"}]
  /\ tarefa \in [Tarefas -> Tarefa]
  /\ dlq \in SUBSET Tarefas
  /\ broker \in BOOLEAN /\ degradado \in BOOLEAN
  /\ enviadas \in [Eventos -> Nat]
  /\ recusada \in [Eventos -> BOOLEAN]
  /\ esgotada \in [Eventos -> BOOLEAN]
  /\ repetidos \in SUBSET Eventos

(* An event that is marked processed was told to the customer in full, or  *)
(* there was nobody to tell: no retry, crash or dead letter cuts it short. *)
ProcessadoEntregue ==
  \A e \in Eventos :
    evento[e] = "processado" => enviadas[e] >= Partes \/ recusada[e]

(* One task at most works on an event that no operator put back, so the   *)
(* unlocked check of processado_em is enough: once such an event is        *)
(* processed no further message about it goes out, whatever is retried.    *)
NadaAposProcessado ==
  [][\A e \in Eventos \ repetidos :
       evento[e] = "processado" => enviadas'[e] = enviadas[e]]_vars

(* Every task ends, although each transient failure puts it back: the      *)
(* telegram queue is never held up by one customer's chat.                 *)
TarefaTermina == \A t \in Tarefas : Viva(t) ~> tarefa[t].pc = "fim"

-----------------------------------------------------------------------------
(* What the source says of the code and the code does not do.              *)

(* dispatch.py:12, in degraded mode "o evento fica persistido e será       *)
(* processado quando houver Redis + worker".                               *)
PersistidoEProcessado ==
  \A e \in Eventos : (emissor[e] = "enfileirar" /\ degradado)
                       ~> evento[e] = "processado"

(* celery_observability.py:77, "Task {task_id} moved to DLQ after N        *)
(* retries": an event whose task ran out of retries is in the queue.       *)
EsgotadaNaDlq ==
  \A e \in Eventos :
    esgotada[e] => \E t \in dlq : tarefa[t].evento = e
=============================================================================

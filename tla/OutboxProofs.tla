----------------------------- MODULE OutboxProofs -----------------------------
(***************************************************************************)
(* What the workers tell the world, and what they keep in Redis.           *)
(*                                                                         *)
(* For any events, task ids, number of messages and retry bound:           *)
(*   - a processed event was told in full;                                 *)
(*   - nothing is sent about a processed event no operator put back.       *)
(* The second rests on a fact about messages: the right to work on such an *)
(* event is in one place only, the request that has still to enqueue it or *)
(* one live task, and it is gone once the event is processed.              *)
(*                                                                         *)
(* For any workers, threshold and recovery time the breaker in front of    *)
(* Telegram knows since when it is open.  And the dict that stands in for  *)
(* Redis implements what the code asks of Redis, for any keys and times.   *)
(***************************************************************************)
EXTENDS Disjuntor, Outbox, RedisMemoria, TLAPS

(* How far a running task has come is covered by what was received.        *)
Progresso(t) ==
  LET e == tarefa[t].evento IN
  /\ tarefa[t].pc # "livre" => e \in Eventos
  /\ tarefa[t].pc = "enviar" => /\ tarefa[t].parte < Partes
                                /\ tarefa[t].parte <= enviadas[e]
  /\ tarefa[t].pc \in {"fila", "ler"} => tarefa[t].parte = 0
  /\ tarefa[t].pc = "gravar" => enviadas[e] >= Partes \/ recusada[e]

IInv ==
  /\ TypeOK
  /\ ProcessadoEntregue
  /\ \A t \in Tarefas : Progresso(t)
  /\ \A t \in dlq : tarefa[t].evento \in Eventos

LEMMA InitInv == Init => IInv
BY OutboxConstants DEF Init, IInv, TypeOK, ProcessadoEntregue, Progresso,
                       Tarefa, Livre

(* A step that starts a task or moves it on, and forgets nothing.          *)
LEMMA Move ==
  ASSUME IInv, NEW t \in Tarefas, NEW nova \in Tarefa,
         nova.evento \in Eventos,
         tarefa' = [tarefa EXCEPT ![t] = nova],
         dlq' \subseteq dlq \cup {t},
         \A e \in Eventos : enviadas'[e] >= enviadas[e],
         \A e \in Eventos : recusada[e] => recusada'[e],
         enviadas' \in [Eventos -> Nat], recusada' \in [Eventos -> BOOLEAN],
         esgotada' \in [Eventos -> BOOLEAN],
         emissor' \in [Eventos -> {"livre", "enfileirar", "fim"}],
         repetidos' \in SUBSET Eventos,
         UNCHANGED <<evento, broker, degradado>>,
         Progresso(t)'
  PROVE  IInv'
<1>1. TypeOK'
  BY DEF IInv, TypeOK
<1>2. ProcessadoEntregue'
  <2> SUFFICES ASSUME NEW e \in Eventos, evento[e] = "processado"
               PROVE  enviadas'[e] >= Partes \/ recusada'[e]
    BY DEF ProcessadoEntregue
  <2>1. enviadas[e] >= Partes \/ recusada[e]
    BY DEF IInv, ProcessadoEntregue
  <2>2. enviadas[e] \in Nat /\ enviadas'[e] \in Nat /\ enviadas'[e] >= enviadas[e]
    BY DEF IInv, TypeOK
  <2> QED BY <2>1, <2>2, OutboxConstants
<1>3. ASSUME NEW u \in Tarefas PROVE Progresso(u)'
  <2>1. CASE u = t
    BY <2>1
  <2>2. CASE u # t
    <3> DEFINE e == tarefa[u].evento
    <3>1. tarefa'[u] = tarefa[u]
      BY <2>2 DEF IInv, TypeOK
    <3>2. Progresso(u)
      BY DEF IInv
    <3>3. tarefa[u].pc # "livre" =>
            /\ enviadas[e] \in Nat /\ enviadas'[e] \in Nat
            /\ enviadas'[e] >= enviadas[e] /\ (recusada[e] => recusada'[e])
      BY <3>2 DEF IInv, TypeOK, Progresso
    <3>4. tarefa[u].parte \in Nat
      BY OutboxConstants DEF IInv, TypeOK, Tarefa
    <3> HIDE DEF e
    <3>5. /\ tarefa[u].pc # "livre" => e \in Eventos
          /\ tarefa[u].pc = "enviar" => /\ tarefa[u].parte < Partes
                                        /\ tarefa[u].parte <= enviadas'[e]
          /\ tarefa[u].pc \in {"fila", "ler"} => tarefa[u].parte = 0
          /\ tarefa[u].pc = "gravar" => enviadas'[e] >= Partes \/ recusada'[e]
      BY <3>2, <3>3, <3>4, OutboxConstants DEF Progresso, e
    <3> QED BY <3>1, <3>5 DEF Progresso, e
  <2> QED BY <2>1, <2>2
<1>4. ASSUME NEW u \in dlq' PROVE tarefa'[u].evento \in Eventos
  <2>1. CASE u = t
    BY <2>1 DEF IInv, TypeOK, Progresso
  <2>2. CASE u # t
    BY <2>2 DEF IInv, TypeOK
  <2> QED BY <2>1, <2>2
<1> QED BY <1>1, <1>2, <1>3, <1>4 DEF IInv

LEMMA PublishInv ==
  ASSUME IInv, NEW e \in Eventos, Publish(e),
         emissor' \in [Eventos -> {"livre", "enfileirar", "fim"}],
         repetidos' \in SUBSET Eventos,
         UNCHANGED <<evento, dlq, broker, degradado,
                     enviadas, recusada, esgotada>>
  PROVE  IInv'
<1>1. PICK t \in Tarefas : tarefa' = [tarefa EXCEPT ![t] = Nova(e)]
  BY DEF Publish
<1>2. /\ Nova(e).pc = "fila" /\ Nova(e).evento = e /\ Nova(e).parte = 0
  BY DEF Nova
<1>3. Nova(e) \in Tarefa
  <2>1. 0 \in 0..MaxRetries /\ 0 \in 0..Partes
    BY OutboxConstants
  <2> QED BY <2>1 DEF Nova, Tarefa
<1>5. tarefa'[t] = Nova(e)
  BY <1>1 DEF IInv, TypeOK
<1>6. Progresso(t)'
  BY <1>2, <1>5 DEF Progresso
<1>7. \A g \in Eventos : enviadas'[g] >= enviadas[g]
  BY DEF IInv, TypeOK
<1> QED BY <1>1, <1>2, <1>3, <1>6, <1>7, Move DEF IInv, TypeOK

(* What every action of a live task starts from.                           *)
LEMMA TaskFacts ==
  ASSUME IInv, NEW t \in Tarefas, tarefa[t].pc # "livre"
  PROVE  /\ tarefa[t] \in Tarefa /\ tarefa[t].evento \in Eventos
         /\ tarefa[t].parte \in 0..Partes /\ tarefa[t].retries \in 0..MaxRetries
         /\ Progresso(t)
         /\ \A e \in Eventos : enviadas[e] \in Nat /\ recusada[e] \in BOOLEAN
BY DEF IInv, TypeOK, Tarefa, Progresso

(* A task that goes on to `pc' without sending anything.                   *)
LEMMA GoInv ==
  ASSUME IInv, NEW t \in Tarefas, tarefa[t].pc # "livre",
         NEW pc \in {"ler", "enviar", "gravar", "fim"}, Go(t, pc),
         pc = "ler" => tarefa[t].pc = "fila",
         pc = "enviar" => tarefa[t].pc = "ler",
         pc = "gravar" => recusada'[tarefa[t].evento],
         dlq' \subseteq dlq \cup {t},
         recusada' \in [Eventos -> BOOLEAN],
         \A e \in Eventos : recusada[e] => recusada'[e],
         enviadas' \in [Eventos -> Nat],
         \A e \in Eventos : enviadas'[e] >= enviadas[e],
         esgotada' \in [Eventos -> BOOLEAN],
         UNCHANGED <<evento, emissor, broker, degradado, repetidos>>
  PROVE  IInv'
<1> DEFINE nova == [tarefa[t] EXCEPT !.pc = pc]
<1>1. nova \in Tarefa /\ nova.evento = tarefa[t].evento
      /\ nova.pc = pc /\ nova.parte = tarefa[t].parte
  BY TaskFacts DEF Tarefa
<1>2. tarefa' = [tarefa EXCEPT ![t] = nova]
  BY DEF Go
<1> HIDE DEF nova
<1>3. tarefa'[t] = nova
  BY <1>2 DEF IInv, TypeOK
<1>4. Progresso(t)'
  BY <1>1, <1>3, TaskFacts, OutboxConstants DEF Progresso
<1> QED BY <1>1, <1>2, <1>4, TaskFacts, Move DEF IInv, TypeOK

LEMMA DeliverFacts ==
  ASSUME IInv, NEW t \in Tarefas, tarefa[t].pc # "livre", Deliver(t)
  PROVE  /\ enviadas' \in [Eventos -> Nat]
         /\ \A e \in Eventos : enviadas'[e] >= enviadas[e]
         /\ enviadas'[tarefa[t].evento] = enviadas[tarefa[t].evento] + 1
BY TaskFacts DEF Deliver, IInv, TypeOK

LEMMA SendInv ==
  ASSUME IInv, NEW t \in Tarefas, Send(t)
  PROVE  IInv'
<1>1. tarefa[t].pc = "enviar" /\ Deliver(t) /\ tarefa' = [tarefa EXCEPT ![t] = Enviada(t)]
  BY DEF Send
<1>2. tarefa[t].parte < Partes /\ tarefa[t].parte <= enviadas[tarefa[t].evento]
  BY <1>1, TaskFacts DEF Progresso
<1>3. Enviada(t) \in Tarefa /\ Enviada(t).evento = tarefa[t].evento
      /\ Enviada(t).parte = tarefa[t].parte + 1
      /\ Enviada(t).pc = IF Enviada(t).parte = Partes THEN "gravar" ELSE "enviar"
  <2>1. tarefa[t] \in Tarefa
    BY <1>1, TaskFacts
  <2>2. tarefa[t].parte + 1 \in 0..Partes
    BY <1>1, <1>2, TaskFacts, OutboxConstants
  <2> QED BY <1>1, <2>1, <2>2 DEF Enviada, Tarefa
<1>4. tarefa'[t] = Enviada(t)
  BY <1>1 DEF IInv, TypeOK
<1>5. Enviada(t).parte <= enviadas'[Enviada(t).evento] /\ Enviada(t).parte \in 1..Partes
  BY <1>1, <1>2, <1>3, TaskFacts, DeliverFacts, OutboxConstants
<1>6. Progresso(t)'
  BY <1>1, <1>3, <1>4, <1>5, TaskFacts, OutboxConstants DEF Progresso
<1> QED BY <1>1, <1>3, <1>6, TaskFacts, DeliverFacts, Move
       DEF Send, IInv, TypeOK

LEMMA SendTransientInv ==
  ASSUME IInv, NEW t \in Tarefas, SendTransient(t)
  PROVE  IInv'
<1>1. tarefa[t].pc = "enviar"
  BY DEF SendTransient
<1>2. /\ enviadas' \in [Eventos -> Nat]
      /\ \A e \in Eventos : enviadas'[e] >= enviadas[e]
  BY <1>1, DeliverFacts DEF SendTransient, IInv, TypeOK
<1>3. esgotada' \in [Eventos -> BOOLEAN]
  BY <1>1, TaskFacts DEF SendTransient, IInv, TypeOK
<1>4. CASE Go(t, "fim")
  BY <1>1, <1>2, <1>3, <1>4, GoInv DEF SendTransient, IInv, TypeOK
<1>5. CASE PodeTentar(t) /\ tarefa' = [tarefa EXCEPT ![t] = Retry(t)]
  <2>1. Retry(t) \in Tarefa /\ Retry(t).evento = tarefa[t].evento
        /\ Retry(t).pc = "fila" /\ Retry(t).parte = 0
    <3>1. tarefa[t] \in Tarefa
      BY <1>1, TaskFacts
    <3>2. tarefa[t].retries + 1 \in 0..MaxRetries /\ 0 \in 0..Partes
      BY <1>1, <1>5, TaskFacts, OutboxConstants DEF PodeTentar
    <3> QED BY <3>1, <3>2 DEF Retry, Proxima, Tarefa
  <2>2. tarefa'[t] = Retry(t)
    BY <1>5 DEF IInv, TypeOK
  <2>3. Progresso(t)'
    BY <1>1, <2>1, <2>2, TaskFacts DEF Progresso
  <2> QED BY <1>1, <1>2, <1>3, <1>5, <2>1, <2>3, TaskFacts, Move
         DEF SendTransient, IInv, TypeOK
<1> QED BY <1>4, <1>5 DEF SendTransient

LEMMA RecordInv ==
  ASSUME IInv, NEW t \in Tarefas, Record(t)
  PROVE  IInv'
<1> DEFINE e == tarefa[t].evento
<1>1. tarefa[t].pc = "gravar" /\ e \in Eventos
  BY TaskFacts DEF Record
<1>2. enviadas[e] >= Partes \/ recusada[e]
  BY <1>1, TaskFacts DEF Progresso
<1>3. tarefa' = [tarefa EXCEPT ![t].pc = "fim"]
  BY DEF Record, Go
<1>4. \A u \in Tarefas : /\ tarefa'[u].evento = tarefa[u].evento
                         /\ tarefa'[u].parte = tarefa[u].parte
                         /\ tarefa'[u].pc = IF u = t THEN "fim" ELSE tarefa[u].pc
  BY <1>3 DEF IInv, TypeOK, Tarefa
<1>5. TypeOK'
  BY <1>1, <1>3 DEF Record, IInv, TypeOK, Tarefa
<1>6. ProcessadoEntregue'
  BY <1>1, <1>2 DEF Record, IInv, TypeOK, ProcessadoEntregue
<1>7. ASSUME NEW u \in Tarefas PROVE Progresso(u)'
  <2>1. Progresso(u) /\ (u = t => e \in Eventos)
    BY <1>1 DEF IInv
  <2> QED BY <1>4, <2>1 DEF Progresso, Record
<1>8. \A u \in dlq' : tarefa'[u].evento \in Eventos
  BY <1>4 DEF Record, IInv, TypeOK
<1> QED BY <1>5, <1>6, <1>7, <1>8 DEF IInv

LEMMA TaskInv ==
  ASSUME IInv, NEW t \in Tarefas, Task(t)
  PROVE  IInv'
<1> USE DEF IInv, TypeOK
<1>1. CASE Take(t)
  BY <1>1, GoInv DEF Take
<1>2. CASE Load(t)
  <2>1. tarefa[t].evento \in Eventos /\ tarefa[t].pc = "ler"
    BY <1>2, TaskFacts DEF Load
  <2>2. CASE UNCHANGED recusada
    BY <1>2, <2>1, <2>2, GoInv DEF Load
  <2>3. CASE Go(t, "gravar") /\ recusada' = [recusada EXCEPT ![tarefa[t].evento] = TRUE]
    BY <1>2, <2>1, <2>3, GoInv DEF Load
  <2> QED BY <1>2, <2>2, <2>3 DEF Load
<1>3. CASE Send(t)
  BY <1>3, SendInv
<1>4. CASE SendTransient(t)
  BY <1>4, SendTransientInv
<1>5. CASE SendPermanent(t)
  <2>1. tarefa[t].evento \in Eventos /\ tarefa[t].pc = "enviar"
    BY <1>5, TaskFacts DEF SendPermanent
  <2> QED BY <1>5, <2>1, GoInv DEF SendPermanent
<1>6. CASE Record(t)
  BY <1>6, RecordInv
<1>7. CASE TaskDies(t)
  BY <1>7, GoInv DEF TaskDies, Rodando
<1>8. CASE SoftTimeLimit(t)
  BY <1>8, GoInv DEF SoftTimeLimit, Rodando
<1> QED BY <1>1, <1>2, <1>3, <1>4, <1>5, <1>6, <1>7, <1>8 DEF Task

LEMMA NextInv == IInv /\ [Next]_vars => IInv'
<1> SUFFICES ASSUME IInv, [Next]_vars PROVE IInv'
  OBVIOUS
<1>1. ASSUME NEW e \in Eventos, Emit(e) PROVE IInv'
  BY <1>1 DEF Emit, IInv, TypeOK, ProcessadoEntregue, Progresso
<1>2. ASSUME NEW e \in Eventos, Enqueue(e) PROVE IInv'
  <2>1. emissor' \in [Eventos -> {"livre", "enfileirar", "fim"}]
    BY <1>2 DEF Enqueue, Feito, IInv, TypeOK
  <2>2. CASE UNCHANGED tarefa
    BY <1>2, <2>1, <2>2
       DEF Enqueue, IInv, TypeOK, ProcessadoEntregue, Progresso
  <2>3. CASE Publish(e)
    BY <1>2, <2>1, <2>3, PublishInv DEF Enqueue, IInv, TypeOK
  <2> QED BY <1>2, <2>2, <2>3 DEF Enqueue
<1>3. ASSUME NEW e \in Eventos, EmitterDies(e) PROVE IInv'
  BY <1>3 DEF EmitterDies, IInv, TypeOK, ProcessadoEntregue, Progresso
<1>4. ASSUME NEW t \in Tarefas, Task(t) PROVE IInv'
  BY <1>4, TaskInv
<1>5. CASE Broker \/ Provision
  BY <1>5 DEF Broker, Provision, IInv, TypeOK, ProcessadoEntregue, Progresso
<1>6. ASSUME NEW t \in Tarefas, DlqRetry(t) PROVE IInv'
  <2>1. tarefa[t].evento \in Eventos /\ Publish(tarefa[t].evento)
    BY <1>6 DEF DlqRetry, IInv
  <2> QED BY <1>6, <2>1, PublishInv DEF DlqRetry, IInv, TypeOK
<1>7. ASSUME NEW t \in Tarefas, DlqDiscard(t) PROVE IInv'
  BY <1>7 DEF DlqDiscard, IInv, TypeOK, ProcessadoEntregue, Progresso
<1>8. CASE UNCHANGED vars
  BY <1>8 DEF vars, IInv, TypeOK, ProcessadoEntregue, Progresso
<1> QED BY <1>1, <1>2, <1>3, <1>4, <1>5, <1>6, <1>7, <1>8
       DEF Next

LEMMA Inductive == Spec => []IInv
BY InitInv, NextInv, PTL DEF Spec

(* Every reachable state is well typed: no task is retried more often than *)
(* max_retries, whatever fails.                                            *)
THEOREM OutboxTypeCorrect == Spec => []TypeOK
<1>1. IInv => TypeOK
  BY DEF IInv
<1> QED BY <1>1, Inductive, PTL

(* No retry, crash, dead letter or operator marks an event processed whose *)
(* messages were not all received, unless there was nobody to receive them. *)
THEOREM ProcessedIsDelivered == Spec => []ProcessadoEntregue
<1>1. IInv => ProcessadoEntregue
  BY DEF IInv
<1> QED BY <1>1, Inductive, PTL

-----------------------------------------------------------------------------
(* The right to work on an event no operator put back is in one place:     *)
(* with the request that has still to enqueue it, or with one task.        *)
Unica(e) ==
  e \in repetidos \/
  /\ \A t, u \in Tarefas :
       Viva(t) /\ tarefa[t].evento = e /\ Viva(u) /\ tarefa[u].evento = e
         => t = u
  /\ \A t \in Tarefas :
       Viva(t) /\ tarefa[t].evento = e => evento[e] = "pendente"

Direito ==
  /\ \A e \in Eventos : Unica(e)
  /\ \A t \in Tarefas :
       tarefa[t].pc # "livre" => emissor[tarefa[t].evento] = "fim"
  /\ \A t \in dlq : tarefa[t].pc # "livre"
  /\ \A e \in Eventos : /\ emissor[e] = "livre" <=> evento[e] = "nenhum"
                        /\ emissor[e] = "enfileirar" => evento[e] = "pendente"

LEMMA InitDireito == Init => Direito
<1> SUFFICES ASSUME Init PROVE Direito
  OBVIOUS
<1>1. \A t \in Tarefas : tarefa[t].pc = "livre"
  BY DEF Init, Livre
<1>2. \A e \in Eventos : Unica(e)
  BY <1>1 DEF Unica, Viva
<1> QED BY <1>1, <1>2 DEF Init, Direito

(* A live task keeps its event while it moves on, and only writing the row *)
(* that says processed touches the event.                                  *)
LEMMA TaskKeeps ==
  ASSUME IInv, NEW t \in Tarefas, Task(t)
  PROVE  /\ Viva(t) /\ UNCHANGED emissor /\ tarefa'[t].pc # "livre"
         /\ \A u \in Tarefas : tarefa'[u].evento = tarefa[u].evento
         /\ \A u \in Tarefas \ {t} : tarefa'[u] = tarefa[u]
         /\ \/ UNCHANGED evento
            \/ /\ evento' = [evento EXCEPT ![tarefa[t].evento] = "processado"]
               /\ tarefa'[t].pc = "fim"
<1> USE DEF IInv, TypeOK, Viva
<1>1. ASSUME NEW pc, Go(t, pc)
      PROVE  /\ \A u \in Tarefas : tarefa'[u].evento = tarefa[u].evento
             /\ \A u \in Tarefas \ {t} : tarefa'[u] = tarefa[u]
             /\ tarefa'[t].pc = pc
  BY <1>1 DEF Go, Tarefa
<1>2. CASE Take(t)
  BY <1>1, <1>2 DEF Take
<1>3. CASE Load(t)
  BY <1>1, <1>3 DEF Load
<1>4. CASE Send(t)
  BY <1>4 DEF Send, Enviada, Tarefa
<1>5. CASE SendTransient(t)
  <2>1. CASE tarefa' = [tarefa EXCEPT ![t] = Retry(t)]
    <3>1. tarefa[t] \in Tarefa
      BY <1>5, TaskFacts DEF SendTransient
    <3>2. Retry(t).evento = tarefa[t].evento /\ Retry(t).pc = "fila"
      BY <3>1 DEF Retry, Tarefa
    <3> QED BY <1>5, <2>1, <3>2 DEF SendTransient
  <2>2. CASE Go(t, "fim")
    BY <1>1, <1>5, <2>2 DEF SendTransient
  <2> QED BY <1>5, <2>1, <2>2 DEF SendTransient
<1>6. CASE SendPermanent(t)
  BY <1>1, <1>6 DEF SendPermanent
<1>7. CASE Record(t)
  BY <1>1, <1>7 DEF Record
<1>8. CASE TaskDies(t)
  BY <1>1, <1>8 DEF TaskDies, Rodando
<1>9. CASE SoftTimeLimit(t)
  BY <1>1, <1>9 DEF SoftTimeLimit, Rodando
<1> QED BY <1>2, <1>3, <1>4, <1>5, <1>6, <1>7, <1>8, <1>9 DEF Task

LEMMA TaskDireito ==
  ASSUME IInv, Direito, NEW t \in Tarefas, Task(t)
  PROVE  Direito'
<1> DEFINE e == tarefa[t].evento
<1>1. e \in Eventos /\ Viva(t)
  BY TaskKeeps DEF IInv, Progresso, Viva
<1>2. \A u \in Tarefas : Viva(u)' => Viva(u)
  BY TaskKeeps DEF Viva
<1>3. \A u \in Tarefas : tarefa'[u].pc # "livre" => tarefa[u].pc # "livre"
  BY <1>1, TaskKeeps DEF Viva
<1>4. UNCHANGED repetidos /\ dlq' \subseteq dlq \cup {t}
  BY DEF Task, Take, Load, Send, SendTransient, SendPermanent, Record,
         TaskDies, SoftTimeLimit
<1>5. dlq' # dlq => tarefa'[t].pc = "fim"
  BY <1>1 DEF Task, Take, Load, Send, SendTransient, SendPermanent, Record,
              TaskDies, SoftTimeLimit, Go, IInv, TypeOK, Tarefa
<1>6. emissor[e] = "fim"
  BY <1>1 DEF Direito, Viva
<1>7. ASSUME NEW g \in Eventos PROVE Unica(g)'
  <2>1. SUFFICES ASSUME g \notin repetidos PROVE Unica(g)'
    BY <1>4 DEF Unica
  <2>2. Unica(g)
    BY DEF Direito
  <2>3. \A u, v \in Tarefas :
          Viva(u)' /\ tarefa'[u].evento = g /\ Viva(v)' /\ tarefa'[v].evento = g
            => u = v
    BY <1>2, <2>1, <2>2, TaskKeeps DEF Unica
  <2>4. ASSUME NEW u \in Tarefas, Viva(u)', tarefa'[u].evento = g
        PROVE  evento'[g] = "pendente"
    <3>1. Viva(u) /\ tarefa[u].evento = g /\ evento[g] = "pendente"
      BY <1>2, <2>1, <2>2, <2>4, TaskKeeps DEF Unica
    <3>2. CASE UNCHANGED evento
      BY <3>1, <3>2
    <3>3. CASE /\ evento' = [evento EXCEPT ![e] = "processado"]
               /\ tarefa'[t].pc = "fim"
      <4>1. u # t
        BY <2>4, <3>3 DEF Viva
      <4>2. e # g
        BY <1>1, <2>1, <2>2, <3>1, <4>1 DEF Unica
      <4> QED BY <3>1, <3>3, <4>2 DEF IInv, TypeOK
    <3> QED BY <3>2, <3>3, TaskKeeps
  <2> QED BY <2>3, <2>4 DEF Unica, Viva
<1>8. \A u \in Tarefas :
        tarefa'[u].pc # "livre" => emissor'[tarefa'[u].evento] = "fim"
  BY <1>3, TaskKeeps DEF Direito
<1>9. \A u \in dlq' : tarefa'[u].pc # "livre"
  <2>1. \A u \in dlq : u \in Tarefas
    BY DEF IInv, TypeOK
  <2>2. CASE dlq' = dlq
    BY <2>1, <2>2, TaskKeeps DEF Direito
  <2>3. CASE tarefa'[t].pc = "fim"
    BY <1>4, <2>1, <2>3, TaskKeeps DEF Direito
  <2> QED BY <1>5, <2>2, <2>3
<1>10. \A g \in Eventos : /\ emissor'[g] = "livre" <=> evento'[g] = "nenhum"
                          /\ emissor'[g] = "enfileirar" =>
                               evento'[g] = "pendente"
  <2> HIDE DEF e
  <2> QED BY <1>1, <1>6, TaskKeeps DEF Direito, IInv, TypeOK, e
<1> QED BY <1>7, <1>8, <1>9, <1>10 DEF Direito

(* A fresh task of an event its emitter, or an operator, publishes.        *)
LEMMA PublishDireito ==
  ASSUME IInv, Direito, NEW e \in Eventos, Publish(e), UNCHANGED <<evento, dlq>>,
         \/ emissor[e] = "enfileirar" /\ emissor' = Feito(e)
                                      /\ UNCHANGED repetidos
         \/ emissor[e] = "fim" /\ UNCHANGED emissor
                               /\ repetidos' = repetidos \cup {e}
  PROVE  Direito'
<1>1. PICK t \in Tarefas : /\ tarefa[t].pc = "livre"
                           /\ tarefa' = [tarefa EXCEPT ![t] = Nova(e)]
  BY DEF Publish
<1>2. /\ tarefa'[t] = Nova(e) /\ Nova(e).pc = "fila" /\ Nova(e).evento = e
      /\ \A u \in Tarefas \ {t} : tarefa'[u] = tarefa[u]
  BY <1>1 DEF IInv, TypeOK, Nova
<1>3. /\ emissor'[e] = "fim"
      /\ \A g \in Eventos \ {e} : emissor'[g] = emissor[g]
      /\ evento[e] # "nenhum"
  BY DEF Feito, Direito, IInv, TypeOK
<1>4. \A u \in Tarefas \ {t} : Viva(u)' <=> Viva(u)
  BY <1>2 DEF Viva
<1>5. ASSUME NEW g \in Eventos PROVE Unica(g)'
  <2>1. CASE g # e
    BY <1>2, <1>4, <2>1 DEF Direito, Unica, Viva
  <2>2. CASE g = e /\ emissor[e] = "enfileirar"
    <3>1. \A u \in Tarefas \ {t} : ~(Viva(u)' /\ tarefa'[u].evento = e)
      BY <1>2, <1>4, <2>2 DEF Direito, Viva
    <3>2. evento'[e] = "pendente"
      BY <2>2 DEF Direito
    <3> QED BY <2>2, <3>1, <3>2 DEF Unica, Viva
  <2>3. CASE g = e /\ emissor[e] = "fim"
    BY <2>3 DEF Unica
  <2> QED BY <2>1, <2>2, <2>3
<1>6. ASSUME NEW u \in Tarefas, tarefa'[u].pc # "livre"
      PROVE  emissor'[tarefa'[u].evento] = "fim"
  <2>1. CASE u = t
    BY <1>2, <1>3, <2>1
  <2>2. CASE u # t
    <3>1. emissor[tarefa[u].evento] = "fim" /\ tarefa[u].evento \in Eventos
      BY <1>2, <1>6, <2>2 DEF Direito, IInv, Progresso
    <3> QED BY <1>2, <1>3, <2>2, <3>1
  <2> QED BY <2>1, <2>2
<1>7. \A u \in dlq' : tarefa'[u].pc # "livre"
  BY <1>2 DEF Direito, IInv, TypeOK
<1>8. \A g \in Eventos : /\ emissor'[g] = "livre" <=> evento'[g] = "nenhum"
                         /\ emissor'[g] = "enfileirar" => evento'[g] = "pendente"
  BY <1>3 DEF Direito
<1> QED BY <1>5, <1>6, <1>7, <1>8 DEF Direito

LEMMA NextDireito == IInv /\ Direito /\ [Next]_vars => Direito'
<1> SUFFICES ASSUME IInv, Direito, [Next]_vars PROVE Direito'
  OBVIOUS
<1>1. ASSUME NEW e \in Eventos, Emit(e) PROVE Direito'
  <2>1. \A t \in Tarefas : tarefa[t].pc # "livre" => tarefa[t].evento # e
    BY <1>1 DEF Emit, Direito
  <2> QED BY <1>1, <2>1
          DEF Emit, Direito, Unica, Viva, IInv, TypeOK, Progresso
<1>2. ASSUME NEW e \in Eventos, Enqueue(e) PROVE Direito'
  <2>1. CASE UNCHANGED tarefa
    BY <1>2, <2>1
       DEF Enqueue, Feito, Direito, Unica, Viva, IInv, TypeOK, Progresso
  <2>2. CASE Publish(e)
    BY <1>2, <2>2, PublishDireito DEF Enqueue
  <2> QED BY <1>2, <2>1, <2>2 DEF Enqueue
<1>3. ASSUME NEW e \in Eventos, EmitterDies(e) PROVE Direito'
  BY <1>3 DEF EmitterDies, Direito, Unica, Viva, IInv, TypeOK
<1>4. ASSUME NEW t \in Tarefas, Task(t) PROVE Direito'
  BY <1>4, TaskDireito
<1>5. ASSUME NEW t \in Tarefas, DlqRetry(t) PROVE Direito'
  <2>1. tarefa[t].evento \in Eventos /\ emissor[tarefa[t].evento] = "fim"
    BY <1>5 DEF DlqRetry, IInv, Direito
  <2> QED BY <1>5, <2>1, PublishDireito DEF DlqRetry
<1>6. ASSUME NEW t \in Tarefas, DlqDiscard(t) PROVE Direito'
  BY <1>6 DEF DlqDiscard, Direito, Unica, Viva
<1>7. CASE Broker \/ Provision
  BY <1>7 DEF Broker, Provision, Direito, Unica, Viva
<1>8. CASE UNCHANGED vars
  BY <1>8 DEF vars, Direito, Unica, Viva
<1> QED BY <1>1, <1>2, <1>3, <1>4, <1>5, <1>6, <1>7, <1>8 DEF Next

(* Once an event is marked processed the customer is told no more of it,   *)
(* unless an operator put it back: the check of processado_em without a     *)
(* lock is enough.                                                         *)
THEOREM NothingAfterProcessed == Spec => NadaAposProcessado
<1>1. ASSUME IInv, Direito, [Next]_vars,
             NEW e \in Eventos \ repetidos, evento[e] = "processado"
      PROVE  enviadas'[e] = enviadas[e]
  <2>1. ASSUME NEW t \in Tarefas, Task(t) PROVE enviadas'[e] = enviadas[e]
    <3>1. Viva(t) /\ tarefa[t].evento # e
      BY <1>1, <2>1, TaskKeeps DEF Direito, Unica
    <3>2. ASSUME Deliver(t) PROVE enviadas'[e] = enviadas[e]
      BY <1>1, <3>1, <3>2 DEF Deliver, IInv, TypeOK
    <3>3. Deliver(t) \/ UNCHANGED enviadas
      BY <2>1 DEF Task, Take, Load, Send, SendTransient,
                  SendPermanent, Record, TaskDies, SoftTimeLimit
    <3> QED BY <3>2, <3>3
  <2> QED BY <1>1, <2>1 DEF Next, vars, Emit, Enqueue, EmitterDies,
                            DlqRetry, DlqDiscard, Broker, Provision
<1>2. IInv /\ Direito /\ [Next]_vars =>
        [\A e \in Eventos \ repetidos :
           evento[e] = "processado" => enviadas'[e] = enviadas[e]]_vars
  BY <1>1
<1>3. Init => IInv /\ Direito
  BY InitInv, InitDireito
<1>4. IInv /\ Direito /\ [Next]_vars => (IInv /\ Direito)'
  BY NextInv, NextDireito
<1> QED BY <1>2, <1>3, <1>4, PTL DEF Spec, NadaAposProcessado
-----------------------------------------------------------------------------
(* The circuit breaker.                                                    *)
DisjuntorInv == DisjuntorTypeOK /\ AbertoTemHora

LEMMA WorkerMuda ==
  ASSUME DisjuntorTypeOK, NEW w \in Workers, NEW r \in Worker,
         worker' = [worker EXCEPT ![w] = r]
  PROVE  /\ worker' \in [Workers -> Worker] /\ worker'[w] = r
         /\ \A u \in Workers \ {w} : worker'[u] = worker[u]
BY DEF DisjuntorTypeOK

LEMMA OciosoWorker == Ocioso \in Worker /\ Ocioso.pc = "livre"
BY DEF Ocioso, Worker

LEMMA ParaMuda ==
  ASSUME DisjuntorTypeOK, NEW w \in Workers,
         NEW pc \in {"livre", "ver", "meia", "chama", "apagar", "fechar", "abrir", "datar"},
         Para(w, pc)
  PROVE  /\ worker' \in [Workers -> Worker] /\ worker'[w].pc = pc
         /\ \A u \in Workers \ {w} : worker'[u] = worker[u]
BY DEF DisjuntorTypeOK, Para, Worker

LEMMA FimMuda ==
  ASSUME DisjuntorTypeOK, NEW w \in Workers, Fim(w)
  PROVE  /\ worker' \in [Workers -> Worker] /\ worker'[w].pc = "livre"
         /\ \A u \in Workers \ {w} : worker'[u] = worker[u]
BY OciosoWorker, WorkerMuda DEF Fim

LEMMA ChamarMuda ==
  ASSUME DisjuntorTypeOK, NEW w \in Workers, NEW st \in {"closed", "open", "half-open"},
         Chamar(w, st)
  PROVE  /\ worker' \in [Workers -> Worker] /\ worker'[w].pc = "chama"
         /\ \A u \in Workers \ {w} : worker'[u] = worker[u]
BY DEF DisjuntorTypeOK, Chamar, Worker

(* Whoever is between two writes: it opens or closes the breaker.          *)
Entre(x) == x.pc \in {"datar", "fechar"}

LEMMA AbertoEntre ==
  AbertoTemHora <=>
    (estado = "open" /\ aberto = SemHora => partida \/ \E w \in Workers : Entre(worker[w]))
BY DEF AbertoTemHora, De, Entre

LEMMA AbertoEntreLinha ==
  AbertoTemHora' <=>
    (estado' = "open" /\ aberto' = SemHora =>
       partida' \/ \E w \in Workers : Entre(worker'[w]))
BY DEF AbertoTemHora, De, Entre

(* A worker that was not between two writes goes on, and neither the state *)
(* nor the hour changes.                                                   *)
LEMMA ForaDoMeio ==
  ASSUME DisjuntorInv, NEW w \in Workers, ~Entre(worker[w]),
         estado' = estado, aberto' = aberto, partida' = partida,
         \A u \in Workers \ {w} : worker'[u] = worker[u]
  PROVE  AbertoTemHora'
BY AbertoEntre, AbertoEntreLinha DEF DisjuntorInv

LEMMA PassoSeguro == ASSUME DisjuntorInv, NEW w \in Workers, Passo(w) PROVE DisjuntorInv'
<1>0. /\ DisjuntorTypeOK /\ AbertoTemHora
      /\ estado \in {"closed", "open", "half-open"}
      /\ aberto \in 0..(Recuperacao + 1) \cup {SemHora}
      /\ falhasCb \in [n: 0..Limite, resta: 0..(2 * Recuperacao)]
      /\ Limite \in Nat \ {0} /\ Recuperacao \in Nat \ {0} /\ SemHora \notin Nat
  BY DisjuntorConstants DEF DisjuntorInv, DisjuntorTypeOK
<1> DEFINE Pronto == worker' \in [Workers -> Worker]
<1>1. CASE GetState(w)
  <2>1. /\ Pronto /\ \A u \in Workers \ {w} : worker'[u] = worker[u]
    BY <1>0, <1>1, ParaMuda, ChamarMuda DEF GetState
  <2>2. /\ UNCHANGED <<estado, aberto, falhasCb, mortes, partida>> /\ ~Entre(worker[w])
    BY <1>1 DEF GetState, De, Entre
  <2> QED BY <1>0, <2>1, <2>2, ForaDoMeio DEF DisjuntorInv, DisjuntorTypeOK
<1>2. CASE RejectCall(w) \/ RecoveryOver(w)
  <2>1. /\ Pronto /\ \A u \in Workers \ {w} : worker'[u] = worker[u]
    BY <1>0, <1>2, ParaMuda, FimMuda DEF RejectCall, RecoveryOver
  <2>2. /\ UNCHANGED <<estado, aberto, falhasCb, mortes, partida>> /\ ~Entre(worker[w])
    BY <1>2 DEF RejectCall, RecoveryOver, De, Entre
  <2> QED BY <1>0, <2>1, <2>2, ForaDoMeio DEF DisjuntorInv, DisjuntorTypeOK
<1>3. CASE SetHalfOpen(w)
  <2>1. Pronto
    BY <1>0, <1>3, ChamarMuda DEF SetHalfOpen
  <2>2. estado' = "half-open" /\ UNCHANGED <<aberto, falhasCb, mortes, partida>>
    BY <1>3 DEF SetHalfOpen
  <2> QED BY <1>0, <2>1, <2>2 DEF DisjuntorInv, DisjuntorTypeOK, AbertoTemHora
<1>4. CASE CallSucceeds(w)
  <2>1. /\ Pronto /\ \A u \in Workers \ {w} : worker'[u] = worker[u]
    BY <1>0, <1>4, ParaMuda, FimMuda DEF CallSucceeds
  <2>2. /\ UNCHANGED <<estado, aberto, falhasCb, mortes, partida>> /\ ~Entre(worker[w])
    BY <1>4 DEF CallSucceeds, De, Entre
  <2> QED BY <1>0, <2>1, <2>2, ForaDoMeio DEF DisjuntorInv, DisjuntorTypeOK
<1>5. CASE DeleteKeys(w)
  <2>1. Pronto /\ worker'[w].pc = "fechar"
    BY <1>0, <1>5, ParaMuda DEF DeleteKeys
  <2>2. /\ UNCHANGED <<estado, mortes, partida>> /\ aberto' = SemHora
        /\ falhasCb' = [n |-> 0, resta |-> 0]
    BY <1>5 DEF DeleteKeys
  <2>3. falhasCb' \in [n: 0..Limite, resta: 0..(2 * Recuperacao)]
    BY <1>0, <2>2
  <2>4. AbertoTemHora'
    BY <2>1, AbertoEntreLinha DEF Entre
  <2> QED BY <1>0, <2>1, <2>2, <2>3, <2>4 DEF DisjuntorInv, DisjuntorTypeOK
<1>6. CASE SetClosed(w)
  <2>1. Pronto
    BY <1>0, <1>6, FimMuda DEF SetClosed
  <2>2. estado' = "closed" /\ UNCHANGED <<aberto, falhasCb, mortes, partida>>
    BY <1>6 DEF SetClosed
  <2> QED BY <1>0, <2>1, <2>2 DEF DisjuntorInv, DisjuntorTypeOK, AbertoTemHora
<1>7. CASE CallFails(w)
  <2>1. /\ Pronto /\ \A u \in Workers \ {w} : worker'[u] = worker[u]
    BY <1>0, <1>7, ParaMuda, FimMuda DEF CallFails
  <2>2. /\ UNCHANGED <<estado, aberto, mortes, partida>> /\ ~Entre(worker[w])
        /\ falhasCb' = [n |-> IF falhasCb.n < Limite THEN falhasCb.n + 1 ELSE Limite,
                        resta |-> 2 * Recuperacao]
    BY <1>7 DEF CallFails, De, Entre
  <2>3. /\ (IF falhasCb.n < Limite THEN falhasCb.n + 1 ELSE Limite) \in 0..Limite
        /\ 2 * Recuperacao \in 0..(2 * Recuperacao)
    BY <1>0
  <2>4. falhasCb' \in [n: 0..Limite, resta: 0..(2 * Recuperacao)]
    BY <2>2, <2>3
  <2> QED BY <1>0, <2>1, <2>2, <2>4, ForaDoMeio DEF DisjuntorInv, DisjuntorTypeOK
<1>8. CASE SetOpen(w)
  <2>1. Pronto /\ worker'[w].pc = "datar"
    BY <1>0, <1>8, ParaMuda DEF SetOpen
  <2>2. estado' = "open" /\ UNCHANGED <<aberto, falhasCb, mortes, partida>>
    BY <1>8 DEF SetOpen
  <2>3. AbertoTemHora'
    BY <2>1, AbertoEntreLinha DEF Entre
  <2> QED BY <1>0, <2>1, <2>2, <2>3 DEF DisjuntorInv, DisjuntorTypeOK
<1>9. CASE SetOpenedAt(w)
  <2>1. Pronto
    BY <1>0, <1>9, FimMuda DEF SetOpenedAt
  <2>2. aberto' = 0 /\ UNCHANGED <<estado, falhasCb, mortes, partida>>
    BY <1>9 DEF SetOpenedAt
  <2>3. aberto' # SemHora /\ aberto' \in 0..(Recuperacao + 1)
    BY <1>0, <2>2
  <2> QED BY <1>0, <2>1, <2>2, <2>3 DEF DisjuntorInv, DisjuntorTypeOK, AbertoTemHora
<1> QED BY <1>1, <1>2, <1>3, <1>4, <1>5, <1>6, <1>7, <1>8, <1>9 DEF Passo

LEMMA MorreSeguro == ASSUME DisjuntorInv, NEW w \in Workers, Morre(w) PROVE DisjuntorInv'
<1>1. DisjuntorTypeOK /\ AbertoTemHora /\ partida \in BOOLEAN /\ mortes \in Nat
  BY DEF DisjuntorInv, DisjuntorTypeOK
<1>2. /\ UNCHANGED <<estado, aberto, falhasCb>> /\ mortes' = mortes + 1
      /\ partida' = (partida \/ De(w, "datar") \/ De(w, "fechar")) /\ Fim(w)
  BY DEF Morre
<1>3. worker' \in [Workers -> Worker] /\ \A u \in Workers \ {w} : worker'[u] = worker[u]
  BY <1>1, <1>2, FimMuda
<1>4. partida' \in BOOLEAN
  BY <1>1, <1>2, Zenon
<1>5. (partida \/ Entre(worker[w])) => partida'
  BY <1>2, Zenon DEF De, Entre
<1>6. AbertoTemHora'
  BY <1>1, <1>2, <1>3, <1>5, AbertoEntre, AbertoEntreLinha
<1> QED BY <1>1, <1>2, <1>3, <1>4, <1>6 DEF DisjuntorInv, DisjuntorTypeOK

LEMMA RelogioSeguro == ASSUME DisjuntorInv, Relogio PROVE DisjuntorInv'
<1>0. /\ aberto \in 0..(Recuperacao + 1) \cup {SemHora}
      /\ falhasCb \in [n: 0..Limite, resta: 0..(2 * Recuperacao)]
      /\ Limite \in Nat \ {0} /\ Recuperacao \in Nat \ {0} /\ SemHora \notin Nat
  BY DisjuntorConstants DEF DisjuntorInv, DisjuntorTypeOK
<1>1. /\ UNCHANGED <<estado, worker, mortes, partida>>
      /\ aberto' = IF aberto = SemHora \/ aberto > Recuperacao THEN aberto ELSE aberto + 1
      /\ falhasCb' = IF falhasCb.resta <= 1 THEN [n |-> 0, resta |-> 0]
                     ELSE [falhasCb EXCEPT !.resta = @ - 1]
  BY DEF Relogio
<1>2. /\ aberto' \in 0..(Recuperacao + 1) \cup {SemHora}
      /\ aberto' = SemHora <=> aberto = SemHora
  BY <1>0, <1>1
<1>3. falhasCb' \in [n: 0..Limite, resta: 0..(2 * Recuperacao)]
  BY <1>0, <1>1
<1>4. AbertoTemHora'
  BY <1>1, <1>2, AbertoEntre, AbertoEntreLinha DEF DisjuntorInv
<1> QED BY <1>1, <1>2, <1>3, <1>4 DEF DisjuntorInv, DisjuntorTypeOK

(* An open breaker knows since when it is open, or the worker that opens   *)
(* or closes it is about to write the rest: only a death between the two   *)
(* writes takes the hour away for good (redis_circuit_breaker.py:60, :70). *)
THEOREM OpenKnowsSince == DisjuntorSpec => []AbertoTemHora
<1>1. DisjuntorInit => DisjuntorInv
  <2> SUFFICES ASSUME DisjuntorInit PROVE DisjuntorInv
    OBVIOUS
  <2>1. /\ estado = "closed" /\ aberto = SemHora /\ mortes = 0 /\ partida = FALSE
        /\ falhasCb = [n |-> 0, resta |-> 0] /\ worker = [w \in Workers |-> Ocioso]
    BY DEF DisjuntorInit
  <2>2. falhasCb \in [n: 0..Limite, resta: 0..(2 * Recuperacao)]
    BY <2>1, DisjuntorConstants
  <2>3. worker \in [Workers -> Worker]
    BY <2>1, OciosoWorker
  <2> QED BY <2>1, <2>2, <2>3 DEF DisjuntorInv, DisjuntorTypeOK, AbertoTemHora
<1>2. DisjuntorInv /\ [DisjuntorNext]_disjuntorVars => DisjuntorInv'
  <2>1. ASSUME DisjuntorInv, UNCHANGED disjuntorVars PROVE DisjuntorInv'
    BY <2>1 DEF disjuntorVars, DisjuntorInv, DisjuntorTypeOK, AbertoTemHora, De
  <2> QED BY <2>1, PassoSeguro, MorreSeguro, RelogioSeguro DEF DisjuntorNext
<1>3. DisjuntorInv => AbertoTemHora
  BY DEF DisjuntorInv
<1> QED BY <1>1, <1>2, <1>3, PTL DEF DisjuntorSpec
-----------------------------------------------------------------------------
(* The dict that stands in for Redis.                                      *)
MemoriaTypeOK == dados \in [Chaves -> Item \cup {Nil}]

LEMMA NilNaoItem == \A x \in Item : x # Nil
BY RedisConstants

(* Redis keeps what is alive in the dict.                                  *)
Vista(x) == IF x # Nil /\ x.resta # 0 THEN x ELSE Nil

LEMMA VistaLimpo == \A k \in Chaves : Limpo(k) = Vista(dados[k])
BY DEF Limpo, Alive, Vista

LEMMA VistaLimpoLinha == \A k \in Chaves : Limpo(k)' = Vista(dados'[k])
BY DEF Limpo, Alive, Vista

mapaVisto == [k \in Chaves |-> Limpo(k)]

LEMMA MapaVisto ==
  /\ mapaVisto = [k \in Chaves |-> Vista(dados[k])]
  /\ mapaVisto' = [k \in Chaves |-> Vista(dados'[k])]
BY VistaLimpo, VistaLimpoLinha DEF mapaVisto

LEMMA ItemNovo ==
  ASSUME NEW v \in 0..MaxValor, NEW resta \in 0..MaxTtl \cup {Sempre}
  PROVE  [v |-> v, resta |-> resta] \in Item
BY DEF Item

(* What Guarda writes is seen, unless it has run out already.              *)
LEMMA GuardaVista ==
  ASSUME MemoriaTypeOK, NEW k \in Chaves, NEW v \in 0..MaxValor,
         NEW resta \in 1..MaxTtl \cup {Sempre}, Guarda(k, v, resta)
  PROVE  /\ MemoriaTypeOK'
         /\ mapaVisto' = [mapaVisto EXCEPT ![k] = [v |-> v, resta |-> resta]]
<1> DEFINE x == [v |-> v, resta |-> resta]
<1>1. x \in Item /\ x.resta = resta
  <2>1. resta \in 0..MaxTtl \cup {Sempre}
    OBVIOUS
  <2> QED BY <2>1, ItemNovo
<1>2. resta # 0
  BY RedisConstants
<1>3. Vista(x) = x
  BY <1>1, <1>2, NilNaoItem DEF Vista
<1>4. dados' = [dados EXCEPT ![k] = x]
  BY DEF Guarda
<1> HIDE DEF x
<1>5. MemoriaTypeOK'
  BY <1>1, <1>4 DEF MemoriaTypeOK
<1>6. mapaVisto' = [mapaVisto EXCEPT ![k] = x]
  BY <1>3, <1>4, MapaVisto DEF MemoriaTypeOK
<1> QED BY <1>5, <1>6 DEF x

(* A key that is dropped because it has expired was not seen.              *)
LEMMA LargaVista ==
  ASSUME MemoriaTypeOK, NEW k \in Chaves, dados' = [dados EXCEPT ![k] = Limpo(k)]
  PROVE  MemoriaTypeOK' /\ mapaVisto' = mapaVisto
<1>1. Limpo(k) \in Item \cup {Nil} /\ Vista(Limpo(k)) = Vista(dados[k])
  BY DEF Limpo, Alive, Vista, MemoriaTypeOK
<1>2. MemoriaTypeOK'
  BY <1>1 DEF MemoriaTypeOK
<1>3. \A j \in Chaves : Vista(dados'[j]) = Vista(dados[j])
  BY <1>1 DEF MemoriaTypeOK
<1> QED BY <1>2, <1>3, MapaVisto

LEMMA VivoVista ==
  ASSUME MemoriaTypeOK, NEW k \in Chaves
  PROVE  /\ Alive(k) => /\ mapaVisto[k] = dados[k] /\ mapaVisto[k] # Nil
                        /\ dados[k] \in Item
                        /\ dados[k].v \in 0..MaxValor
                        /\ dados[k].resta \in 1..MaxTtl \cup {Sempre}
         /\ ~Alive(k) => mapaVisto[k] = Nil
<1>1. Alive(k) => dados[k] \in Item
  BY DEF Alive, MemoriaTypeOK
<1>2. \A x \in Item : x.v \in 0..MaxValor /\ x.resta \in 0..MaxTtl \cup {Sempre}
  BY DEF Item
<1>3. Alive(k) => dados[k].resta \in 1..MaxTtl \cup {Sempre}
  BY <1>1, <1>2, RedisConstants DEF Alive
<1> QED BY <1>1, <1>2, <1>3 DEF mapaVisto, Limpo, Alive

LEMMA MGetPasso ==
  ASSUME MemoriaTypeOK, NEW k \in Chaves, MGet(k)
  PROVE  MemoriaTypeOK' /\ Redis!Get(k)
<1>1. mapaVisto' = mapaVisto /\ MemoriaTypeOK'
  BY LargaVista DEF MGet
<1>2. saida' = <<"valor", IF mapaVisto[k] = Nil THEN Nil ELSE mapaVisto[k].v>>
  BY VivoVista DEF MGet
<1> QED BY <1>1, <1>2 DEF Redis!Get, Redis!Valor, mapaVisto

LEMMA MIncrPasso ==
  ASSUME MemoriaTypeOK, NEW k \in Chaves, MIncr(k)
  PROVE  MemoriaTypeOK' /\ Redis!Incr(k)
<1> DEFINE n == (IF Alive(k) THEN dados[k].v ELSE 0) + 1
           resta == IF Alive(k) THEN dados[k].resta ELSE Sempre
<1>1. n <= MaxValor /\ saida' = <<"valor", n>> /\ Guarda(k, n, resta)
  BY DEF MIncr
<1>2. n \in 0..MaxValor /\ resta \in 1..MaxTtl \cup {Sempre}
  BY <1>1, VivoVista, RedisConstants
<1>3. /\ n = IF mapaVisto[k] = Nil THEN 1 ELSE mapaVisto[k].v + 1
      /\ resta = IF mapaVisto[k] = Nil THEN Sempre ELSE mapaVisto[k].resta
  BY VivoVista
<1> HIDE DEF n, resta
<1>4. MemoriaTypeOK' /\ mapaVisto' = [mapaVisto EXCEPT ![k] = [v |-> n, resta |-> resta]]
  BY <1>1, <1>2, GuardaVista
<1> QED BY <1>1, <1>3, <1>4 DEF Redis!Incr, mapaVisto

LEMMA MSetPasso ==
  ASSUME MemoriaTypeOK, NEW k \in Chaves, NEW v \in 0..MaxValor, NEW ex \in 0..MaxTtl,
         NEW nx \in BOOLEAN, MSet(k, v, nx, ex)
  PROVE  MemoriaTypeOK' /\ Redis!Set(k, v, nx, ex)
<1>1. Alive(k) <=> mapaVisto[k] # Nil
  BY VivoVista
<1>2. CASE nx /\ Alive(k)
  <2>1. saida' = <<"feito", FALSE>> /\ dados' = dados
    BY <1>2 DEF MSet
  <2>2. mapaVisto' = mapaVisto /\ MemoriaTypeOK'
    BY <2>1, MapaVisto DEF MemoriaTypeOK
  <2> QED BY <1>1, <1>2, <2>1, <2>2 DEF Redis!Set, mapaVisto
<1>3. CASE ~(nx /\ Alive(k))
  <2> DEFINE resta == IF ex = 0 THEN Sempre ELSE ex
  <2>1. saida' = <<"feito", TRUE>> /\ Guarda(k, v, resta)
    BY <1>3 DEF MSet
  <2>2. resta \in 1..MaxTtl \cup {Sempre}
    BY RedisConstants
  <2>3. resta = Redis!Ex(ex)
    BY DEF Redis!Ex
  <2> HIDE DEF resta
  <2>4. MemoriaTypeOK' /\ mapaVisto' = [mapaVisto EXCEPT ![k] = [v |-> v, resta |-> resta]]
    BY <2>1, <2>2, GuardaVista
  <2> QED BY <1>1, <1>3, <2>1, <2>3, <2>4 DEF Redis!Set, mapaVisto
<1> QED BY <1>2, <1>3

LEMMA MSetExPasso ==
  ASSUME MemoriaTypeOK, NEW k \in Chaves, NEW v \in 0..MaxValor, NEW ttl \in 1..MaxTtl,
         MSetEx(k, ttl, v)
  PROVE  MemoriaTypeOK' /\ Redis!SetEx(k, ttl, v)
<1>1. MemoriaTypeOK' /\ mapaVisto' = [mapaVisto EXCEPT ![k] = [v |-> v, resta |-> ttl]]
  BY GuardaVista DEF MSetEx
<1> QED BY <1>1 DEF MSetEx, Redis!SetEx, mapaVisto

LEMMA MExpirePasso ==
  ASSUME MemoriaTypeOK, NEW k \in Chaves, NEW ttl \in 1..MaxTtl, MExpire(k, ttl)
  PROVE  MemoriaTypeOK' /\ Redis!Expire(k, ttl)
<1>1. CASE ~Alive(k)
  <2>1. saida' = <<"feito", FALSE>> /\ dados' = [dados EXCEPT ![k] = Limpo(k)]
    BY <1>1 DEF MExpire, Limpo
  <2>2. mapaVisto' = mapaVisto /\ MemoriaTypeOK' /\ mapaVisto[k] = Nil
    BY <1>1, <2>1, LargaVista, VivoVista
  <2> QED BY <2>1, <2>2 DEF Redis!Expire, mapaVisto
<1>2. CASE Alive(k)
  <2>1. saida' = <<"feito", TRUE>> /\ Guarda(k, dados[k].v, ttl)
    BY <1>2 DEF MExpire
  <2>2. /\ dados[k].v \in 0..MaxValor /\ dados[k] \in Item
        /\ mapaVisto[k] = dados[k] /\ mapaVisto[k] # Nil
    BY <1>2, VivoVista
  <2>3. /\ MemoriaTypeOK'
        /\ mapaVisto' = [mapaVisto EXCEPT ![k] = [v |-> dados[k].v, resta |-> ttl]]
    BY <2>1, <2>2, GuardaVista
  <2>4. [mapaVisto[k] EXCEPT !.resta = ttl] = [v |-> dados[k].v, resta |-> ttl]
    BY <2>2 DEF Item
  <2>5. mapaVisto' = [mapaVisto EXCEPT ![k].resta = ttl]
    BY <2>3, <2>4
  <2> QED BY <2>1, <2>2, <2>3, <2>5 DEF Redis!Expire, mapaVisto
<1> QED BY <1>1, <1>2

LEMMA MDeletePasso ==
  ASSUME MemoriaTypeOK, NEW ks \in SUBSET Chaves, MDelete(ks)
  PROVE  MemoriaTypeOK' /\ Redis!Delete(ks)
<1>1. /\ saida' = <<"feito", TRUE>>
      /\ dados' = [k \in Chaves |-> IF k \in ks THEN Nil ELSE dados[k]]
  BY DEF MDelete
<1>2. MemoriaTypeOK'
  BY <1>1 DEF MemoriaTypeOK
<1>3. mapaVisto' = [k \in Chaves |-> IF k \in ks THEN Nil ELSE mapaVisto[k]]
  BY <1>1, MapaVisto DEF Vista
<1> QED BY <1>1, <1>2, <1>3 DEF Redis!Delete, mapaVisto

LEMMA MScanPasso ==
  ASSUME MemoriaTypeOK, MScan
  PROVE  MemoriaTypeOK' /\ Redis!Scan
<1>1. dados' = dados /\ saida' = <<"chaves", {k \in Chaves : Alive(k)}>>
  BY DEF MScan
<1>2. mapaVisto' = mapaVisto /\ MemoriaTypeOK'
  BY <1>1, MapaVisto DEF MemoriaTypeOK
<1>3. {k \in Chaves : Alive(k)} = {k \in Chaves : mapaVisto[k] # Nil}
  BY VivoVista
<1> QED BY <1>1, <1>2, <1>3 DEF Redis!Scan, mapaVisto

(* Time runs alike for both, and what it ends is no longer seen.           *)
LEMMA MTempoPasso ==
  ASSUME MemoriaTypeOK, MTempo
  PROVE  MemoriaTypeOK' /\ Redis!Tempo
<1>1. /\ saida' = saida
      /\ dados' = [k \in Chaves |->
           IF dados[k] = Nil \/ Limpo(k) = Nil \/ dados[k].resta = Sempre THEN dados[k]
           ELSE [dados[k] EXCEPT !.resta = @ - 1]]
  BY DEF MTempo
<1>2. ASSUME NEW k \in Chaves
      PROVE  /\ dados'[k] \in Item \cup {Nil}
             /\ Vista(dados'[k]) = Redis!Passa(mapaVisto[k])
  <2>1. CASE ~Alive(k)
    <3>1. dados'[k] = dados[k] /\ mapaVisto[k] = Nil /\ Vista(dados[k]) = Nil
      BY <1>1, <2>1, VivoVista DEF Limpo, Alive, Vista
    <3> QED BY <3>1 DEF MemoriaTypeOK, Redis!Passa
  <2>2. CASE Alive(k) /\ dados[k].resta = Sempre
    <3>1. dados'[k] = dados[k] /\ mapaVisto[k] = dados[k] /\ Vista(dados[k]) = dados[k]
      BY <1>1, <2>2, VivoVista DEF Alive, Vista
    <3> QED BY <2>2, <3>1, VivoVista DEF Redis!Passa
  <2>3. CASE Alive(k) /\ dados[k].resta # Sempre
    <3> DEFINE x == dados[k]
               y == [x EXCEPT !.resta = @ - 1]
    <3>1. /\ x \in Item /\ x.resta \in 1..MaxTtl /\ x # Nil
          /\ mapaVisto[k] = x
      BY <2>3, VivoVista
    <3>2. dados'[k] = y
      BY <1>1, <2>3, <3>1 DEF Limpo
    <3> HIDE DEF x
    <3>3. x.resta - 1 \in 0..MaxTtl /\ (x.resta - 1 = 0 <=> x.resta = 1)
      BY <3>1, RedisConstants
    <3>4. y \in Item /\ y.resta = x.resta - 1
      BY <3>1, <3>3 DEF Item
    <3>5. Vista(y) = IF x.resta = 1 THEN Nil ELSE y
      BY <3>3, <3>4, NilNaoItem DEF Vista
    <3>6. Redis!Passa(x) = IF x.resta = 1 THEN Nil ELSE y
      <4>1. x.resta # Sempre
        BY <3>1, RedisConstants
      <4> QED BY <3>1, <4>1 DEF Redis!Passa
    <3> HIDE DEF y
    <3> QED BY <3>1, <3>2, <3>4, <3>5, <3>6
  <2> QED BY <2>1, <2>2, <2>3
<1>3. MemoriaTypeOK'
  BY <1>1, <1>2 DEF MemoriaTypeOK
<1>4. mapaVisto' = [k \in Chaves |-> Redis!Passa(mapaVisto[k])]
  BY <1>2, MapaVisto
<1> QED BY <1>1, <1>3, <1>4 DEF Redis!Tempo, mapaVisto

LEMMA MemoriaStart == MemoriaInit => MemoriaTypeOK /\ Redis!RedisInit
<1> SUFFICES ASSUME MemoriaInit PROVE MemoriaTypeOK /\ Redis!RedisInit
  OBVIOUS
<1>1. dados = [k \in Chaves |-> Nil] /\ saida = <<"valor", Nil>>
  BY DEF MemoriaInit
<1>2. \A k \in Chaves : Limpo(k) = Nil
  BY <1>1 DEF Limpo, Alive
<1> QED BY <1>1, <1>2 DEF MemoriaTypeOK, Redis!RedisInit

LEMMA MemoriaStep ==
  MemoriaTypeOK /\ [Comando]_memoriaVars =>
    MemoriaTypeOK' /\ [Redis!RedisNext]_Redis!redisVars
<1> SUFFICES ASSUME MemoriaTypeOK, [Comando]_memoriaVars
             PROVE  MemoriaTypeOK' /\ [Redis!RedisNext]_Redis!redisVars
  OBVIOUS
<1> DEFINE NaChave(k) ==
             \/ MGet(k) \/ MIncr(k)
             \/ \E v \in 0..MaxValor, ttl \in 1..MaxTtl : MSetEx(k, ttl, v)
             \/ \E v \in 0..MaxValor, ex \in 0..MaxTtl, nx \in BOOLEAN : MSet(k, v, nx, ex)
             \/ \E ttl \in 1..MaxTtl : MExpire(k, ttl)
<1> DEFINE Segue == MemoriaTypeOK' /\ Redis!RedisNext
<1>1. ASSUME NEW k \in Chaves, MGet(k) \/ MIncr(k) PROVE Segue
  BY <1>1, MGetPasso, MIncrPasso DEF Redis!RedisNext
<1>2. ASSUME NEW k \in Chaves, NEW v \in 0..MaxValor, NEW ttl \in 1..MaxTtl,
             MSetEx(k, ttl, v)
      PROVE  Segue
  BY <1>2, MSetExPasso DEF Redis!RedisNext
<1>3. ASSUME NEW k \in Chaves, NEW v \in 0..MaxValor, NEW ex \in 0..MaxTtl,
             NEW nx \in BOOLEAN, MSet(k, v, nx, ex)
      PROVE  Segue
  BY <1>3, MSetPasso DEF Redis!RedisNext
<1>4. ASSUME NEW k \in Chaves, NEW ttl \in 1..MaxTtl, MExpire(k, ttl) PROVE Segue
  BY <1>4, MExpirePasso DEF Redis!RedisNext
<1>5. ASSUME NEW ks \in SUBSET Chaves, MDelete(ks) PROVE Segue
  BY <1>5, MDeletePasso DEF Redis!RedisNext
<1>6. ASSUME MScan PROVE Segue
  BY <1>6, MScanPasso DEF Redis!RedisNext
<1>7. ASSUME MTempo PROVE Segue
  BY <1>7, MTempoPasso DEF Redis!RedisNext
<1>8. CASE UNCHANGED memoriaVars
  <2>1. dados' = dados /\ saida' = saida
    BY <1>8 DEF memoriaVars
  <2>2. mapaVisto' = mapaVisto
    BY <2>1, MapaVisto
  <2> QED BY <2>1, <2>2 DEF MemoriaTypeOK, Redis!redisVars, mapaVisto
<1> HIDE DEF Segue
<1>9. CASE Comando
  <2>1. ASSUME NEW k \in Chaves, NaChave(k) PROVE Segue
    <3>1. CASE MGet(k) \/ MIncr(k)
      BY <1>1, <3>1
    <3>2. CASE \E v \in 0..MaxValor, ttl \in 1..MaxTtl : MSetEx(k, ttl, v)
      BY <1>2, <3>2
    <3>3. CASE \E v \in 0..MaxValor, ex \in 0..MaxTtl, nx \in BOOLEAN : MSet(k, v, nx, ex)
      BY <1>3, <3>3
    <3>4. CASE \E ttl \in 1..MaxTtl : MExpire(k, ttl)
      BY <1>4, <3>4
    <3> QED BY <2>1, <3>1, <3>2, <3>3, <3>4
  <2> HIDE DEF NaChave
  <2>2. (\E k \in Chaves : NaChave(k)) \/ (\E ks \in SUBSET Chaves : MDelete(ks))
        \/ MScan \/ MTempo
    BY <1>9 DEF Comando, NaChave
  <2>3. Segue
    BY <1>5, <1>6, <1>7, <2>1, <2>2
  <2> QED BY <2>3 DEF Segue
<1> QED BY <1>8, <1>9

(* Whoever talks to the dict cannot tell it from Redis, as long as nobody  *)
(* walks over the keys while one has expired (redis_client.py:50).         *)
THEOREM ImplementsRedis == MemoriaSpec => ComoRedis
BY MemoriaStart, MemoriaStep, PTL DEF MemoriaSpec, ComoRedis, Redis!RedisSpec
=============================================================================

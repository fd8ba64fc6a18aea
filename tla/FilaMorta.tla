------------------------------- MODULE FilaMorta -------------------------------
(***************************************************************************)
(* The dead letter queue in Redis (celery_observability.py) at its limit:  *)
(* a list of task ids and a hash of details for each, written by workers   *)
(* whose tasks are over and by the operators who retry and discard them    *)
(* (ops.py).  Every Redis command is a step of its own: nothing makes one  *)
(* of a handler's commands.                                                *)
(***************************************************************************)
EXTENDS FiniteSets, Naturals, Sequences

CONSTANTS
  Mortas,        \* tasks that fail for good, each once
  Trabalhos,     \* worker processes
  Operadores,    \* requests of the operators
  MaxDlq,        \* _DLQ_MAX_SIZE
  MaxMortes,     \* bound: processes that die
  Nenhuma

ASSUME FilaMortaConstants ==
  /\ IsFiniteSet(Trabalhos)
  /\ MaxDlq \in Nat \ {0} /\ MaxMortes \in Nat
  /\ Nenhuma \notin Mortas /\ Trabalhos \cap Operadores = {}

VARIABLES
  vivas,      \* tasks that have not failed yet
  lista,      \* dlq:tasks, the newest first
  meta,       \* dlq:meta:<id>: nothing, all of it, or a status alone
  proc,       \* workers and requests: the next command and its task
  mostradas,    \* ids get_dlq has shown the operators
  mortes      \* history: processes that died between two commands

filaVars == <<vivas, lista, meta, proc, mostradas, mortes>>

Processos == Trabalhos \cup Operadores
Ocioso == [pc |-> "ocioso", t |-> Nenhuma]

EmFila == {lista[i] : i \in 1..Len(lista)}

(* LREM: an id is pushed once, so at most one place goes.                  *)
Sem(t) ==
  IF t \notin EmFila THEN lista
  ELSE LET i == CHOOSE i \in 1..Len(lista) : lista[i] = t
       IN  [j \in 1..(Len(lista) - 1) |-> IF j < i THEN lista[j] ELSE lista[j + 1]]

Proximo(p, pc, t) == proc' = [proc EXCEPT ![p] = [pc |-> pc, t |-> t]]
Acaba(p) == proc' = [proc EXCEPT ![p] = Ocioso]

-----------------------------------------------------------------------------
(* _move_to_dlq: HSET and LPUSH, then RPOP and DEL while it is too long.   *)
MoveSemMeta(w, t) ==               \* mutant: the id goes first
  /\ proc[w] = Ocioso /\ t \in vivas
  /\ vivas' = vivas \ {t}
  /\ lista' = <<t>> \o lista
  /\ Proximo(w, "llen", t)
  /\ UNCHANGED <<meta, mostradas, mortes>>

MoveToDlq(w, t) ==
  /\ proc[w] = Ocioso /\ t \in vivas
  /\ vivas' = vivas \ {t}
  /\ meta' = [meta EXCEPT ![t] = "inteira"]
  /\ Proximo(w, "lpush", t)
  /\ UNCHANGED <<lista, mostradas, mortes>>

Lpush(w) ==
  /\ proc[w].pc = "lpush"
  /\ lista' = <<proc[w].t>> \o lista
  /\ Proximo(w, "llen", proc[w].t)
  /\ UNCHANGED <<vivas, meta, mostradas, mortes>>

Llen(w) ==
  /\ proc[w].pc = "llen"
  /\ IF Len(lista) > MaxDlq THEN Proximo(w, "rpop", Nenhuma) ELSE Acaba(w)
  /\ UNCHANGED <<vivas, lista, meta, mostradas, mortes>>

(* Somebody may have shortened the list in between.                        *)
Rpop(w) ==
  /\ proc[w].pc = "rpop"
  /\ IF lista = <<>>
     THEN Proximo(w, "llen", Nenhuma) /\ UNCHANGED lista
     ELSE /\ Proximo(w, "del", lista[Len(lista)])
          /\ lista' = SubSeq(lista, 1, Len(lista) - 1)
  /\ UNCHANGED <<vivas, meta, mostradas, mortes>>

(* The details of the id that was taken out.                               *)
Del(p) ==
  /\ proc[p].pc \in {"del", "descartada"}
  /\ meta' = [meta EXCEPT ![proc[p].t] = "nada"]
  /\ IF proc[p].pc = "del" THEN Proximo(p, "llen", Nenhuma) ELSE Acaba(p)
  /\ UNCHANGED <<vivas, lista, mostradas, mortes>>

-----------------------------------------------------------------------------
(* get_dlq: the ids that have details.                                     *)
GetDlq ==
  /\ mostradas' = mostradas \cup {t \in EmFila : meta[t] # "nada"}
  /\ UNCHANGED <<vivas, lista, meta, proc, mortes>>

(* dlq_retry: the details are loaded, the task enqueued under a new id, a  *)
(* status written - on what may be gone by then.                           *)
DlqRetry(q, t) ==
  /\ proc[q] = Ocioso /\ t \in mostradas /\ meta[t] = "inteira"
  /\ Proximo(q, "status", t)
  /\ UNCHANGED <<vivas, lista, meta, mostradas, mortes>>

HsetStatus(q) ==
  LET t == proc[q].t IN
  /\ proc[q].pc = "status"
  /\ meta' = [meta EXCEPT ![t] = IF @ = "nada" THEN "status" ELSE @]
  /\ Acaba(q)
  /\ UNCHANGED <<vivas, lista, mostradas, mortes>>

(* dlq_discard: LREM, then DEL.                                            *)
DlqDiscard(q, t) ==
  /\ proc[q] = Ocioso /\ t \in mostradas
  /\ lista' = Sem(t)
  /\ Proximo(q, "descartada", t)
  /\ UNCHANGED <<vivas, meta, mostradas, mortes>>

ProcMorre(p) ==
  /\ proc[p] # Ocioso
  /\ mortes < MaxMortes /\ mortes' = mortes + 1
  /\ Acaba(p)
  /\ UNCHANGED <<vivas, lista, meta, mostradas>>

-----------------------------------------------------------------------------
FilaMortaInit ==
  /\ vivas = Mortas /\ lista = <<>>
  /\ meta = [t \in Mortas |-> "nada"]
  /\ proc = [p \in Processos |-> Ocioso]
  /\ mostradas = {} /\ mortes = 0

FilaMortaNext ==
  \/ GetDlq
  \/ \E w \in Trabalhos :
       \/ \E t \in Mortas : MoveToDlq(w, t)
       \/ Lpush(w) \/ Llen(w) \/ Rpop(w)
  \/ \E q \in Operadores :
       \/ \E t \in Mortas : DlqRetry(q, t) \/ DlqDiscard(q, t)
       \/ HsetStatus(q)
  \/ \E p \in Processos : Del(p) \/ ProcMorre(p)

FilaMortaSpec == FilaMortaInit /\ [][FilaMortaNext]_filaVars

-----------------------------------------------------------------------------
FilaMortaTypeOK ==
  /\ vivas \subseteq Mortas /\ lista \in Seq(Mortas)
  /\ meta \in [Mortas -> {"nada", "status", "inteira"}]
  /\ proc \in [Processos ->
       [pc: {"ocioso", "lpush", "llen", "rpop", "del", "status", "descartada"},
        t: Mortas \cup {Nenhuma}]]
  /\ mostradas \subseteq Mortas /\ mortes \in 0..MaxMortes

(* What the list shows can be opened and retried, whoever else trims,      *)
(* retries or discards it (celery_observability.py:120, :121), and it      *)
(* passes its limit only by what is being trimmed or what a death left     *)
(* untrimmed (celery_observability.py:122).                                *)
NaFilaAbre == \A t \in EmFila : meta[t] = "inteira"

Podando == {w \in Trabalhos : proc[w].pc \in {"llen", "rpop", "del"}}

NoLimite == Len(lista) <= MaxDlq + Cardinality(Podando) + mortes

FilaConfere == NaFilaAbre /\ NoLimite

(* Details without a place in the list are somebody's work in progress.    *)
(* They are not: a retry that loaded an item writes its status after a     *)
(* discard, and nothing removes that (celery_observability.py:167).        *)
SemDetalhesSoltos ==
  mortes = 0 =>
    \A t \in Mortas : meta[t] # "nada" =>
      t \in EmFila \/ \E p \in Processos : proc[p].t = t
=============================================================================

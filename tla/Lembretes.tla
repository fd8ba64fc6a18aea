------------------------------- MODULE Lembretes -------------------------------
(***************************************************************************)
(* The reminders before a due date (tasks.py): the runs of                 *)
(* daily_automation_tick under the day's lock in Redis, the tasks they     *)
(* enqueue and the workers that send the messages of a task and note the   *)
(* day in the contract (ultima_cobranca_telegram_em).                      *)
(*                                                                         *)
(* A reminder is several messages: the template and the operacao's own.    *)
(* Beat may start a run at any time, again after a restart too.            *)
(***************************************************************************)
EXTENDS Naturals

CONSTANTS
  Rondas,        \* processes that run the tick
  Carteiros,     \* workers of the queue telegram
  Alugueis,      \* the contracts
  Mensagens,     \* messages of one reminder
  MaxTentativas, \* max_retries
  Duracao,       \* time_limit of the tick
  Trava,         \* expiry of the day's lock
  HorasDoDia,    \* bound: how often time passes in a day
  MaxDia,        \* bound: days
  MaxQueda,      \* bound: deaths and failed enqueues
  NenhumDia

ASSUME LembretesConstants ==
  /\ {Mensagens, Duracao, HorasDoDia} \subseteq Nat \ {0}
  /\ {MaxTentativas, MaxDia, MaxQueda, Trava} \subseteq Nat
  /\ Duracao < Trava             \* time_limit=2100, ex=7200 (tasks.py:359)
  /\ NenhumDia \notin Nat

Dias == 0..MaxDia
Avisos == {"d3", "d0", "d1"}

VARIABLES
  dia, hora,
  chaveDia,    \* day -> what is left of its key lock:daily_automation
  ronda,       \* the runs
  vence,       \* contract -> the reminder its due date asks for today
  ativo,       \* contracts that are running
  fila,        \* tasks: how many of each contract and number of retries
  carteiro,    \* the workers
  marcada,     \* ultima_cobranca_telegram_em
  enviadas,    \* history: first messages sent for a day
  repetivel,   \* history: a reminder was cut off, or met another one
  quedasLembretes

vigia == <<chaveDia, ronda>>
correio == <<carteiro, marcada, enviadas, repetivel>>
lembretesVars ==
  <<dia, hora, vigia, vence, ativo, fila, correio, quedasLembretes>>

Ronda == [pc: {"parada"} \cup {"fim"} \cup Avisos, dia: Dias, resta: 0..Duracao]
RondaParada == [pc |-> "parada", dia |-> 0, resta |-> 0]

Tarefa == [c: Alugueis, tent: 0..MaxTentativas]
Carteiro == [pc: {"livre", "enviar", "marcar"}, c: Alugueis,
             tent: 0..MaxTentativas, n: 0..Mensagens, hoje: Dias]

(* A queue with one more task of each of these contracts.                  *)
Com(cs, tent) ==
  [k \in Tarefa |-> IF k.c \in cs /\ k.tent = tent THEN fila[k] + 1 ELSE fila[k]]

Desocupado(w) == carteiro[w].pc = "livre"

Vago(c) == [pc |-> "livre", c |-> c, tent |-> 0, n |-> 0, hoje |-> 0]

Dispensa(w) == carteiro' = [carteiro EXCEPT ![w] = Vago(@.c)]

-----------------------------------------------------------------------------
(* Time.  Runs have a time limit, keys expire, days end.                   *)
Passa ==
  /\ hora < HorasDoDia /\ hora' = hora + 1
  /\ chaveDia' = [d \in Dias |-> IF chaveDia[d] = 0 THEN 0 ELSE chaveDia[d] - 1]
  /\ ronda' = [t \in Rondas |->
       IF ronda[t].resta <= 1 THEN RondaParada ELSE [ronda[t] EXCEPT !.resta = @ - 1]]
  /\ UNCHANGED <<dia, vence, ativo, fila, correio, quedasLembretes>>

Meianoite ==
  /\ hora = HorasDoDia /\ dia < MaxDia
  /\ dia' = dia + 1 /\ hora' = 0
  /\ \E v \in [Alugueis -> Avisos \cup {"nada"}] : vence' = v
  /\ UNCHANGED <<vigia, ativo, fila, correio, quedasLembretes>>

(* A payment or an edition moves the due date; a contract ends or returns. *)
Remarca(c) ==
  /\ \E a \in Avisos : vence[c] # a /\ vence' = [vence EXCEPT ![c] = a]
  /\ UNCHANGED <<dia, hora, vigia, ativo, fila, correio, quedasLembretes>>

MudaContrato(c) ==
  /\ ativo' = [ativo EXCEPT ![c] = ~@]
  /\ UNCHANGED <<dia, hora, vigia, vence, fila, correio, quedasLembretes>>

-----------------------------------------------------------------------------
(* SET NX EX of the day's key: whoever finds it goes home.                 *)
DailySemTrava(t) ==                \* mutant: SET without NX
  /\ ronda[t].pc = "parada"
  /\ chaveDia' = [chaveDia EXCEPT ![dia] = Trava]
  /\ ronda' = [ronda EXCEPT ![t] = [pc |-> "fim", dia |-> dia, resta |-> Duracao]]
  /\ UNCHANGED <<dia, hora, vence, ativo, fila, correio, quedasLembretes>>

DailyAutomationTick(t) ==
  /\ ronda[t].pc = "parada" /\ chaveDia[dia] = 0
  /\ chaveDia' = [chaveDia EXCEPT ![dia] = Trava]
  /\ ronda' = [ronda EXCEPT ![t] = [pc |-> "fim", dia |-> dia, resta |-> Duracao]]
  /\ UNCHANGED <<dia, hora, vence, ativo, fila, correio, quedasLembretes>>

ExpiryPass(t) ==
  /\ ronda[t].pc = "fim"
  /\ ronda' = [ronda EXCEPT ![t].pc = "d3"]
  /\ \E fins \in SUBSET Alugueis :
       ativo' = [c \in Alugueis |-> ativo[c] /\ c \notin fins]
  /\ UNCHANGED <<dia, hora, chaveDia, vence, fila, correio, quedasLembretes>>

(* What a pass enqueues: the running contracts of that due date.           *)
Escolhidos(aviso) == {c \in Alugueis : ativo[c] /\ vence[c] = aviso}

Enfileira(t, aviso, depois) ==
  /\ ronda[t].pc = aviso
  /\ fila' = Com(Escolhidos(aviso), 0)
  /\ ronda' = [ronda EXCEPT ![t] = depois]
  /\ UNCHANGED <<dia, hora, chaveDia, vence, ativo, correio, quedasLembretes>>

ProcessD3(t) == Enfileira(t, "d3", [ronda[t] EXCEPT !.pc = "d0"])
ProcessD0(t) == Enfileira(t, "d0", [ronda[t] EXCEPT !.pc = "d1"])
ProcessD1(t) == Enfileira(t, "d1", RondaParada)

(* A .delay fails or the process dies: some are enqueued, the rest of the  *)
(* run is lost.                                                            *)
RondaFalha(t) ==
  /\ ronda[t].pc \in Avisos
  /\ quedasLembretes < MaxQueda /\ quedasLembretes' = quedasLembretes + 1
  /\ \E feitos \in SUBSET Escolhidos(ronda[t].pc) :
       fila' = Com(feitos, 0)
  /\ ronda' = [ronda EXCEPT ![t] = RondaParada]
  /\ UNCHANGED <<dia, hora, chaveDia, vence, ativo, correio>>

-----------------------------------------------------------------------------
(* send_d3_reminder, send_d1_reminder, send_d0_reminder: taken from the    *)
(* queue before they run; nothing to do for a contract that ended or had a *)
(* message today.                                                          *)
JaAvisadoNunca(c) == FALSE         \* mutant: the day is not looked at

JaAvisado(c) == marcada[c] = dia

SendReminder(w, k) ==
  LET c == k.c IN
  /\ Desocupado(w) /\ fila[k] > 0
  /\ fila' = [fila EXCEPT ![k] = @ - 1]
  /\ IF ativo[c] /\ ~JaAvisado(c)
     THEN carteiro' = [carteiro EXCEPT ![w] =
            [pc |-> "enviar", c |-> c, tent |-> k.tent, n |-> 0, hoje |-> dia]]
     ELSE UNCHANGED carteiro
  /\ repetivel' = IF \E v \in Carteiros : ~Desocupado(v) /\ carteiro[v].c = c
                  THEN repetivel \cup {c} ELSE repetivel
  /\ UNCHANGED <<dia, hora, vigia, vence, ativo, marcada, enviadas, quedasLembretes>>

Entregue(r) ==
  IF r.n > 0 THEN enviadas
  ELSE [enviadas EXCEPT ![r.c][r.hoje] = IF @ < 2 THEN @ + 1 ELSE @]

SendText(w) ==
  LET r == carteiro[w] IN
  /\ r.pc = "enviar"
  /\ enviadas' = Entregue(r)
  /\ carteiro' = [carteiro EXCEPT ![w].n = @ + 1,
                    ![w].pc = IF r.n + 1 = Mensagens THEN "marcar" ELSE "enviar"]
  /\ UNCHANGED <<dia, hora, vigia, vence, ativo, fila, marcada, repetivel, quedasLembretes>>

(* A timeout, with or without delivery: Celery tries the whole task again. *)
TransientError(w) ==
  LET r == carteiro[w] IN
  /\ r.pc = "enviar"
  /\ Dispensa(w)
  /\ fila' = IF r.tent < MaxTentativas THEN Com({r.c}, r.tent + 1) ELSE fila
  /\ \/ enviadas' = Entregue(r) /\ repetivel' = repetivel \cup {r.c}
     \/ /\ repetivel' = IF r.n > 0 THEN repetivel \cup {r.c} ELSE repetivel
        /\ UNCHANGED enviadas
  /\ UNCHANGED <<dia, hora, vigia, vence, ativo, marcada, quedasLembretes>>

(* A refusal ends the task without a mark.                                 *)
PermanentError(w) ==
  LET r == carteiro[w] IN
  /\ r.pc = "enviar"
  /\ Dispensa(w)
  /\ repetivel' = IF r.n > 0 THEN repetivel \cup {r.c} ELSE repetivel
  /\ UNCHANGED <<dia, hora, vigia, vence, ativo, fila, marcada, enviadas, quedasLembretes>>

MarkTelegramSent(w) ==
  LET r == carteiro[w] IN
  /\ r.pc = "marcar"
  /\ marcada' = [marcada EXCEPT ![r.c] = r.hoje]
  /\ Dispensa(w)
  /\ UNCHANGED <<dia, hora, vigia, vence, ativo, fila, enviadas, repetivel, quedasLembretes>>

CarteiroMorre(w) ==
  LET r == carteiro[w] IN
  /\ ~Desocupado(w)
  /\ quedasLembretes < MaxQueda /\ quedasLembretes' = quedasLembretes + 1
  /\ Dispensa(w)
  /\ repetivel' = IF r.n > 0 THEN repetivel \cup {r.c} ELSE repetivel
  /\ UNCHANGED <<dia, hora, vigia, vence, ativo, fila, marcada, enviadas>>

-----------------------------------------------------------------------------
LembretesInit ==
  /\ dia = 0 /\ hora = 0
  /\ chaveDia = [d \in Dias |-> 0]
  /\ ronda = [t \in Rondas |-> RondaParada]
  /\ vence \in [Alugueis -> Avisos]
  /\ ativo = [c \in Alugueis |-> TRUE]
  /\ fila = [k \in Tarefa |-> 0]
  /\ \E c \in Alugueis : carteiro = [w \in Carteiros |-> Vago(c)]
  /\ marcada = [c \in Alugueis |-> NenhumDia]
  /\ enviadas = [c \in Alugueis |-> [d \in Dias |-> 0]]
  /\ repetivel = {}
  /\ quedasLembretes = 0

LembretesNext ==
  \/ Passa \/ Meianoite
  \/ \E c \in Alugueis : Remarca(c) \/ MudaContrato(c)
  \/ \E t \in Rondas :
       \/ DailyAutomationTick(t) \/ ExpiryPass(t)
       \/ ProcessD3(t) \/ ProcessD0(t) \/ ProcessD1(t) \/ RondaFalha(t)
  \/ \E w \in Carteiros :
       \/ \E k \in Tarefa : SendReminder(w, k)
       \/ SendText(w) \/ TransientError(w) \/ PermanentError(w)
       \/ MarkTelegramSent(w) \/ CarteiroMorre(w)

LembretesSpec == LembretesInit /\ [][LembretesNext]_lembretesVars

-----------------------------------------------------------------------------
LembretesTypeOK ==
  /\ dia \in Dias /\ hora \in 0..HorasDoDia
  /\ chaveDia \in [Dias -> 0..Trava]
  /\ ronda \in [Rondas -> Ronda]
  /\ vence \in [Alugueis -> Avisos \cup {"nada"}]
  /\ ativo \in [Alugueis -> BOOLEAN]
  /\ fila \in [Tarefa -> Nat]
  /\ carteiro \in [Carteiros -> Carteiro]
  /\ marcada \in [Alugueis -> Dias \cup {NenhumDia}]
  /\ enviadas \in [Alugueis -> [Dias -> 0..2]]
  /\ repetivel \subseteq Alugueis /\ quedasLembretes \in 0..MaxQueda

(* Two runs of one day never overlap, whenever Beat starts them: the key   *)
(* outlives the run that set it (tasks.py:347, :359).                      *)
TickUnico ==
  \A t, u \in Rondas :
    ronda[t].pc # "parada" /\ ronda[u].pc # "parada" /\ ronda[t].dia = ronda[u].dia
      => t = u

(* "evita duplo envio em restart de Beat" (tasks.py:266): a payer gets one *)
(* reminder a day, from however many runs, due dates and retries; a second *)
(* one only if a reminder broke off after its first message or two workers *)
(* had the contract at the same time (tasks.py:227).                       *)
LembreteUnico ==
  \A c \in Alugueis \ repetivel, d \in Dias : enviadas[c][d] <= 1
=============================================================================

--------------------------- MODULE LembretesProofs ---------------------------
(***************************************************************************)
(* What runs in turns, for any workers, messages and days.                 *)
(*                                                                         *)
(* The daily runs: two runs of one day do not overlap, since the day's key *)
(* outlives whoever set it by what its expiry is longer than the time      *)
(* limit.  The reminders: a payer gets one a day; while nobody breaks off  *)
(* and no two workers have a contract, what was sent is either marked or   *)
(* in the hands of the one worker that has it.  The bot: for any menus and *)
(* texts it answers and announces what it is asked.  The dead letters:     *)
(* whoever lists them can open what the list shows, and the list passes    *)
(* its limit only by what somebody is trimming or died trimming.           *)
(***************************************************************************)
EXTENDS Bot, FilaMorta, FiniteSetTheorems, Lembretes, SequenceTheorems, TLAPS

LEMMA Constantes ==
  /\ Mensagens \in Nat \ {0} /\ Duracao \in Nat \ {0} /\ HorasDoDia \in Nat \ {0}
  /\ MaxTentativas \in Nat /\ MaxDia \in Nat /\ MaxQueda \in Nat /\ Trava \in Nat
  /\ Duracao < Trava /\ NenhumDia \notin Dias /\ 0 \in Dias
BY LembretesConstants DEF Dias

-----------------------------------------------------------------------------
(* The runs.                                                               *)
RondasType ==
  /\ dia \in Dias
  /\ chaveDia \in [Dias -> 0..Trava]
  /\ ronda \in [Rondas -> Ronda]

Corre(t) == ronda[t].pc # "parada"

Sobrevive ==
  \A t \in Rondas : Corre(t) =>
    /\ ronda[t].resta > 0
    /\ chaveDia[ronda[t].dia] >= ronda[t].resta + (Trava - Duracao)

RInv == RondasType /\ Sobrevive /\ TickUnico

LEMMA ParadaType == RondaParada \in Ronda /\ RondaParada.pc = "parada"
BY Constantes DEF RondaParada, Ronda

LEMMA RInit == LembretesInit => RInv
BY Constantes, ParadaType
   DEF LembretesInit, RInv, RondasType, Sobrevive, Corre, TickUnico

LEMMA RFields ==
  ASSUME RInv, NEW t \in Rondas
  PROVE  /\ ronda[t] \in Ronda /\ ronda[t].dia \in Dias
         /\ ronda[t].resta \in 0..Duracao
         /\ chaveDia[ronda[t].dia] \in 0..Trava
BY DEF RInv, RondasType, Ronda

(* A run that goes on or ends keeps its day and its time.                  *)
LEMMA RondaSegue ==
  ASSUME RInv, NEW t \in Rondas, NEW r \in Ronda,
         r.pc = "parada" \/ (r.dia = ronda[t].dia /\ r.resta = ronda[t].resta /\ Corre(t)),
         ronda' = [ronda EXCEPT ![t] = r], UNCHANGED <<dia, chaveDia>>
  PROVE  RInv'
<1>1. /\ ronda' \in [Rondas -> Ronda] /\ ronda'[t] = r
      /\ \A u \in Rondas \ {t} : ronda'[u] = ronda[u]
  BY DEF RInv, RondasType
<1>2. RondasType'
  BY <1>1 DEF RInv, RondasType
<1>3. Sobrevive'
  BY <1>1 DEF RInv, Sobrevive, Corre
<1>4. TickUnico'
  BY <1>1 DEF RInv, TickUnico, Corre
<1> QED BY <1>2, <1>3, <1>4 DEF RInv

LEMMA PassaR ==
  ASSUME RInv, Passa
  PROVE  RInv'
<1>1. /\ dia' = dia
      /\ chaveDia' = [d \in Dias |-> IF chaveDia[d] = 0 THEN 0 ELSE chaveDia[d] - 1]
      /\ ronda' = [t \in Rondas |->
           IF ronda[t].resta <= 1 THEN RondaParada ELSE [ronda[t] EXCEPT !.resta = @ - 1]]
  BY DEF Passa
<1>2. ASSUME NEW t \in Rondas
      PROVE  /\ ronda'[t] \in Ronda
             /\ ronda'[t].pc # "parada" =>
                  /\ ronda'[t].pc = ronda[t].pc /\ ronda'[t].dia = ronda[t].dia
                  /\ ronda'[t].resta = ronda[t].resta - 1 /\ ronda[t].resta > 1
  BY <1>1, RFields, ParadaType, Constantes DEF Ronda
<1>3. chaveDia' \in [Dias -> 0..Trava]
  BY <1>1, Constantes, SMTT(30) DEF RInv, RondasType
<1>4. RondasType'
  BY <1>1, <1>2, <1>3 DEF RInv, RondasType
<1>5. Sobrevive'
  <2> SUFFICES ASSUME NEW t \in Rondas, ronda'[t].pc # "parada"
               PROVE  /\ ronda'[t].resta > 0
                      /\ chaveDia'[ronda'[t].dia] >= ronda'[t].resta + (Trava - Duracao)
    BY DEF Sobrevive, Corre
  <2>1. /\ ronda'[t].dia = ronda[t].dia /\ ronda'[t].resta = ronda[t].resta - 1
        /\ ronda[t].resta > 1 /\ Corre(t)
    BY <1>2 DEF Corre
  <2>2. chaveDia[ronda[t].dia] >= ronda[t].resta + (Trava - Duracao)
    BY <2>1 DEF RInv, Sobrevive
  <2>3. chaveDia'[ronda[t].dia] = chaveDia[ronda[t].dia] - 1
    BY <1>1, <2>1, <2>2, RFields, Constantes
  <2> QED BY <2>1, <2>2, <2>3, RFields, Constantes
<1>6. TickUnico'
  BY <1>2 DEF RInv, TickUnico
<1> QED BY <1>4, <1>5, <1>6 DEF RInv

(* Whoever finds no key of the day finds no run of the day.                *)
LEMMA TickR ==
  ASSUME RInv, NEW t \in Rondas, DailyAutomationTick(t)
  PROVE  RInv'
<1> DEFINE r == [pc |-> "fim", dia |-> dia, resta |-> Duracao]
<1>1. /\ chaveDia[dia] = 0 /\ dia' = dia /\ dia \in Dias
      /\ chaveDia' = [chaveDia EXCEPT ![dia] = Trava]
      /\ ronda' = [ronda EXCEPT ![t] = r]
  BY DEF DailyAutomationTick, RInv, RondasType
<1>2. r \in Ronda
  BY <1>1, Constantes DEF Ronda
<1>3. /\ ronda' \in [Rondas -> Ronda] /\ ronda'[t] = r
      /\ \A u \in Rondas \ {t} : ronda'[u] = ronda[u]
  BY <1>1, <1>2 DEF RInv, RondasType
<1>4. chaveDia' \in [Dias -> 0..Trava] /\ chaveDia'[dia] = Trava
      /\ \A d \in Dias \ {dia} : chaveDia'[d] = chaveDia[d]
  BY <1>1, Constantes DEF RInv, RondasType
<1>5. \A u \in Rondas : Corre(u) => ronda[u].dia # dia
  <2> SUFFICES ASSUME NEW u \in Rondas, Corre(u), ronda[u].dia = dia PROVE FALSE
    OBVIOUS
  <2>1. ronda[u].resta > 0 /\ chaveDia[dia] >= ronda[u].resta + (Trava - Duracao)
    BY DEF RInv, Sobrevive
  <2> QED BY <2>1, <1>1, RFields, Constantes
<1>6. RondasType'
  BY <1>1, <1>3, <1>4 DEF RondasType
<1>7. Sobrevive'
  <2> SUFFICES ASSUME NEW u \in Rondas, ronda'[u].pc # "parada"
               PROVE  /\ ronda'[u].resta > 0
                      /\ chaveDia'[ronda'[u].dia] >= ronda'[u].resta + (Trava - Duracao)
    BY DEF Sobrevive, Corre
  <2>1. CASE u = t
    BY <2>1, <1>3, <1>4, Constantes
  <2>2. CASE u # t
    BY <2>2, <1>3, <1>4, <1>5, RFields DEF RInv, Sobrevive, Corre
  <2> QED BY <2>1, <2>2
<1>8. TickUnico'
  BY <1>3, <1>5 DEF RInv, TickUnico, Corre
<1> QED BY <1>6, <1>7, <1>8 DEF RInv

LEMMA PassesR ==
  ASSUME RInv, NEW t \in Rondas,
         ExpiryPass(t) \/ ProcessD3(t) \/ ProcessD0(t) \/ ProcessD1(t) \/ RondaFalha(t)
  PROVE  RInv'
<1>1. UNCHANGED <<dia, chaveDia>> /\ Corre(t)
  BY DEF ExpiryPass, ProcessD3, ProcessD0, ProcessD1, Enfileira, RondaFalha, Corre, Avisos
<1>2. \E pc \in {"d3", "d0", "d1"} : ronda' = [ronda EXCEPT ![t] = [ronda[t] EXCEPT !.pc = pc]]
      \/ ronda' = [ronda EXCEPT ![t] = RondaParada]
  BY DEF ExpiryPass, ProcessD3, ProcessD0, ProcessD1, Enfileira, RondaFalha
<1>3. CASE ronda' = [ronda EXCEPT ![t] = RondaParada]
  BY <1>1, <1>3, ParadaType, RondaSegue
<1>4. ASSUME NEW pc \in {"d3", "d0", "d1"},
             ronda' = [ronda EXCEPT ![t] = [ronda[t] EXCEPT !.pc = pc]]
      PROVE  RInv'
  <2>1. PICK r : r = [ronda[t] EXCEPT !.pc = pc]
    OBVIOUS
  <2>2. r \in Ronda /\ r.dia = ronda[t].dia /\ r.resta = ronda[t].resta
    BY <2>1, RFields DEF Ronda, Avisos
  <2> QED BY <2>1, <2>2, <1>1, <1>4, RondaSegue
<1> QED BY <1>2, <1>3, <1>4

LEMMA AwayR ==
  ASSUME RInv, UNCHANGED <<chaveDia, ronda>>, dia' \in Dias
  PROVE  RInv'
BY DEF RInv, RondasType, Sobrevive, Corre, TickUnico

LEMMA NextR == RInv /\ [LembretesNext]_lembretesVars => RInv'
<1> SUFFICES ASSUME RInv, [LembretesNext]_lembretesVars PROVE RInv'
  OBVIOUS
<1>0. dia \in Dias
  BY DEF RInv, RondasType
<1>1. CASE \/ UNCHANGED lembretesVars
           \/ \E c \in Alugueis : Remarca(c) \/ MudaContrato(c)
           \/ \E w \in Carteiros :
                \/ \E k \in Tarefa : SendReminder(w, k)
                \/ SendText(w) \/ TransientError(w) \/ PermanentError(w)
                \/ MarkTelegramSent(w) \/ CarteiroMorre(w)
  <2>1. UNCHANGED <<dia, chaveDia, ronda>>
    BY <1>1 DEF lembretesVars, vigia, Remarca, MudaContrato, SendReminder, SendText,
       TransientError, PermanentError, MarkTelegramSent, CarteiroMorre
  <2> QED BY <2>1, <1>0, AwayR
<1>2. CASE Meianoite
  BY <1>2, <1>0, AwayR, Constantes DEF Meianoite, vigia, Dias
<1>3. CASE Passa
  BY <1>3, PassaR
<1>4. CASE \E t \in Rondas :
             \/ DailyAutomationTick(t) \/ ExpiryPass(t)
             \/ ProcessD3(t) \/ ProcessD0(t) \/ ProcessD1(t) \/ RondaFalha(t)
  BY <1>4, TickR, PassesR
<1> QED BY <1>1, <1>2, <1>3, <1>4 DEF LembretesNext

(* Two runs of one day never overlap, whenever Beat starts them and        *)
(* however often, because the key's expiry is longer than the task's time  *)
(* limit (tasks.py:347, :359).                                             *)
THEOREM OneRunADay == LembretesSpec => []TickUnico
<1>1. RInv => TickUnico
  BY DEF RInv
<1> QED BY <1>1, RInit, NextR, PTL DEF LembretesSpec

-----------------------------------------------------------------------------
(* The reminders.                                                          *)
CorreioType ==
  /\ dia \in Dias
  /\ carteiro \in [Carteiros -> Carteiro]
  /\ marcada \in [Alugueis -> Dias \cup {NenhumDia}]
  /\ enviadas \in [Alugueis -> [Dias -> 0..2]]
  /\ repetivel \subseteq Alugueis

Leva(w, c) == carteiro[w].pc # "livre" /\ carteiro[w].c = c

(* Nothing is from a day that has not come.                                *)
Passado ==
  /\ \A c \in Alugueis : marcada[c] \in Dias => marcada[c] <= dia
  /\ \A c \in Alugueis, d \in Dias : enviadas[c][d] > 0 => d <= dia
  /\ \A w \in Carteiros : carteiro[w].pc # "livre" => carteiro[w].hoje <= dia

(* One worker at most has a contract.                                      *)
Sozinho(c) == \A w, v \in Carteiros : Leva(w, c) /\ Leva(v, c) => w = v

(* What a worker has begun it has sent once, and nothing for a later day.  *)
Comecou(c) ==
  \A w \in Carteiros : Leva(w, c) =>
    /\ carteiro[w].n = 0 => enviadas[c][carteiro[w].hoje] = 0
    /\ \A d \in Dias : d > carteiro[w].hoje => enviadas[c][d] = 0

Marcada(c, d) == marcada[c] \in Dias /\ marcada[c] >= d

EmMaos(c, d) ==
  \E w \in Carteiros : Leva(w, c) /\ carteiro[w].n > 0 /\ carteiro[w].hoje = d

Lembrada(c) ==
  \A d \in Dias :
    /\ enviadas[c][d] <= 1
    /\ enviadas[c][d] = 1 => Marcada(c, d) \/ EmMaos(c, d)

CInv ==
  /\ CorreioType /\ Passado
  /\ \A w \in Carteiros : carteiro[w].pc = "enviar" => carteiro[w].n < Mensagens
  /\ \A c \in Alugueis \ repetivel : Sozinho(c) /\ Comecou(c) /\ Lembrada(c)

LEMMA VagoType ==
  ASSUME NEW c \in Alugueis
  PROVE  Vago(c) \in Carteiro /\ Vago(c).pc = "livre"
BY Constantes DEF Vago, Carteiro

LEMMA CInit == LembretesInit => CInv
<1> SUFFICES ASSUME LembretesInit PROVE CInv
  OBVIOUS
<1>1. CorreioType /\ \A w \in Carteiros : carteiro[w].pc = "livre"
  BY VagoType, Constantes DEF LembretesInit, CorreioType
<1>2. /\ \A c \in Alugueis : marcada[c] \notin Dias
      /\ \A c \in Alugueis, d \in Dias : enviadas[c][d] = 0
  BY Constantes DEF LembretesInit
<1> QED
  BY <1>1, <1>2 DEF CInv, Passado, Sozinho, Comecou, Lembrada, Leva

LEMMA CFields ==
  ASSUME CInv
  PROVE  /\ dia \in Dias /\ Dias \subseteq Nat
         /\ \A w \in Carteiros :
              /\ carteiro[w] \in Carteiro /\ carteiro[w].c \in Alugueis
              /\ carteiro[w].n \in 0..Mensagens /\ carteiro[w].hoje \in Dias
              /\ carteiro[w].tent \in 0..MaxTentativas
         /\ \A c \in Alugueis : /\ marcada[c] \in Dias \cup {NenhumDia}
                                /\ enviadas[c] \in [Dias -> 0..2]
BY DEF CInv, CorreioType, Carteiro, Dias

(* What Entregue counts: one message at most, of the task's day.           *)
LEMMA EntregueType ==
  ASSUME CInv, NEW r \in Carteiro, r.c \in Alugueis, r.hoje \in Dias
  PROVE  /\ Entregue(r) \in [Alugueis -> [Dias -> 0..2]]
         /\ \A c \in Alugueis, d \in Dias :
              (c # r.c \/ d # r.hoje \/ r.n > 0) => Entregue(r)[c][d] = enviadas[c][d]
         /\ \A c \in Alugueis : c # r.c => Entregue(r)[c] = enviadas[c]
         /\ (r.n = 0 /\ enviadas[r.c][r.hoje] = 0) => Entregue(r)[r.c][r.hoje] = 1
<1>1. enviadas \in [Alugueis -> [Dias -> 0..2]]
  BY DEF CInv, CorreioType
<1>2. PICK m : m = IF enviadas[r.c][r.hoje] < 2 THEN enviadas[r.c][r.hoje] + 1
                   ELSE enviadas[r.c][r.hoje]
  OBVIOUS
<1>3. m \in 0..2 /\ (enviadas[r.c][r.hoje] = 0 => m = 1)
  BY <1>1, <1>2
<1>4. CASE r.n > 0
  BY <1>1, <1>4 DEF Entregue
<1>5. CASE ~(r.n > 0)
  <2>1. PICK f : f = [enviadas[r.c] EXCEPT ![r.hoje] = m]
    OBVIOUS
  <2>2. f \in [Dias -> 0..2] /\ f[r.hoje] = m
        /\ \A d \in Dias : d # r.hoje => f[d] = enviadas[r.c][d]
    BY <1>1, <1>3, <2>1
  <2>3. Entregue(r) = [enviadas EXCEPT ![r.c] = f]
    BY <1>2, <1>5, <2>1 DEF Entregue
  <2>4. /\ Entregue(r) \in [Alugueis -> [Dias -> 0..2]] /\ Entregue(r)[r.c] = f
        /\ \A c \in Alugueis : c # r.c => Entregue(r)[c] = enviadas[c]
    BY <1>1, <2>2, <2>3
  <2> QED BY <1>1, <1>3, <1>5, <2>2, <2>4
<1> QED BY <1>4, <1>5

LEMMA DispensaType ==
  ASSUME CInv, NEW w \in Carteiros, Dispensa(w)
  PROVE  /\ carteiro' \in [Carteiros -> Carteiro] /\ carteiro'[w].pc = "livre"
         /\ \A v \in Carteiros \ {w} : carteiro'[v] = carteiro[v]
<1>1. PICK v : v = Vago(carteiro[w].c)
  OBVIOUS
<1>2. v \in Carteiro /\ v.pc = "livre"
  BY <1>1, CFields, VagoType
<1>3. carteiro' = [carteiro EXCEPT ![w] = v]
  BY <1>1 DEF Dispensa, CInv, CorreioType
<1> QED BY <1>2, <1>3 DEF CInv, CorreioType

(* A step that touches no worker and no record of a message.               *)
LEMMA AwayC ==
  ASSUME CInv, UNCHANGED correio, dia' \in Dias, dia' >= dia
  PROVE  CInv'
<1> USE DEF correio
<1>1. CorreioType'
  BY DEF CInv, CorreioType
<1>2. Passado'
  BY CFields DEF CInv, Passado, Dias
<1>4. ASSUME NEW c \in Alugueis \ repetivel
      PROVE  Sozinho(c)' /\ Comecou(c)' /\ Lembrada(c)'
  <2>1. Sozinho(c) /\ Comecou(c) /\ Lembrada(c)
    BY DEF CInv
  <2> QED BY <2>1 DEF Sozinho, Comecou, Lembrada, Leva, Marcada, EmMaos
<1>5. \A w \in Carteiros : carteiro'[w].pc = "enviar" => carteiro'[w].n < Mensagens
  BY DEF CInv
<1>6. repetivel' = repetivel
  OBVIOUS
<1> QED BY <1>1, <1>2, <1>4, <1>5, <1>6 DEF CInv

(* A worker lets go of its contract: unless it had sent nothing, somebody  *)
(* may be written to again.                                                *)
LEMMA LargaC ==
  ASSUME CInv, NEW w \in Carteiros, Dispensa(w), carteiro[w].pc # "livre",
         UNCHANGED <<dia, marcada>>,
         repetivel \subseteq repetivel', repetivel' \subseteq Alugueis,
         \/ UNCHANGED enviadas
         \/ /\ carteiro[w].c \in repetivel'
            /\ enviadas' = Entregue(carteiro[w]),
         carteiro[w].n > 0 => carteiro[w].c \in repetivel'
  PROVE  CInv'
<1>1. PICK a : a = carteiro[w].c
  OBVIOUS
<1>2. /\ carteiro' \in [Carteiros -> Carteiro] /\ carteiro'[w].pc = "livre"
      /\ \A v \in Carteiros \ {w} : carteiro'[v] = carteiro[v]
  BY DispensaType
<1>3. /\ enviadas' \in [Alugueis -> [Dias -> 0..2]]
      /\ \A c \in Alugueis : c # a \/ a \notin repetivel' => enviadas'[c] = enviadas[c]
      /\ \A c \in Alugueis, d \in Dias :
           enviadas'[c][d] > 0 => enviadas[c][d] > 0 \/ d = carteiro[w].hoje
  <2>1. CASE UNCHANGED enviadas
    BY <2>1 DEF CInv, CorreioType
  <2>2. CASE a \in repetivel' /\ enviadas' = Entregue(carteiro[w])
    <3>1. PICK r : r = carteiro[w]
      OBVIOUS
    <3>2. r \in Carteiro /\ r.c = a /\ a \in Alugueis /\ r.hoje \in Dias
      BY <1>1, <3>1, CFields
    <3>3. enviadas' = Entregue(r)
      BY <2>2, <3>1
    <3> QED BY <2>2, <3>1, <3>2, <3>3, EntregueType
  <2> QED BY <1>1, <2>1, <2>2
<1>4. CorreioType'
  BY <1>2, <1>3 DEF CInv, CorreioType
<1>5. Passado'
  BY <1>2, <1>3 DEF CInv, Passado
<1>6. ASSUME NEW c \in Alugueis \ repetivel'
      PROVE  Sozinho(c)' /\ Comecou(c)' /\ Lembrada(c)'
  <2>0. enviadas'[c] = enviadas[c] /\ c \in Alugueis \ repetivel
    BY <1>3, <1>6
  <2>1. Sozinho(c)' /\ Comecou(c)'
    BY <1>2, <2>0 DEF CInv, Sozinho, Comecou, Leva
  <2>2. \A d \in Dias : EmMaos(c, d) => EmMaos(c, d)'
    BY <1>1, <1>2, <1>6 DEF EmMaos, Leva
  <2>3. Lembrada(c)'
    BY <2>0, <2>2 DEF CInv, Lembrada, Marcada
  <2> QED BY <2>1, <2>3
<1> QED BY <1>2, <1>4, <1>5, <1>6 DEF CInv

LEMMA ErrosC ==
  ASSUME CInv, NEW w \in Carteiros,
         TransientError(w) \/ PermanentError(w) \/ CarteiroMorre(w)
  PROVE  CInv'
<1>1. carteiro[w].c \in Alugueis /\ repetivel \subseteq Alugueis
  BY CFields DEF CInv, CorreioType
<1>2. CASE TransientError(w)
  <2>1. /\ Dispensa(w) /\ carteiro[w].pc # "livre" /\ UNCHANGED <<dia, marcada>>
        /\ \/ /\ enviadas' = Entregue(carteiro[w])
              /\ repetivel' = repetivel \cup {carteiro[w].c}
           \/ /\ repetivel' = IF carteiro[w].n > 0
                               THEN repetivel \cup {carteiro[w].c} ELSE repetivel
              /\ UNCHANGED enviadas
    BY <1>2 DEF TransientError
  <2>2. /\ repetivel \subseteq repetivel' /\ repetivel' \subseteq Alugueis
        /\ carteiro[w].n > 0 => carteiro[w].c \in repetivel'
    BY <1>1, <2>1
  <2>3. \/ UNCHANGED enviadas
        \/ /\ carteiro[w].c \in repetivel'
           /\ enviadas' = Entregue(carteiro[w])
    BY <2>1
  <2> QED BY <2>1, <2>2, <2>3, LargaC
<1>3. CASE PermanentError(w)
  BY <1>1, <1>3, LargaC DEF PermanentError
<1>4. CASE CarteiroMorre(w)
  BY <1>1, <1>4, LargaC DEF CarteiroMorre, Desocupado
<1> QED BY <1>2, <1>3, <1>4

(* A task begins: nobody else has the contract, or it may be repeated.     *)
LEMMA SendC ==
  ASSUME CInv, NEW w \in Carteiros, NEW k \in Tarefa, SendReminder(w, k)
  PROVE  CInv'
<1>1. PICK c : c = k.c
  OBVIOUS
<1>2. c \in Alugueis /\ k.tent \in 0..MaxTentativas
  BY <1>1 DEF Tarefa
<1>a. /\ carteiro[w].pc = "livre" /\ UNCHANGED <<dia, marcada, enviadas>>
      /\ repetivel' = IF \E v \in Carteiros : Leva(v, c) THEN repetivel \cup {c}
                      ELSE repetivel
  BY <1>1 DEF SendReminder, Desocupado, Leva
<1>3. CASE carteiro' = carteiro
  <2>1. CorreioType'
    BY <1>2, <1>3, <1>a DEF CInv, CorreioType
  <2>3. Passado'
    BY <1>3, <1>a DEF CInv, Passado
  <2>4. ASSUME NEW d \in Alugueis \ repetivel'
        PROVE  Sozinho(d)' /\ Comecou(d)' /\ Lembrada(d)'
    <3>1. Sozinho(d) /\ Comecou(d) /\ Lembrada(d)
      BY <1>a DEF CInv
    <3> QED BY <3>1, <1>3, <1>a DEF Sozinho, Comecou, Lembrada, Leva, Marcada, EmMaos
  <2>5. \A v \in Carteiros : carteiro'[v].pc = "enviar" => carteiro'[v].n < Mensagens
    BY <1>3 DEF CInv
  <2> QED BY <2>1, <2>3, <2>4, <2>5 DEF CInv
<1>4. CASE ~JaAvisado(c) /\ carteiro' = [carteiro EXCEPT ![w] =
             [pc |-> "enviar", c |-> c, tent |-> k.tent, n |-> 0, hoje |-> dia]]
  <2>0. PICK r : r = [pc |-> "enviar", c |-> c, tent |-> k.tent, n |-> 0, hoje |-> dia]
    OBVIOUS
  <2>1. r \in Carteiro /\ r.pc = "enviar" /\ r.c = c /\ r.n = 0 /\ r.hoje = dia
    BY <2>0, <1>2, CFields, Constantes DEF Carteiro
  <2>2. /\ carteiro' \in [Carteiros -> Carteiro] /\ carteiro'[w] = r
        /\ \A v \in Carteiros \ {w} : carteiro'[v] = carteiro[v]
    BY <2>0, <2>1, <1>4 DEF CInv, CorreioType
  <2>3. CorreioType'
    BY <1>2, <1>a, <2>2 DEF CInv, CorreioType
  <2>4. Passado'
    BY <1>a, <2>1, <2>2, CFields DEF CInv, Passado
  <2>5. ASSUME NEW x \in Alugueis \ repetivel'
        PROVE  Sozinho(x)' /\ Comecou(x)' /\ Lembrada(x)'
    <3>0. x \in Alugueis \ repetivel /\ Sozinho(x) /\ Comecou(x) /\ Lembrada(x)
      BY <1>a, <2>5 DEF CInv
    <3>1. x = c => \A v \in Carteiros : ~Leva(v, x)
      BY <1>a, <2>5
    <3>2. Sozinho(x)'
      BY <3>0, <3>1, <2>1, <2>2 DEF Sozinho, Leva
    <3>3. x = c => enviadas[x][dia] = 0
      <4> SUFFICES ASSUME x = c, enviadas[x][dia] # 0 PROVE FALSE
        OBVIOUS
      <4>1. enviadas[x][dia] = 1
        BY <3>0, CFields DEF Lembrada
      <4>2. Marcada(x, dia)
        BY <4>1, <3>0, <3>1, CFields DEF Lembrada, EmMaos
      <4>3. marcada[x] = dia
        BY <4>2, CFields DEF Marcada, CInv, Passado
      <4> QED BY <4>3, <1>4 DEF JaAvisado
    <3>4. \A d \in Dias : d > dia => enviadas[x][d] = 0
      BY CFields DEF CInv, Passado
    <3>5. Comecou(x)'
      BY <3>0, <3>3, <3>4, <1>a, <2>1, <2>2 DEF Comecou, Leva
    <3>6. \A d \in Dias : EmMaos(x, d) => EmMaos(x, d)'
      BY <1>a, <2>2 DEF EmMaos, Leva
    <3>7. Lembrada(x)'
      BY <3>0, <3>6, <1>a DEF Lembrada, Marcada
    <3> QED BY <3>2, <3>5, <3>7
  <2> QED BY <2>1, <2>2, <2>3, <2>4, <2>5, Constantes DEF CInv
<1> QED BY <1>1, <1>3, <1>4 DEF SendReminder

(* A message goes out: the first one makes the day's reminder.             *)
LEMMA TextC ==
  ASSUME CInv, NEW w \in Carteiros, SendText(w)
  PROVE  CInv'
<1>1. PICK r : r = carteiro[w]
  OBVIOUS
<1>2. /\ r \in Carteiro /\ r.c \in Alugueis /\ r.hoje \in Dias /\ r.pc = "enviar"
      /\ r.n \in 0..Mensagens /\ r.n < Mensagens /\ Mensagens \in Nat
      /\ r.tent \in 0..MaxTentativas /\ r.hoje <= dia
      /\ UNCHANGED <<dia, marcada, repetivel>>
  BY <1>1, CFields, Constantes DEF SendText, CInv, Passado
<1>3. PICK q : q = [r EXCEPT !.n = @ + 1,
                             !.pc = IF r.n + 1 = Mensagens THEN "marcar" ELSE "enviar"]
  OBVIOUS
<1>4. /\ q \in Carteiro /\ q.c = r.c /\ q.hoje = r.hoje /\ q.n = r.n + 1
      /\ q.pc \in {"marcar", "enviar"} /\ (q.pc = "enviar" => q.n < Mensagens)
  <2>1. PICK pc : pc = IF r.n + 1 = Mensagens THEN "marcar" ELSE "enviar"
    OBVIOUS
  <2>2. /\ pc \in {"marcar", "enviar"} /\ (pc = "enviar" => r.n + 1 < Mensagens)
        /\ r.n + 1 \in 0..Mensagens
    BY <1>2, <2>1
  <2>3. q = [r EXCEPT !.n = r.n + 1, !.pc = pc]
    BY <1>3, <2>1
  <2> QED BY <1>2, <2>2, <2>3 DEF Carteiro
<1>5. carteiro' = [carteiro EXCEPT ![w] = q]
  BY <1>1, <1>2, <1>3 DEF SendText, CInv, CorreioType, Carteiro
<1>6. /\ carteiro' \in [Carteiros -> Carteiro] /\ carteiro'[w] = q
      /\ \A v \in Carteiros \ {w} : carteiro'[v] = carteiro[v]
  BY <1>4, <1>5 DEF CInv, CorreioType
<1>7. /\ enviadas' \in [Alugueis -> [Dias -> 0..2]]
      /\ \A c \in Alugueis, d \in Dias :
           (c # r.c \/ d # r.hoje \/ r.n > 0) => enviadas'[c][d] = enviadas[c][d]
      /\ (r.n = 0 /\ enviadas[r.c][r.hoje] = 0) => enviadas'[r.c][r.hoje] = 1
  <2>1. enviadas' = Entregue(r)
    BY <1>1 DEF SendText
  <2> QED BY <1>2, <2>1, EntregueType
<1>8. CorreioType'
  BY <1>2, <1>6, <1>7 DEF CInv, CorreioType
<1>9. Passado'
  BY <1>2, <1>4, <1>6, <1>7 DEF CInv, Passado
<1>10. ASSUME NEW c \in Alugueis \ repetivel
       PROVE  Sozinho(c)' /\ Comecou(c)' /\ Lembrada(c)'
  <2>0. Sozinho(c) /\ Comecou(c) /\ Lembrada(c)
    BY DEF CInv
  <2>1. \A v \in Carteiros : Leva(v, c)' <=> Leva(v, c)
    BY <1>1, <1>2, <1>4, <1>6 DEF Leva
  <2>2. Sozinho(c)'
    BY <2>0, <2>1 DEF Sozinho
  <2>3. CASE c # r.c
    <3>1. \A d \in Dias : enviadas'[c][d] = enviadas[c][d]
      BY <2>3, <1>7
    <3>2. \A v \in Carteiros : Leva(v, c) => carteiro'[v] = carteiro[v]
      BY <2>3, <1>1, <1>6 DEF Leva
    <3>3. Comecou(c)'
      BY <2>0, <2>1, <3>1, <3>2, CFields DEF Comecou
    <3>4. Lembrada(c)'
      BY <2>0, <2>1, <3>1, <3>2, <1>2 DEF Lembrada, Marcada, EmMaos
    <3> QED BY <2>2, <3>3, <3>4
  <2>4. CASE c = r.c
    <3>1. Leva(w, c) /\ \A v \in Carteiros : Leva(v, c) => v = w
      BY <2>0, <2>4, <1>1, <1>2 DEF Leva, Sozinho
    <3>2. /\ r.n = 0 => enviadas[c][r.hoje] = 0
          /\ \A d \in Dias : d > r.hoje => enviadas[c][d] = 0
      BY <2>0, <3>1, <1>1 DEF Comecou
    <3>3. Comecou(c)'
      BY <2>1, <2>4, <3>1, <3>2, <1>2, <1>4, <1>6, <1>7, CFields DEF Comecou
    <3>4. EmMaos(c, r.hoje)'
      BY <2>1, <3>1, <1>2, <1>4, <1>6 DEF EmMaos
    <3>5. \A d \in Dias : enviadas'[c][d] <= 1
      BY <2>0, <2>4, <3>2, <1>2, <1>7, CFields DEF Lembrada
    <3>6. \A d \in Dias \ {r.hoje} : EmMaos(c, d) => EmMaos(c, d)'
      BY <3>1, <1>1 DEF EmMaos
    <3>7. Lembrada(c)'
      BY <2>0, <2>4, <3>4, <3>5, <3>6, <1>2, <1>7 DEF Lembrada, Marcada
    <3> QED BY <2>2, <3>3, <3>7
  <2> QED BY <2>3, <2>4
<1> QED BY <1>2, <1>4, <1>6, <1>8, <1>9, <1>10 DEF CInv

(* The day is noted: it covers every day a message was sent for.           *)
LEMMA MarkC ==
  ASSUME CInv, NEW w \in Carteiros, MarkTelegramSent(w)
  PROVE  CInv'
<1>1. PICK r : r = carteiro[w]
  OBVIOUS
<1>2. /\ r.c \in Alugueis /\ r.hoje \in Dias /\ r.hoje <= dia /\ r.pc = "marcar"
      /\ marcada' = [marcada EXCEPT ![r.c] = r.hoje]
      /\ UNCHANGED <<dia, enviadas, repetivel>>
  BY <1>1, CFields DEF MarkTelegramSent, CInv, Passado
<1>3. /\ carteiro' \in [Carteiros -> Carteiro] /\ carteiro'[w].pc = "livre"
      /\ \A v \in Carteiros \ {w} : carteiro'[v] = carteiro[v]
  BY DispensaType DEF MarkTelegramSent
<1>4. CorreioType'
  BY <1>2, <1>3 DEF CInv, CorreioType
<1>5. Passado'
  BY <1>2, <1>3, CFields DEF CInv, CorreioType, Passado
<1>6. ASSUME NEW c \in Alugueis \ repetivel
      PROVE  Sozinho(c)' /\ Comecou(c)' /\ Lembrada(c)'
  <2>0. Sozinho(c) /\ Comecou(c) /\ Lembrada(c)
    BY DEF CInv
  <2>1. Sozinho(c)' /\ Comecou(c)'
    BY <2>0, <1>2, <1>3 DEF Sozinho, Comecou, Leva
  <2>2. CASE c # r.c
    <3>1. marcada'[c] = marcada[c]
      BY <2>2, <1>2 DEF CInv, CorreioType
    <3>2. \A d \in Dias : EmMaos(c, d) => EmMaos(c, d)'
      BY <2>2, <1>1, <1>3 DEF EmMaos, Leva
    <3> QED BY <2>0, <2>1, <3>1, <3>2, <1>2 DEF Lembrada, Marcada
  <2>3. CASE c = r.c
    <3>1. marcada'[c] = r.hoje
      BY <2>3, <1>2 DEF CInv, CorreioType
    <3>2. \A d \in Dias : d > r.hoje => enviadas[c][d] = 0
      BY <2>0, <2>3, <1>1, <1>2 DEF Comecou, Leva
    <3>3. \A d \in Dias : enviadas'[c][d] = 1 => Marcada(c, d)'
      BY <3>1, <3>2, <1>2, CFields DEF Marcada
    <3> QED BY <2>0, <2>1, <3>3, <1>2 DEF Lembrada
  <2> QED BY <2>2, <2>3
<1> QED BY <1>2, <1>3, <1>4, <1>5, <1>6 DEF CInv

LEMMA NextC == CInv /\ [LembretesNext]_lembretesVars => CInv'
<1> SUFFICES ASSUME CInv, [LembretesNext]_lembretesVars PROVE CInv'
  OBVIOUS
<1>0. dia \in Dias /\ Dias \subseteq Nat
  BY CFields
<1>1. CASE \/ UNCHANGED lembretesVars \/ Passa
           \/ \E c \in Alugueis : Remarca(c) \/ MudaContrato(c)
           \/ \E t \in Rondas :
                \/ DailyAutomationTick(t) \/ ExpiryPass(t)
                \/ ProcessD3(t) \/ ProcessD0(t) \/ ProcessD1(t) \/ RondaFalha(t)
  <2>1. UNCHANGED <<dia, correio>>
    BY <1>1 DEF lembretesVars, correio, Passa, Remarca, MudaContrato,
       DailyAutomationTick, ExpiryPass, ProcessD3, ProcessD0, ProcessD1, Enfileira,
       RondaFalha
  <2> QED BY <2>1, <1>0, AwayC
<1>2. CASE Meianoite
  <2>1. dia' = dia + 1 /\ dia < MaxDia /\ UNCHANGED correio
    BY <1>2 DEF Meianoite
  <2>2. dia' \in Dias /\ dia' >= dia
    BY <2>1, <1>0, Constantes DEF Dias
  <2> QED BY <2>1, <2>2, AwayC
<1>3. CASE \E w \in Carteiros :
             \/ \E k \in Tarefa : SendReminder(w, k)
             \/ SendText(w) \/ TransientError(w) \/ PermanentError(w)
             \/ MarkTelegramSent(w) \/ CarteiroMorre(w)
  BY <1>3, SendC, TextC, ErrosC, MarkC
<1> QED BY <1>1, <1>2, <1>3 DEF LembretesNext

(* A payer gets one reminder a day, from any number of runs, retries and   *)
(* workers, unless a reminder broke off after its first message or two     *)
(* workers had the contract at once (tasks.py:227-330).                    *)
THEOREM OneReminderADay == LembretesSpec => []LembreteUnico
<1>1. CInv => LembreteUnico
  BY DEF CInv, Lembrada, LembreteUnico
<1> QED BY <1>1, CInit, NextC, PTL DEF LembretesSpec
-----------------------------------------------------------------------------
(* The bot.  Nothing of a message is announced before its last step, and   *)
(* while nobody changes a menu, a customer or an owner, what the handler   *)
(* carries from one database session to the next is what the next would    *)
(* read again.                                                             *)

EtapasSemResposta == {"texto", "comando", "menu", "conversa", "modelo"}
EtapasDeAviso == {"avisar", "consultado"}
Etapas == EtapasSemResposta \cup EtapasDeAviso \cup {"consultar", "fim"}

Mensagem ==
  [pc: Etapas, texto: Falas \cup Barras, barra: BOOLEAN,
   comando: Falas \cup Barras \cup {b.comando : b \in Botoes},
   toque: SUBSET Botoes, bs: SUBSET Botoes, cli: Locadoras \cup {Ninguem}]

BotType == BotTypeOK /\ msg \in Mensagem

(* The button that was touched came from a menu somebody validated.        *)
Tocado ==
  \A b \in msg.toque :
    b.comando = msg.comando /\ (b.resposta <=> b.comando \notin Integrados)

Percurso ==
  /\ Tocado
  /\ msg.pc = "texto" => ~msg.barra /\ msg.bs = {}
  /\ msg.pc \in EtapasSemResposta \ {"comando"} => msg.toque = {}
  /\ msg.pc \in EtapasDeAviso => ~AvisaDepois(msg.toque)
  /\ msg.pc \in EtapasSemResposta => respostas = 0
  /\ msg.pc \notin EtapasSemResposta /\ respostas = 0 => falhou \/ mexeram

Avisado ==
  /\ msg.pc # "fim" => \A o \in Locadoras : avisos[o] = 0
  /\ \A o \in Locadoras : avisos[o] <= 1

(* What holds while nothing was changed under the message.                 *)
Coerente ==
  /\ msg.pc = "comando" =>
       IF msg.barra THEN msg.toque = {} /\ msg.texto = msg.comando
       ELSE \E b \in MenuDe(cliente) :
              msg.toque = {b} /\ b.comando = msg.comando /\ b.rotulo = msg.texto
  /\ msg.pc = "menu" => ~Pediu
  /\ msg.pc \in {"conversa", "modelo"} =>
       msg.bs = {} /\ (Pediu <=> IsContactRequest(msg.texto, {}))
  /\ msg.pc = "modelo" => msg.cli = cliente
  /\ msg.pc = "consultar" => (Pediu <=> IsContactRequest(msg.texto, msg.toque))
  /\ msg.pc \in EtapasDeAviso =>
       msg.cli = cliente /\ (Pediu <=> IsContactRequest(msg.texto, msg.bs))
  /\ msg.pc = "fim" /\ respostas = 1 =>
       \A o \in Locadoras :
         avisos[o] = 1 <=> Pediu /\ o \in OperacoesForNotify(cliente) \cap donoAvisa

BInv == BotType /\ Percurso /\ Avisado /\ (~mexeram => Coerente)

(* Every menu in use was validated.                                        *)
LEMMA MenuValido ==
  ASSUME BotType
  PROVE  /\ MenuDe(cliente) \in Menus /\ MenuDe(cliente) \subseteq Botoes
         /\ \A a, b \in MenuDe(cliente) :
              a.rotulo = b.rotulo \/ a.comando = b.comando => a = b
         /\ \A b \in MenuDe(cliente) : b.resposta <=> b.comando \notin Integrados
<1>1. MenuDe(cliente) \in Menus
  BY BotConstants DEF BotType, BotTypeOK, MenuDe
<1> QED BY <1>1 DEF Menus, ValidateMenu

LEMMA BInit == BotInit => BInv
<1> SUFFICES ASSUME BotInit PROVE BInv
  OBVIOUS
<1>1. PICK t \in Falas :
        msg = [pc |-> "fim", texto |-> t, barra |-> FALSE, comando |-> t,
               toque |-> {}, bs |-> {}, cli |-> Ninguem]
  BY BotConstants DEF BotInit
<1>2. msg \in Mensagem
  BY <1>1 DEF Mensagem, Etapas
<1>3. BotTypeOK
  <2>1. /\ menus \in [Locadoras -> Menus] /\ donoAvisa \subseteq Locadoras
        /\ cliente \in Locadoras \cup {Ninguem}
    BY BotConstants DEF BotInit
  <2>2. respostas \in 0..1 /\ mexeram \in BOOLEAN /\ falhou \in BOOLEAN
    <3>1. respostas = 1
      BY DEF BotInit
    <3>2. mexeram \in BOOLEAN /\ falhou \in BOOLEAN
      BY Zenon DEF BotInit
    <3> QED BY <3>1, <3>2
  <2>3. avisos \in [Locadoras -> Nat]
    BY DEF BotInit
  <2>4. msg.pc = "fim" /\ {msg.toque, msg.bs} \subseteq SUBSET Botoes
    BY <1>1
  <2> QED BY <2>1, <2>2, <2>3, <2>4 DEF BotTypeOK
<1> QED BY <1>1, <1>2, <1>3
       DEF BInv, BotInit, BotType, Percurso, Tocado, Avisado, EtapasSemResposta,
           EtapasDeAviso

(* A step of the message's handler: neither the message nor what the       *)
(* owners saved changes, so what it asks for does not either.              *)
MesmaMensagem ==
  UNCHANGED cadastro /\ msg'.texto = msg.texto /\ msg'.barra = msg.barra

LEMMA PediuIgual ==
  ASSUME MesmaMensagem
  PROVE  /\ Pediu' <=> Pediu
         /\ MenuDe(cliente)' = MenuDe(cliente)
         /\ OperacoesForNotify(cliente)' = OperacoesForNotify(cliente)
BY DEF MesmaMensagem, cadastro, Pediu, MenuDe, BotaoDe, OperacoesForNotify

(* The two parts of the invariant such a step has to keep.                 *)
LEMMA PassoInv ==
  ASSUME BInv, UNCHANGED cadastro, mexeram' = mexeram,
         msg' \in Mensagem, respostas' \in 0..1, falhou' \in BOOLEAN,
         avisos' \in [Locadoras -> Nat],
         Percurso', Avisado', ~mexeram => Coerente'
  PROVE  BInv'
<1>1. BotTypeOK'
  BY DEF BInv, BotType, BotTypeOK, cadastro, Mensagem, Etapas, EtapasSemResposta,
         EtapasDeAviso
<1> QED BY <1>1 DEF BInv, BotType

LEMMA Fatos ==
  ASSUME BInv
  PROVE  /\ msg \in Mensagem /\ respostas \in 0..1 /\ falhou \in BOOLEAN
         /\ mexeram \in BOOLEAN /\ avisos \in [Locadoras -> Nat]
         /\ cliente \in Locadoras \cup {Ninguem}
         /\ Percurso /\ Avisado /\ (~mexeram => Coerente)
BY DEF BInv, BotType, BotTypeOK

(* The reply failed: the message is over without one.                      *)
LEMMA FalhaInv ==
  ASSUME BInv, msg.pc \in EtapasSemResposta,
         falhou' = TRUE, Fim, UNCHANGED <<respostas, cadastro, avisos, mexeram>>
  PROVE  BInv'
<1>1. /\ msg \in Mensagem /\ respostas = 0 /\ Avisado /\ Percurso
      /\ respostas' \in 0..1 /\ avisos' \in [Locadoras -> Nat]
  BY Fatos DEF Percurso
<1>2. msg' = [msg EXCEPT !.pc = "fim"] /\ msg' \in Mensagem
  BY <1>1 DEF Fim, Segue, Mensagem, Etapas
<1>3. msg'.pc = "fim" /\ msg'.toque = msg.toque /\ msg'.comando = msg.comando
  BY <1>1, <1>2 DEF Mensagem
<1>4. Percurso'
  BY <1>1, <1>3 DEF Percurso, Tocado, EtapasSemResposta, EtapasDeAviso
<1>5. Avisado'
  BY <1>1, <1>3 DEF Avisado
<1>6. Coerente'
  BY <1>1, <1>3 DEF Coerente, EtapasDeAviso
<1> QED BY <1>1, <1>2, <1>4, <1>5, <1>6, PassoInv

(* A handler goes on with a message r that asks for the same thing and     *)
(* knows whom to tell, if anybody.                                         *)
SabeQuem(r) ==
  /\ r.pc = "fim" => ~Pediu
  /\ r.pc = "consultar" => (Pediu <=> IsContactRequest(msg.texto, r.toque))
  /\ r.pc \in EtapasDeAviso =>
       r.cli = cliente /\ (Pediu <=> IsContactRequest(msg.texto, r.bs))

LEMMA RespostaInv ==
  ASSUME BInv, msg.pc \in EtapasSemResposta,
         NEW r \in Mensagem, ReplyText(r),
         r.texto = msg.texto, r.barra = msg.barra, r.comando = msg.comando,
         r.toque = msg.toque, r.pc \notin EtapasSemResposta,
         r.pc \in EtapasDeAviso => ~AvisaDepois(r.toque),
         ~mexeram => SabeQuem(r)
  PROVE  BInv'
<1>1. CASE falhou' = TRUE /\ Fim /\ UNCHANGED <<respostas, cadastro, avisos, mexeram>>
  BY <1>1, FalhaInv
<1>2. CASE /\ respostas' = respostas + 1 /\ msg' = r
           /\ UNCHANGED <<falhou, cadastro, avisos, mexeram>>
  <2>1. /\ msg \in Mensagem /\ respostas = 0 /\ respostas' = 1
        /\ Avisado /\ Percurso /\ falhou' \in BOOLEAN
        /\ avisos' \in [Locadoras -> Nat] /\ cliente' = cliente
        /\ \A o \in Locadoras : avisos'[o] = 0
    BY <1>2, Fatos DEF Percurso, cadastro, Avisado, EtapasSemResposta
  <2>2. Percurso'
    <3>1. Tocado'
      BY <1>2, <2>1 DEF Percurso, Tocado
    <3> QED BY <1>2, <2>1, <3>1 DEF Percurso, EtapasSemResposta
  <2>3. Avisado'
    BY <2>1 DEF Avisado
  <2>4. ASSUME ~mexeram PROVE Coerente'
    <3>1. MesmaMensagem
      BY <1>2 DEF MesmaMensagem
    <3>2. Pediu' <=> Pediu
      BY <3>1, PediuIgual
    <3>3. SabeQuem(r)
      BY <2>4
    <3>4. msg'.pc \in {"consultar", "fim"} \cup EtapasDeAviso
      BY <1>2 DEF Mensagem, Etapas
    <3>5. CASE msg'.pc = "fim"
      BY <1>2, <2>1, <3>2, <3>3, <3>5 DEF SabeQuem, Coerente, EtapasDeAviso
    <3>6. CASE msg'.pc = "consultar"
      BY <1>2, <2>1, <3>2, <3>3, <3>6 DEF SabeQuem, Coerente, EtapasDeAviso
    <3>7. CASE msg'.pc \in EtapasDeAviso
      BY <1>2, <2>1, <3>2, <3>3, <3>7 DEF SabeQuem, Coerente, EtapasDeAviso
    <3> QED BY <3>4, <3>5, <3>6, <3>7
  <2> QED BY <1>2, <2>1, <2>2, <2>3, <2>4, PassoInv
<1> QED BY <1>1, <1>2 DEF ReplyText

(* The same without a reply.                                               *)
LEMMA SegueInv ==
  ASSUME BInv, NEW r \in Mensagem, msg' = r,
         UNCHANGED <<cadastro, respostas, avisos, mexeram, falhou>>,
         msg.pc # "fim", MesmaMensagem,
         Percurso', ~mexeram => Coerente'
  PROVE  BInv'
<1>1. /\ respostas' \in 0..1 /\ falhou' \in BOOLEAN /\ Avisado
      /\ avisos' \in [Locadoras -> Nat]
  BY Fatos
<1>2. Avisado'
  BY <1>1 DEF Avisado
<1> QED BY <1>1, <1>2, PassoInv

LEMMA RecebeInv ==
  ASSUME BInv, NEW texto \in Falas \cup Barras, NEW barra \in BOOLEAN,
         Recebe(texto, barra)
  PROVE  BInv'
<1>1. msg' = [pc |-> IF barra THEN "comando" ELSE "texto", texto |-> texto,
              barra |-> barra, comando |-> texto, toque |-> {}, bs |-> {},
              cli |-> Ninguem]
  BY DEF Recebe
<1>2. /\ msg' \in Mensagem /\ msg'.pc \in {"comando", "texto"}
      /\ msg'.pc = "comando" <=> barra
      /\ msg'.barra = barra /\ msg'.toque = {} /\ msg'.bs = {}
      /\ msg'.texto = msg'.comando
  BY <1>1 DEF Mensagem, Etapas, EtapasSemResposta
<1>3. /\ respostas' = 0 /\ \A o \in Locadoras : avisos'[o] = 0
      /\ avisos' \in [Locadoras -> Nat] /\ falhou' \in BOOLEAN
      /\ mexeram' \in BOOLEAN /\ UNCHANGED cadastro
  BY DEF Recebe
<1>4. Percurso'
  BY <1>2, <1>3 DEF Percurso, Tocado, EtapasSemResposta, EtapasDeAviso
<1>5. Avisado'
  BY <1>3 DEF Avisado
<1>6. Coerente'
  BY <1>2, <1>3 DEF Coerente, EtapasDeAviso
<1>7. BotTypeOK'
  BY <1>2, <1>3 DEF BInv, BotType, BotTypeOK, cadastro, Mensagem, Etapas
<1> QED BY <1>2, <1>4, <1>5, <1>6, <1>7 DEF BInv, BotType

LEMMA HandleTextInv ==
  ASSUME BInv, HandleText
  PROVE  BInv'
<1> DEFINE tocado == {b \in MenuDe(cliente) : b.rotulo = msg.texto}
<1>1. /\ msg.pc = "texto" /\ msg \in Mensagem /\ ~msg.barra /\ msg.bs = {}
      /\ msg.toque = {} /\ respostas = 0 /\ respostas' = 0
      /\ UNCHANGED <<cadastro, respostas, avisos, mexeram, falhou>>
      /\ cliente' = cliente
  BY Fatos DEF HandleText, Percurso, EtapasSemResposta, cadastro
<1>2. /\ MenuDe(cliente) \subseteq Botoes
      /\ \A a, b \in MenuDe(cliente) : a.rotulo = b.rotulo => a = b
      /\ \A b \in MenuDe(cliente) : b.resposta <=> b.comando \notin Integrados
  BY MenuValido DEF BInv
<1>3. ASSUME NEW b \in tocado,
             msg' = [msg EXCEPT !.pc = "comando", !.comando = b.comando, !.toque = {b}]
      PROVE  BInv'
  <2>1. /\ msg' \in Mensagem /\ msg'.pc = "comando" /\ msg'.comando = b.comando
        /\ msg'.toque = {b} /\ msg'.texto = msg.texto /\ msg'.barra = msg.barra
    BY <1>1, <1>2, <1>3 DEF Mensagem, Etapas, EtapasSemResposta
  <2>2. MesmaMensagem
    BY <1>1, <2>1 DEF MesmaMensagem
  <2>3. MenuDe(cliente)' = MenuDe(cliente)
    BY <2>2, PediuIgual
  <2>4. Tocado'
    BY <1>2, <2>1 DEF Tocado
  <2>5. Percurso'
    BY <1>1, <2>1, <2>4 DEF Percurso, EtapasSemResposta, EtapasDeAviso
  <2>6. Coerente'
    <3>1. b \in MenuDe(cliente)' /\ b.rotulo = msg'.texto
      BY <2>1, <2>3
    <3> QED BY <1>1, <2>1, <3>1 DEF Coerente, EtapasDeAviso
  <2> QED BY <1>1, <2>1, <2>2, <2>5, <2>6, SegueInv
<1>4. ASSUME tocado = {},
             Segue(IF msg.texto \in PedemMenu THEN "menu" ELSE "conversa")
      PROVE  BInv'
  <2>1. /\ msg' \in Mensagem
        /\ msg'.pc = IF msg.texto \in PedemMenu THEN "menu" ELSE "conversa"
        /\ msg'.toque = {} /\ msg'.bs = {}
        /\ msg'.texto = msg.texto /\ msg'.barra = msg.barra
    BY <1>1, <1>4 DEF Segue, Mensagem, Etapas, EtapasSemResposta
  <2>2. MesmaMensagem
    BY <1>1, <2>1 DEF MesmaMensagem
  <2>3. Pediu <=> msg.texto \notin PedemMenu /\ IsContactRequest(msg.texto, {})
    BY <1>1, <1>4 DEF Pediu
  <2>4. Pediu' <=> Pediu
    BY <2>2, PediuIgual
  <2>5. Percurso'
    BY <1>1, <2>1 DEF Percurso, Tocado, EtapasSemResposta, EtapasDeAviso
  <2>6. Coerente'
    BY <2>1, <2>3, <2>4 DEF Coerente, EtapasDeAviso
  <2> QED BY <1>1, <2>1, <2>2, <2>5, <2>6, SegueInv
<1> HIDE DEF tocado
<1>5. \/ \E b \in tocado :
           msg' = [msg EXCEPT !.pc = "comando", !.comando = b.comando, !.toque = {b}]
      \/ tocado = {} /\ Segue(IF msg.texto \in PedemMenu THEN "menu" ELSE "conversa")
  BY DEF HandleText, tocado
<1> QED BY <1>3, <1>4, <1>5

(* The built-in commands: they announce nothing themselves.                *)
LEMMA ComandoInv ==
  ASSUME BInv, NEW c \in Integrados, Comando(c)
  PROVE  BInv'
<1> DEFINE r == [msg EXCEPT !.pc = Depois]
<1>1. /\ msg \in Mensagem /\ msg.pc = "comando" /\ msg.comando \in Integrados
      /\ ReplyText(r) /\ Tocado
  BY Fatos DEF Comando, Percurso
<1>2. Depois \in {"consultar", "fim"}
  BY DEF Depois
<1>3. /\ r \in Mensagem /\ r.pc = Depois
      /\ r.texto = msg.texto /\ r.barra = msg.barra
      /\ r.comando = msg.comando /\ r.toque = msg.toque
  BY <1>1, <1>2 DEF Mensagem, Etapas
<1>4. ASSUME ~mexeram PROVE SabeQuem(r)
  <2>1. /\ MenuDe(cliente) \subseteq Botoes
        /\ \A a, b \in MenuDe(cliente) :
             a.rotulo = b.rotulo \/ a.comando = b.comando => a = b
        /\ \A b \in MenuDe(cliente) : b.resposta <=> b.comando \notin Integrados
    BY MenuValido DEF BInv
  <2>2. CASE msg.barra
    <3>1. msg.toque = {} /\ msg.texto = msg.comando
      BY <1>1, <1>4, <2>2, Fatos DEF Coerente
    <3>2. Depois = "fim"
      BY <3>1 DEF Depois, AvisaDepois
    <3>3. ~Pediu
      BY <1>1, <2>1, <2>2, <3>1 DEF Pediu, BotaoDe
    <3> QED BY <1>3, <3>2, <3>3 DEF SabeQuem, EtapasDeAviso
  <2>3. CASE ~msg.barra
    <3>1. PICK b \in MenuDe(cliente) :
            msg.toque = {b} /\ b.comando = msg.comando /\ b.rotulo = msg.texto
      BY <1>1, <1>4, <2>3, Fatos DEF Coerente
    <3>2. ~b.resposta
      BY <1>1, <2>1, <3>1
    <3>3. Depois = "consultar"
      BY <3>1, <3>2 DEF Depois, AvisaDepois
    <3>4. {x \in MenuDe(cliente) : x.rotulo = msg.texto} = {b}
      BY <2>1, <3>1
    <3>5. Pediu <=> IsContactRequest(msg.texto, {b})
      BY <2>3, <3>4 DEF Pediu
    <3> QED BY <1>3, <3>1, <3>3, <3>5 DEF SabeQuem, EtapasDeAviso
  <2> QED BY <2>2, <2>3
<1> HIDE DEF r
<1> QED BY <1>1, <1>2, <1>3, <1>4, RespostaInv DEF EtapasSemResposta, EtapasDeAviso

LEMMA MenuInv ==
  ASSUME BInv, SendMenu
  PROVE  BInv'
<1>1. CASE Comando("menu")
  BY <1>1, ComandoInv DEF Integrados
<1>2. CASE msg.pc = "menu" /\ ReplyText([msg EXCEPT !.pc = "fim"])
  <2> DEFINE r == [msg EXCEPT !.pc = "fim"]
  <2>1. msg \in Mensagem /\ (~mexeram => ~Pediu)
    BY <1>2, Fatos DEF Coerente
  <2>2. /\ r \in Mensagem /\ r.pc = "fim" /\ r.texto = msg.texto
        /\ r.barra = msg.barra /\ r.comando = msg.comando /\ r.toque = msg.toque
    BY <2>1 DEF Mensagem, Etapas
  <2>3. ~mexeram => SabeQuem(r)
    BY <2>1, <2>2 DEF SabeQuem, EtapasDeAviso
  <2> HIDE DEF r
  <2> QED BY <1>2, <2>2, <2>3, RespostaInv DEF EtapasSemResposta, EtapasDeAviso, r
<1> QED BY <1>1, <1>2 DEF SendMenu

(* A command of the owner's.  If its button is gone, the menu was changed. *)
LEMMA DispatchInv ==
  ASSUME BInv, DispatchMenuCommand
  PROVE  BInv'
<1> DEFINE achado == BotaoDe(MenuDe(cliente), msg.comando)
<1>1. /\ msg \in Mensagem /\ msg.pc = "comando" /\ msg.comando \notin Integrados
      /\ Percurso /\ Tocado /\ respostas = 0 /\ (~mexeram => Coerente)
      /\ cliente \in Locadoras \cup {Ninguem}
  BY Fatos DEF DispatchMenuCommand, Percurso, EtapasSemResposta
<1>2. /\ achado \subseteq Botoes
      /\ \A a, b \in MenuDe(cliente) :
           a.rotulo = b.rotulo \/ a.comando = b.comando => a = b
      /\ \A b \in MenuDe(cliente) : b.resposta <=> b.comando \notin Integrados
      /\ \A b \in achado : b \in MenuDe(cliente) /\ b.comando = msg.comando
  BY MenuValido DEF BInv, BotaoDe
<1>3. ~AvisaDepois(msg.toque) /\ Depois = "fim"
  BY <1>1 DEF Tocado, AvisaDepois, Depois
<1>4. ASSUME ~mexeram, ~msg.barra
      PROVE  \E b \in achado : b.resposta /\ msg.toque = {b} /\ b.rotulo = msg.texto
  <2>1. PICK b \in MenuDe(cliente) :
          msg.toque = {b} /\ b.comando = msg.comando /\ b.rotulo = msg.texto
    BY <1>1, <1>4 DEF Coerente
  <2>2. b \in achado /\ b.resposta
    BY <1>1, <1>2, <2>1 DEF BotaoDe
  <2> QED BY <2>1, <2>2
<1> HIDE DEF achado
<1>5. ASSUME NEW b \in achado, b.resposta,
             ReplyText([msg EXCEPT !.pc = "avisar", !.bs = {b}, !.cli = cliente])
      PROVE  BInv'
  <2> DEFINE r == [msg EXCEPT !.pc = "avisar", !.bs = {b}, !.cli = cliente]
  <2>1. /\ r \in Mensagem /\ r.pc = "avisar" /\ r.bs = {b} /\ r.cli = cliente
        /\ r.texto = msg.texto /\ r.barra = msg.barra
        /\ r.comando = msg.comando /\ r.toque = msg.toque
    BY <1>1, <1>2, ZenonT(40) DEF Mensagem, Etapas, EtapasDeAviso
  <2>2. ASSUME ~mexeram PROVE Pediu <=> IsContactRequest(msg.texto, {b})
    <3>1. CASE msg.barra
      <4>1. msg.texto = msg.comando
        BY <1>1, <2>2, <3>1 DEF Coerente
      <4>2. \A x \in BotaoDe(MenuDe(cliente), msg.texto) : x = b
        BY <1>2, <4>1 DEF BotaoDe
      <4>3. b \in BotaoDe(MenuDe(cliente), msg.texto)
        BY <1>2, <4>1 DEF BotaoDe
      <4> QED BY <1>5, <3>1, <4>2, <4>3 DEF Pediu
    <3>2. CASE ~msg.barra
      <4>1. PICK x \in achado : msg.toque = {x} /\ x.rotulo = msg.texto
        BY <1>4, <2>2, <3>2
      <4>2. x = b
        BY <1>2, <4>1
      <4>3. {y \in MenuDe(cliente) : y.rotulo = msg.texto} = {b}
        BY <1>2, <4>1, <4>2
      <4> QED BY <3>2, <4>3 DEF Pediu
    <3> QED BY <3>1, <3>2
  <2>3. ~mexeram => SabeQuem(r)
    BY <2>1, <2>2 DEF SabeQuem
  <2>4. ~AvisaDepois(r.toque)
    BY <1>3, <2>1
  <2>5. ReplyText(r)
    BY <1>5
  <2> HIDE DEF r
  <2> QED BY <1>1, <2>1, <2>3, <2>4, <2>5, RespostaInv
         DEF EtapasSemResposta, EtapasDeAviso
<1>6. ASSUME ~\E b \in achado : b.resposta, msg.barra,
             ReplyText([msg EXCEPT !.pc = "fim"])
      PROVE  BInv'
  <2> DEFINE r == [msg EXCEPT !.pc = "fim"]
  <2>1. /\ r \in Mensagem /\ r.pc = "fim" /\ r.texto = msg.texto
        /\ r.barra = msg.barra /\ r.comando = msg.comando /\ r.toque = msg.toque
    BY <1>1 DEF Mensagem, Etapas
  <2>2. ASSUME ~mexeram PROVE ~Pediu
    <3>1. msg.texto = msg.comando
      BY <1>1, <1>6, <2>2 DEF Coerente
    <3> QED BY <1>6, <3>1 DEF Pediu, achado
  <2>3. ~mexeram => SabeQuem(r)
    BY <2>1, <2>2 DEF SabeQuem, EtapasDeAviso
  <2>4. ReplyText(r)
    BY <1>6
  <2> HIDE DEF r
  <2> QED BY <1>1, <2>1, <2>3, <2>4, RespostaInv
         DEF EtapasSemResposta, EtapasDeAviso
<1>7. ASSUME ~\E b \in achado : b.resposta, ~msg.barra, Segue(Depois),
             UNCHANGED <<cadastro, respostas, avisos, mexeram, falhou>>
      PROVE  BInv'
  <2>1. mexeram
    BY <1>4, <1>7
  <2>2. /\ msg' \in Mensagem /\ msg'.pc = "fim" /\ msg'.texto = msg.texto
        /\ msg'.barra = msg.barra /\ msg'.comando = msg.comando
        /\ msg'.toque = msg.toque
    BY <1>1, <1>3, <1>7 DEF Segue, Mensagem, Etapas
  <2>3. MesmaMensagem
    BY <1>7, <2>2 DEF MesmaMensagem
  <2>4. Percurso'
    BY <1>1, <1>7, <2>1, <2>2
       DEF Percurso, Tocado, EtapasSemResposta, EtapasDeAviso
  <2> QED BY <1>1, <1>7, <2>1, <2>2, <2>3, <2>4, SegueInv
<1> QED BY <1>5, <1>6, <1>7 DEF DispatchMenuCommand, achado

(* Speech: the customer is looked up before the answer is looked for.      *)
LEMMA ConversaInv ==
  ASSUME BInv, AiReply \/ ContextualReply
  PROVE  BInv'
<1>1. /\ msg \in Mensagem /\ msg.pc \in {"conversa", "modelo"}
      /\ msg.toque = {} /\ respostas = 0 /\ cliente \in Locadoras \cup {Ninguem}
      /\ ~mexeram => Coerente
  BY Fatos DEF AiReply, ContextualReply, Percurso, EtapasSemResposta
<1>2. ~AvisaDepois(msg.toque)
  BY <1>1 DEF AvisaDepois
<1>3. ASSUME NEW r \in Mensagem, r.pc = "avisar", ReplyText(r), r.bs = msg.bs,
             r.texto = msg.texto, r.barra = msg.barra, r.comando = msg.comando,
             r.toque = msg.toque, ~mexeram => r.cli = cliente
      PROVE  BInv'
  <2>1. ~mexeram => SabeQuem(r)
    BY <1>1, <1>3 DEF SabeQuem, Coerente
  <2> QED BY <1>1, <1>2, <1>3, <2>1, RespostaInv
         DEF EtapasSemResposta, EtapasDeAviso
<1>4. CASE msg.pc = "conversa" /\ ReplyText([msg EXCEPT !.pc = "avisar", !.cli = cliente])
  <2> DEFINE r == [msg EXCEPT !.pc = "avisar", !.cli = cliente]
  <2>1. /\ r \in Mensagem /\ r.pc = "avisar" /\ r.bs = msg.bs
        /\ r.texto = msg.texto /\ r.barra = msg.barra /\ r.comando = msg.comando
        /\ r.toque = msg.toque /\ r.cli = cliente
    BY <1>1 DEF Mensagem, Etapas, EtapasDeAviso
  <2>2. ReplyText(r)
    BY <1>4
  <2> HIDE DEF r
  <2> QED BY <1>3, <2>1, <2>2
<1>5. CASE /\ msg.pc = "conversa"
           /\ msg' = [msg EXCEPT !.pc = "modelo", !.cli = cliente]
           /\ UNCHANGED <<cadastro, respostas, avisos, mexeram, falhou>>
  <2>1. /\ msg' \in Mensagem /\ msg'.pc = "modelo" /\ msg'.bs = msg.bs
        /\ msg'.texto = msg.texto /\ msg'.barra = msg.barra
        /\ msg'.toque = {} /\ msg'.cli = cliente /\ cliente' = cliente
    BY <1>1, <1>5 DEF Mensagem, Etapas, EtapasSemResposta, cadastro
  <2>2. MesmaMensagem
    BY <1>5, <2>1 DEF MesmaMensagem
  <2>3. Pediu' <=> Pediu
    BY <2>2, PediuIgual
  <2>4. Percurso'
    BY <1>1, <1>5, <2>1 DEF Percurso, Tocado, EtapasSemResposta, EtapasDeAviso
  <2>5. ~mexeram => Coerente'
    BY <1>1, <1>5, <2>1, <2>3 DEF Coerente, EtapasDeAviso
  <2> QED BY <1>5, <2>1, <2>2, <2>4, <2>5, SegueInv
<1>6. CASE msg.pc = "modelo" /\ ReplyText([msg EXCEPT !.pc = "avisar"])
  <2> DEFINE r == [msg EXCEPT !.pc = "avisar"]
  <2>1. /\ r \in Mensagem /\ r.pc = "avisar" /\ r.bs = msg.bs
        /\ r.texto = msg.texto /\ r.barra = msg.barra /\ r.comando = msg.comando
        /\ r.toque = msg.toque /\ r.cli = msg.cli
    BY <1>1 DEF Mensagem, Etapas, EtapasDeAviso
  <2>2. ~mexeram => r.cli = cliente
    BY <1>1, <1>6, <2>1 DEF Coerente
  <2>3. ReplyText(r)
    BY <1>6
  <2> HIDE DEF r
  <2> QED BY <1>3, <2>1, <2>2, <2>3
<1> QED BY <1>4, <1>5, <1>6 DEF AiReply, ContextualReply

LEMMA ConsultaInv ==
  ASSUME BInv, Consulta
  PROVE  BInv'
<1>1. /\ msg \in Mensagem /\ msg.pc = "consultar" /\ Percurso
      /\ cliente \in Locadoras \cup {Ninguem}
      /\ ~mexeram => Coerente
      /\ UNCHANGED <<cadastro, respostas, avisos, mexeram, falhou>>
  BY Fatos DEF Consulta
<1>2. /\ msg' \in Mensagem /\ msg'.pc = "consultado" /\ msg'.bs = msg.toque
      /\ msg'.texto = msg.texto /\ msg'.barra = msg.barra
      /\ msg'.toque = {} /\ msg'.cli = cliente /\ cliente' = cliente
  BY <1>1 DEF Consulta, Mensagem, Etapas, EtapasDeAviso, cadastro
<1>3. MesmaMensagem
  BY <1>1, <1>2 DEF MesmaMensagem
<1>4. Pediu' <=> Pediu
  BY <1>3, PediuIgual
<1>5. Percurso'
  BY <1>1, <1>2
     DEF Percurso, Tocado, EtapasSemResposta, EtapasDeAviso, AvisaDepois
<1>6. ~mexeram => Coerente'
  BY <1>1, <1>2, <1>4 DEF Coerente, EtapasDeAviso
<1> QED BY <1>1, <1>2, <1>3, <1>5, <1>6, SegueInv

(* The announcement is the last step of the message.                       *)
LEMMA NotifyInv ==
  ASSUME BInv, NotifyOwnerContact
  PROVE  BInv'
<1> DEFINE quem == IF msg.pc = "avisar" /\ msg.cli = Ninguem THEN cliente ELSE msg.cli
<1>1. /\ msg \in Mensagem /\ msg.pc \in EtapasDeAviso /\ Percurso
      /\ ~AvisaDepois(msg.toque) /\ avisos \in [Locadoras -> Nat]
      /\ respostas \in 0..1 /\ falhou \in BOOLEAN
      /\ \A o \in Locadoras : avisos[o] = 0
      /\ ~mexeram => Coerente
      /\ UNCHANGED <<cadastro, respostas, mexeram, falhou>>
      /\ cliente' = cliente /\ donoAvisa' = donoAvisa
  BY Fatos DEF NotifyOwnerContact, EtapasDeAviso, Percurso, Avisado, cadastro
<1>2. /\ msg' \in Mensagem /\ msg'.pc = "fim"
      /\ msg'.texto = msg.texto /\ msg'.barra = msg.barra
      /\ msg'.toque = msg.toque /\ msg'.comando = msg.comando
  BY <1>1 DEF NotifyOwnerContact, Segue, Depois, Mensagem, Etapas
<1>3. \A o \in Locadoras : avisos'[o] =
        IF /\ IsContactRequest(msg.texto, msg.bs)
           /\ o \in OperacoesForNotify(quem) /\ o \in donoAvisa
        THEN 1 ELSE 0
  <2>1. CASE IsContactRequest(msg.texto, msg.bs)
    BY <1>1, <2>1 DEF NotifyOwnerContact, NotifyOwner
  <2>2. CASE ~IsContactRequest(msg.texto, msg.bs)
    BY <1>1, <2>2 DEF NotifyOwnerContact
  <2> QED BY <2>1, <2>2
<1>4. avisos' \in [Locadoras -> Nat]
  <2>1. CASE IsContactRequest(msg.texto, msg.bs)
    BY <1>1, <2>1 DEF NotifyOwnerContact, NotifyOwner
  <2>2. CASE ~IsContactRequest(msg.texto, msg.bs)
    BY <1>1, <2>2 DEF NotifyOwnerContact
  <2> QED BY <2>1, <2>2
<1>5. Percurso'
  BY <1>1, <1>2 DEF Percurso, Tocado, EtapasSemResposta, EtapasDeAviso
<1>6. Avisado'
  BY <1>2, <1>3 DEF Avisado
<1>7. ASSUME ~mexeram PROVE Coerente'
  <2>1. quem = cliente
    BY <1>1, <1>7 DEF Coerente
  <2>2. Pediu <=> IsContactRequest(msg.texto, msg.bs)
    BY <1>1, <1>7 DEF Coerente
  <2>3. MesmaMensagem
    BY <1>1, <1>2 DEF MesmaMensagem
  <2>4. /\ Pediu' <=> Pediu
        /\ OperacoesForNotify(cliente)' = OperacoesForNotify(cliente)
    BY <2>3, PediuIgual
  <2> HIDE DEF quem
  <2>5. \A o \in Locadoras :
          avisos'[o] = 1 <=> Pediu' /\ o \in (OperacoesForNotify(cliente) \cap donoAvisa)'
    BY <1>1, <1>3, <2>1, <2>2, <2>4
  <2> QED BY <1>2, <2>5 DEF Coerente, EtapasDeAviso
<1> QED BY <1>1, <1>2, <1>4, <1>5, <1>6, <1>7, PassoInv

(* The panel: from here on nothing is promised of this message.            *)
LEMMA PainelInv ==
  ASSUME BInv,
         (\E o \in Locadoras : EditaMenu(o) \/ LigaAviso(o)) \/ LigaCliente
  PROVE  BInv'
<1>1. mexeram' = TRUE /\ UNCHANGED <<msg, respostas, avisos, falhou>>
  BY DEF EditaMenu, LigaAviso, LigaCliente, Mexe
<1>2. /\ menus' \in [Locadoras -> Menus] /\ donoAvisa' \subseteq Locadoras
      /\ cliente' \in Locadoras \cup {Ninguem}
  BY DEF EditaMenu, LigaAviso, LigaCliente, BInv, BotType, BotTypeOK
<1>3. BotType'
  BY <1>1, <1>2 DEF BInv, BotType, BotTypeOK
<1> QED BY <1>1, <1>3 DEF BInv, Percurso, Tocado, Avisado

LEMMA BotStep == BInv /\ [BotNext]_botVars => BInv'
<1> SUFFICES ASSUME BInv, [BotNext]_botVars PROVE BInv'
  OBVIOUS
<1>1. CASE UNCHANGED botVars
  <2>1. BotType' /\ Percurso' /\ Avisado'
    BY <1>1 DEF botVars, cadastro, BInv, BotType, BotTypeOK, Percurso, Tocado,
       Avisado
  <2>2. MesmaMensagem
    BY <1>1 DEF botVars, MesmaMensagem
  <2>3. ~mexeram => Coerente'
    BY <1>1, <2>2, PediuIgual DEF botVars, cadastro, BInv, Coerente
  <2> QED BY <1>1, <2>1, <2>3 DEF botVars, BInv
<1>2. CASE (\E t \in Falas : Recebe(t, FALSE)) \/ (\E t \in Barras : Recebe(t, TRUE))
  BY <1>2, RecebeInv
<1>3. CASE CmdPromessa \/ CmdPix \/ CmdStatus \/ CmdAjuda
  BY <1>3, ComandoInv DEF CmdPromessa, CmdPix, CmdStatus, CmdAjuda, Integrados
<1> QED BY <1>1, <1>2, <1>3, HandleTextInv, DispatchInv, ConversaInv, MenuInv,
           ConsultaInv, NotifyInv, PainelInv DEF BotNext

LEMMA BotInductive == BotSpec => []BInv
BY BInit, BotStep, PTL DEF BotSpec

(* Every message gets its answer, unless Telegram failed or somebody       *)
(* changed a menu, a customer or an owner between the handler's database   *)
(* sessions.                                                               *)
THEOREM EveryMessageAnswered == BotSpec => []SemRespostaSoSe
<1>1. BInv => SemRespostaSoSe
  BY DEF BInv, Percurso, EtapasSemResposta, SemRespostaSoSe
<1> QED BY <1>1, BotInductive, PTL

(* Whoever asks for a human is announced, once, to whom it concerns, and   *)
(* nobody else is: for any menus, labels and commands.                     *)
THEOREM RequestAnnounced == BotSpec => []PedidoAvisado
<1>1. BInv => PedidoAvisado
  BY DEF BInv, Avisado, Coerente, PedidoAvisado
<1> QED BY <1>1, BotInductive, PTL
-----------------------------------------------------------------------------
(* The dead letter queue.  What is listed is complete: its details are     *)
(* there before the id is, and they go after it.                           *)

(* Nobody works on the id of a task that has not failed yet, and the id a  *)
(* worker is about to push is its own: not listed, never shown, not being  *)
(* removed.                                                                *)
PorEntrar(r, t) == r.pc = "lpush" /\ r.t = t

Saindo(r, t) == r.pc \in {"del", "descartada"} /\ r.t = t

Cargo == [pc: {"ocioso", "lpush", "llen", "rpop", "del", "status", "descartada"},
          t: Mortas \cup {Nenhuma}]

SemRepeticao ==
  \A i, j \in 1..Len(lista) : lista[i] = lista[j] => i = j

Listados ==
  \A t \in Mortas :
    /\ t \in EmFila => meta[t] = "inteira" /\ t \notin vivas
    /\ t \in mostradas => t \notin vivas

Chegando ==
  \A p \in Processos, t \in Mortas : PorEntrar(proc[p], t) =>
    /\ meta[t] = "inteira" /\ t \notin EmFila \cup vivas \cup mostradas
    /\ \A q \in Processos : PorEntrar(proc[q], t) => q = p
    /\ \A q \in Processos : ~Saindo(proc[q], t)

Partindo ==
  \A p \in Processos, t \in Mortas : Saindo(proc[p], t) => t \notin EmFila \cup vivas

ComTarefa ==
  \A p \in Processos :
    proc[p].pc \in {"lpush", "del", "descartada", "status"} => proc[p].t \in Mortas

FilaInv ==
  /\ FilaMortaTypeOK /\ SemRepeticao /\ Listados /\ Chegando /\ Partindo
  /\ ComTarefa /\ NoLimite

Ids(l) == {l[i] : i \in 1..Len(l)}

Unicos(l) == \A i, j \in 1..Len(l) : l[i] = l[j] => i = j

LEMMA FilaFatos ==
  ASSUME FilaInv
  PROVE  /\ vivas \subseteq Mortas /\ lista \in Seq(Mortas) /\ Len(lista) \in Nat
         /\ meta \in [Mortas -> {"nada", "status", "inteira"}]
         /\ proc \in [Processos -> Cargo]
         /\ mostradas \subseteq Mortas /\ mortes \in 0..MaxMortes
         /\ EmFila = Ids(lista) /\ EmFila \subseteq Mortas /\ Unicos(lista)
<1>1. FilaMortaTypeOK /\ SemRepeticao
  BY DEF FilaInv
<1>2. EmFila \subseteq Mortas
  <2> SUFFICES ASSUME NEW i \in 1..Len(lista) PROVE lista[i] \in Mortas
    BY DEF EmFila
  <2> QED BY <1>1 DEF FilaMortaTypeOK
<1> QED BY <1>1, <1>2 DEF FilaMortaTypeOK, SemRepeticao, EmFila, Ids, Unicos, Cargo

LEMMA OciosoType ==
  /\ Ocioso \in Cargo /\ Ocioso.pc = "ocioso"
  /\ \A t : ~PorEntrar(Ocioso, t) /\ ~Saindo(Ocioso, t)
BY DEF Ocioso, Cargo, PorEntrar, Saindo

(* LPUSH, RPOP and LREM on a list without repetitions.                     *)
LEMMA ListaLpush ==
  ASSUME NEW l \in Seq(Mortas), Unicos(l), NEW t \in Mortas, t \notin Ids(l)
  PROVE  /\ <<t>> \o l \in Seq(Mortas) /\ Len(<<t>> \o l) = Len(l) + 1
         /\ Ids(<<t>> \o l) = Ids(l) \cup {t} /\ Unicos(<<t>> \o l)
<1> DEFINE k == <<t>> \o l
<1>1. k \in Seq(Mortas) /\ Len(k) = Len(l) + 1 /\ Len(l) \in Nat
  OBVIOUS
<1>2. k[1] = t /\ \A i \in 1..Len(k) : i # 1 => k[i] = l[i - 1] /\ i - 1 \in 1..Len(l)
  OBVIOUS
<1>3. \A i \in 1..Len(l) : i + 1 \in 1..Len(k) /\ i + 1 # 1 /\ k[i + 1] = l[i]
  OBVIOUS
<1> HIDE DEF k
<1>4. Ids(k) = Ids(l) \cup {t}
  <2>1. ASSUME NEW x \in Ids(k) PROVE x \in Ids(l) \cup {t}
    BY <1>2, <2>1 DEF Ids
  <2>2. ASSUME NEW x \in Ids(l) PROVE x \in Ids(k)
    BY <1>3, <2>2 DEF Ids
  <2>3. t \in Ids(k)
    BY <1>1, <1>2 DEF Ids
  <2> QED BY <2>1, <2>2, <2>3
<1>5. Unicos(k)
  <2> SUFFICES ASSUME NEW i \in 1..Len(k), NEW j \in 1..Len(k), k[i] = k[j]
               PROVE  i = j
    BY DEF Unicos
  <2>1. CASE i # 1 /\ j # 1
    <3>1. i - 1 = j - 1
      BY <1>2, <2>1 DEF Unicos
    <3> QED BY <1>1, <3>1
  <2>2. CASE i = 1 /\ j # 1
    BY <1>2, <2>2 DEF Ids
  <2>3. CASE i # 1 /\ j = 1
    BY <1>2, <2>3 DEF Ids
  <2> QED BY <2>1, <2>2, <2>3
<1> QED BY <1>1, <1>4, <1>5 DEF k

LEMMA ListaRpop ==
  ASSUME NEW l \in Seq(Mortas), Unicos(l), l # <<>>
  PROVE  LET k == SubSeq(l, 1, Len(l) - 1) IN
         /\ k \in Seq(Mortas) /\ Len(k) <= Len(l) /\ Len(k) \in Nat /\ Unicos(k)
         /\ l[Len(l)] \in Mortas /\ l[Len(l)] \in Ids(l)
         /\ Ids(k) = Ids(l) \ {l[Len(l)]}
<1> DEFINE k == SubSeq(l, 1, Len(l) - 1)
<1>1. Len(l) \in Nat \ {0}
  OBVIOUS
<1>2. k \in Seq(Mortas) /\ Len(k) = Len(l) - 1 /\ \A i \in 1..(Len(l) - 1) : k[i] = l[i]
  <2>1. /\ Len(l) - 1 \in Int /\ 1 \in Int
        /\ \A i \in 1..(Len(l) - 1) : l[i] \in Mortas
    BY <1>1
  <2>2. /\ k \in Seq(Mortas)
        /\ Len(k) = IF 1 <= Len(l) - 1 THEN (Len(l) - 1) - 1 + 1 ELSE 0
        /\ \A i \in 1..((Len(l) - 1) - 1 + 1) : k[i] = l[1 + i - 1]
    BY <2>1, SubSeqProperties
  <2> HIDE DEF k
  <2>3. (Len(l) - 1) - 1 + 1 = Len(l) - 1 /\ (~(1 <= Len(l) - 1) => Len(l) - 1 = 0)
    <3>1. \A n \in Nat \ {0} : (n - 1) - 1 + 1 = n - 1 /\ (~(1 <= n - 1) => n - 1 = 0)
      OBVIOUS
    <3> QED BY <1>1, <3>1
  <2>4. \A i \in 1..(Len(l) - 1) : 1 + i - 1 = i
    BY <1>1
  <2>5. Len(k) = Len(l) - 1
    BY <2>2, <2>3
  <2> QED BY <2>2, <2>3, <2>4, <2>5
<1>3. l[Len(l)] \in Mortas /\ l[Len(l)] \in Ids(l)
  BY <1>1 DEF Ids
<1> HIDE DEF k
<1>4. Unicos(k)
  BY <1>1, <1>2 DEF Unicos
<1>5. Ids(k) = Ids(l) \ {l[Len(l)]}
  <2>1. ASSUME NEW x \in Ids(k) PROVE x \in Ids(l) \ {l[Len(l)]}
    <3>1. PICK i \in 1..Len(k) : x = k[i]
      BY <2>1 DEF Ids
    <3>2. i \in 1..Len(l) /\ i # Len(l) /\ x = l[i] /\ Len(l) \in 1..Len(l)
      BY <1>1, <1>2, <3>1
    <3> QED BY <3>2 DEF Ids, Unicos
  <2>2. ASSUME NEW x \in Ids(l), x # l[Len(l)] PROVE x \in Ids(k)
    <3>1. PICK i \in 1..Len(l) : x = l[i]
      BY <2>2 DEF Ids
    <3>2. i \in 1..Len(k) /\ x = k[i]
      BY <1>1, <1>2, <2>2, <3>1
    <3> QED BY <3>2 DEF Ids
  <2> QED BY <2>1, <2>2
<1>6. Len(k) <= Len(l) /\ Len(k) \in Nat
  BY <1>1, <1>2
<1> QED BY <1>2, <1>3, <1>4, <1>5, <1>6 DEF k

LEMMA ListaLrem ==
  ASSUME lista \in Seq(Mortas), Unicos(lista), NEW t \in Mortas
  PROVE  /\ Sem(t) \in Seq(Mortas) /\ Unicos(Sem(t)) /\ Ids(Sem(t)) = Ids(lista) \ {t}
         /\ Len(Sem(t)) \in Nat /\ Len(Sem(t)) <= Len(lista)
<1>0. EmFila = Ids(lista) /\ Len(lista) \in Nat
  BY DEF EmFila, Ids
<1>1. CASE t \notin EmFila
  BY <1>0, <1>1 DEF Sem
<1>2. CASE t \in EmFila
  <2> DEFINE i == CHOOSE i \in 1..Len(lista) : lista[i] = t
             k == [j \in 1..(Len(lista) - 1) |-> IF j < i THEN lista[j] ELSE lista[j + 1]]
  <2>1. i \in 1..Len(lista) /\ lista[i] = t
    <3>1. \E n \in 1..Len(lista) : lista[n] = t
      BY <1>2 DEF EmFila
    <3> QED BY <3>1
  <2>2. Sem(t) = k
    BY <1>2 DEF Sem
  <2> HIDE DEF i
  <2>3. \A n \in 1..Len(lista) : lista[n] \in Mortas
    OBVIOUS
  <2>4. /\ Len(lista) - 1 \in Nat
        /\ \A j \in 1..(Len(lista) - 1) : j \in 1..Len(lista) /\ j + 1 \in 1..Len(lista)
    BY <1>0, <2>1
  <2>5. k \in [1..(Len(lista) - 1) -> Mortas]
    BY <2>3, <2>4
  <2>6. k \in Seq(Mortas) /\ Len(k) = Len(lista) - 1
    BY <2>4, <2>5
  <2>7. \A j \in 1..(Len(lista) - 1) :
          k[j] = IF j < i THEN lista[j] ELSE lista[j + 1]
    OBVIOUS
  <2> HIDE DEF k
  <2>8. Unicos(k)
    <3> SUFFICES ASSUME NEW x \in 1..Len(k), NEW y \in 1..Len(k), k[x] = k[y]
                 PROVE  x = y
      BY DEF Unicos
    <3>1. x \in 1..(Len(lista) - 1) /\ y \in 1..(Len(lista) - 1)
      BY <2>6
    <3>2. CASE x < i /\ y < i
      BY <2>4, <2>7, <3>1, <3>2 DEF Unicos
    <3>3. CASE ~(x < i) /\ ~(y < i)
      <4>1. x + 1 = y + 1
        BY <2>4, <2>7, <3>1, <3>3 DEF Unicos
      <4> QED BY <3>1, <4>1
    <3>4. CASE x < i /\ ~(y < i)
      <4>1. x = y + 1
        BY <2>4, <2>7, <3>1, <3>4 DEF Unicos
      <4> QED BY <2>1, <3>1, <3>4, <4>1
    <3>5. CASE ~(x < i) /\ y < i
      <4>1. x + 1 = y
        BY <2>4, <2>7, <3>1, <3>5 DEF Unicos
      <4> QED BY <2>1, <3>1, <3>5, <4>1
    <3> QED BY <3>2, <3>3, <3>4, <3>5
  <2>9. Ids(k) = Ids(lista) \ {t}
    <3>1. ASSUME NEW x \in Ids(k) PROVE x \in Ids(lista) \ {t}
      <4>1. PICK j \in 1..(Len(lista) - 1) : x = k[j]
        BY <2>6, <3>1 DEF Ids
      <4>2. PICK n \in 1..Len(lista) : n # i /\ x = lista[n]
        <5>1. CASE j < i
          BY <2>1, <2>4, <2>7, <4>1, <5>1
        <5>2. CASE ~(j < i)
          BY <2>1, <2>4, <2>7, <4>1, <5>2
        <5> QED BY <5>1, <5>2
      <4> QED BY <2>1, <4>2 DEF Ids, Unicos
    <3>2. ASSUME NEW x \in Ids(lista), x # t PROVE x \in Ids(k)
      <4>1. PICK n \in 1..Len(lista) : x = lista[n]
        BY <3>2 DEF Ids
      <4>2. n # i
        BY <2>1, <3>2, <4>1
      <4>3. CASE n < i
        <5>1. n \in 1..Len(k) /\ k[n] = x
          BY <2>1, <2>4, <2>6, <2>7, <4>1, <4>3
        <5> QED BY <5>1 DEF Ids
      <4>4. CASE n > i
        <5>1. /\ n - 1 \in 1..Len(k) /\ n - 1 \in 1..(Len(lista) - 1)
              /\ ~(n - 1 < i) /\ (n - 1) + 1 = n
          BY <2>1, <2>4, <2>6, <4>1, <4>4
        <5>2. k[n - 1] = x
          BY <2>7, <4>1, <5>1
        <5> QED BY <5>1, <5>2 DEF Ids
      <4> QED BY <2>1, <4>1, <4>2, <4>3, <4>4
    <3> QED BY <3>1, <3>2
  <2> QED BY <1>0, <2>1, <2>2, <2>4, <2>6, <2>8, <2>9
<1> QED BY <1>1, <1>2

(* A step of process p, which goes on with r.                              *)
LEMMA PassoFila ==
  ASSUME FilaInv, NEW p \in Processos, NEW r \in Cargo,
         proc' = [proc EXCEPT ![p] = r],
         r.pc \in {"lpush", "del", "descartada", "status"} => r.t \in Mortas,
         vivas' \subseteq vivas, lista' \in Seq(Mortas), Unicos(lista'),
         meta' \in [Mortas -> {"nada", "status", "inteira"}],
         mostradas' = mostradas, mortes' \in 0..MaxMortes,
         \A t \in Ids(lista') : meta'[t] = "inteira" /\ t \notin vivas',
         \A q \in Processos \ {p}, t \in Mortas :
           /\ PorEntrar(proc[q], t) =>
                /\ meta'[t] = "inteira" /\ t \notin Ids(lista')
                /\ ~PorEntrar(r, t) /\ ~Saindo(r, t)
           /\ Saindo(proc[q], t) => t \notin Ids(lista') /\ ~PorEntrar(r, t),
         \A t \in Mortas :
           /\ PorEntrar(r, t) =>
                meta'[t] = "inteira" /\ t \notin Ids(lista') \cup vivas' \cup mostradas
           /\ Saindo(r, t) => t \notin Ids(lista') \cup vivas',
         NoLimite'
  PROVE  FilaInv'
<1>1. /\ proc' \in [Processos -> Cargo] /\ proc'[p] = r
      /\ \A q \in Processos \ {p} : proc'[q] = proc[q]
  BY FilaFatos
<1>2. FilaMortaTypeOK'
  BY <1>1, FilaFatos DEF FilaMortaTypeOK, Cargo
<1>3. SemRepeticao' /\ EmFila' = Ids(lista')
  BY DEF Unicos, SemRepeticao, EmFila, Ids
<1>4. Listados'
  BY <1>3 DEF FilaInv, Listados
<1>5. Chegando'
  <2> SUFFICES ASSUME NEW a \in Processos, NEW t \in Mortas, PorEntrar(proc'[a], t)
               PROVE  /\ meta'[t] = "inteira" /\ t \notin Ids(lista') \cup vivas' \cup mostradas
                      /\ \A q \in Processos : PorEntrar(proc'[q], t) => q = a
                      /\ \A q \in Processos : ~Saindo(proc'[q], t)
    BY <1>3 DEF Chegando
  <2>1. CASE a = p
    <3>1. PorEntrar(r, t) /\ ~Saindo(r, t)
      BY <1>1, <2>1 DEF PorEntrar, Saindo
    <3> QED BY <1>1, <2>1, <3>1
  <2>2. CASE a # p
    <3>1. PorEntrar(proc[a], t)
      BY <1>1, <2>2
    <3>2. /\ t \notin vivas \cup mostradas
          /\ \A q \in Processos : PorEntrar(proc[q], t) => q = a
          /\ \A q \in Processos : ~Saindo(proc[q], t)
      BY <3>1 DEF FilaInv, Chegando
    <3> QED BY <1>1, <2>2, <3>1, <3>2
  <2> QED BY <2>1, <2>2
<1>6. Partindo'
  <2> SUFFICES ASSUME NEW a \in Processos, NEW t \in Mortas, Saindo(proc'[a], t)
               PROVE  t \notin Ids(lista') \cup vivas'
    BY <1>3 DEF Partindo
  <2> QED BY <1>1 DEF FilaInv, Partindo
<1>7. ComTarefa'
  BY <1>1 DEF FilaInv, ComTarefa
<1> QED BY <1>2, <1>3, <1>4, <1>5, <1>6, <1>7 DEF FilaInv

(* Who trims: p joins, stays or leaves.                                    *)
LEMMA PodandoMuda ==
  ASSUME FilaInv, NEW p \in Processos, NEW r \in Cargo, proc' = [proc EXCEPT ![p] = r]
  PROVE  /\ Cardinality(Podando) \in Nat /\ Cardinality(Podando') \in Nat
         /\ p \in Trabalhos /\ r.pc \in {"llen", "rpop", "del"} =>
              /\ Cardinality(Podando') >= Cardinality(Podando)
              /\ p \notin Podando => Cardinality(Podando') = Cardinality(Podando) + 1
         /\ p \notin Podando => Cardinality(Podando') >= Cardinality(Podando)
         /\ Cardinality(Podando') >= Cardinality(Podando) - 1
<1> DEFINE poda == p \in Trabalhos /\ r.pc \in {"llen", "rpop", "del"}
<1>1. proc'[p] = r /\ \A q \in Processos \ {p} : proc'[q] = proc[q]
  BY FilaFatos
<1>2. Trabalhos \subseteq Processos
  BY DEF Processos
<1>3. Podando' = IF poda THEN Podando \cup {p} ELSE Podando \ {p}
  BY <1>1, <1>2 DEF Podando
<1>4. IsFiniteSet(Podando)
  <2>1. Podando \subseteq Trabalhos
    BY DEF Podando
  <2> QED BY <2>1, FS_Subset, FilaMortaConstants
<1>5. Cardinality(Podando) \in Nat
  BY <1>4, FS_CardinalityType
<1>6. CASE poda
  <2>1. Podando' = Podando \cup {p}
    BY <1>3, <1>6
  <2>2. Cardinality(Podando \cup {p}) =
          IF p \in Podando THEN Cardinality(Podando) ELSE Cardinality(Podando) + 1
    BY <1>4, FS_AddElement
  <2> QED BY <1>5, <1>6, <2>1, <2>2
<1>7. CASE ~poda
  <2>1. Podando' = Podando \ {p}
    BY <1>3, <1>7
  <2>2. Cardinality(Podando \ {p}) =
          IF p \in Podando THEN Cardinality(Podando) - 1 ELSE Cardinality(Podando)
    BY <1>4, FS_RemoveElement
  <2>3. Cardinality(Podando \ {p}) \in Nat
    BY <1>4, FS_Subset, FS_CardinalityType
  <2> QED BY <1>5, <1>7, <2>1, <2>2, <2>3
<1> QED BY <1>6, <1>7

LEMMA FilaConsts == MaxDlq \in Nat /\ MaxMortes \in Nat /\ Nenhuma \notin Mortas
BY FilaMortaConstants

LEMMA MoveToDlqInv ==
  ASSUME FilaInv, NEW p \in Processos, NEW t \in Mortas, MoveToDlq(p, t)
  PROVE  FilaInv'
<1> DEFINE r == [pc |-> "lpush", t |-> t]
<1>1. /\ proc[p].pc = "ocioso" /\ t \in vivas /\ vivas' = vivas \ {t}
      /\ meta' = [meta EXCEPT ![t] = "inteira"] /\ proc' = [proc EXCEPT ![p] = r]
      /\ lista' = lista /\ mostradas' = mostradas /\ mortes' = mortes
  BY OciosoType DEF MoveToDlq, Proximo
<1>2. r \in Cargo /\ r.pc = "lpush" /\ r.t = t
  BY DEF Cargo
<1> HIDE DEF r
<1>3. /\ meta' \in [Mortas -> {"nada", "status", "inteira"}] /\ meta'[t] = "inteira"
      /\ \A u \in Mortas \ {t} : meta'[u] = meta[u]
  BY <1>1, FilaFatos
<1>4. t \notin Ids(lista) \cup mostradas
  BY <1>1, FilaFatos DEF FilaInv, Listados
<1>5. \A q \in Processos : ~PorEntrar(proc[q], t) /\ ~Saindo(proc[q], t)
  BY <1>1 DEF FilaInv, Chegando, Partindo
<1>6. \A u \in Ids(lista') : meta'[u] = "inteira" /\ u \notin vivas'
  BY <1>1, <1>3, <1>4, FilaFatos DEF FilaInv, Listados
<1>7. \A q \in Processos \ {p}, u \in Mortas :
        /\ PorEntrar(proc[q], u) =>
             /\ meta'[u] = "inteira" /\ u \notin Ids(lista')
             /\ ~PorEntrar(r, u) /\ ~Saindo(r, u)
        /\ Saindo(proc[q], u) => u \notin Ids(lista') /\ ~PorEntrar(r, u)
  <2> TAKE q \in Processos \ {p}, u \in Mortas
  <2>1. CASE u = t
    BY <1>5, <2>1
  <2>2. CASE u # t
    <3>1. ~PorEntrar(r, u) /\ ~Saindo(r, u)
      BY <1>2, <2>2 DEF PorEntrar, Saindo
    <3>2. PorEntrar(proc[q], u) => meta[u] = "inteira" /\ u \notin EmFila
      BY DEF FilaInv, Chegando
    <3>3. Saindo(proc[q], u) => u \notin EmFila
      BY DEF FilaInv, Partindo
    <3> QED BY <1>1, <1>3, <2>2, <3>1, <3>2, <3>3, FilaFatos
  <2> QED BY <2>1, <2>2
<1>8. \A u \in Mortas :
        /\ PorEntrar(r, u) =>
             meta'[u] = "inteira" /\ u \notin Ids(lista') \cup vivas' \cup mostradas
        /\ Saindo(r, u) => u \notin Ids(lista') \cup vivas'
  BY <1>1, <1>2, <1>3, <1>4 DEF PorEntrar, Saindo
<1>9. NoLimite'
  <2>1. p \notin Podando
    BY <1>1 DEF Podando
  <2>2. Cardinality(Podando') >= Cardinality(Podando)
        /\ Cardinality(Podando) \in Nat /\ Cardinality(Podando') \in Nat
    BY <1>1, <1>2, <2>1, PodandoMuda
  <2> QED BY <1>1, <2>2, FilaFatos, FilaConsts DEF FilaInv, NoLimite
<1>10. vivas' \subseteq vivas /\ lista' \in Seq(Mortas) /\ Unicos(lista')
       /\ mortes' \in 0..MaxMortes
  BY <1>1, FilaFatos
<1> QED BY <1>1, <1>2, <1>3, <1>6, <1>7, <1>8, <1>9, <1>10, PassoFila

(* Steps that leave the list alone and have no id in their hands.          *)
LEMMA Larga ==
  ASSUME FilaInv, NEW p \in Processos, NEW r \in Cargo,
         proc' = [proc EXCEPT ![p] = r],
         r.pc \notin {"lpush", "del", "descartada"}, r.pc = "status" => r.t \in Mortas,
         UNCHANGED <<vivas, lista, mostradas>>, mortes' \in 0..MaxMortes,
         meta' \in [Mortas -> {"nada", "status", "inteira"}],
         \A t \in Mortas : meta[t] = "inteira" =>
           meta'[t] = "inteira" \/ Saindo(proc[p], t),
         NoLimite'
  PROVE  FilaInv'
<1>1. \A t \in Mortas : ~PorEntrar(r, t) /\ ~Saindo(r, t)
  BY DEF PorEntrar, Saindo
<1>2. \A t \in Ids(lista') : meta'[t] = "inteira" /\ t \notin vivas'
  BY FilaFatos DEF FilaInv, Listados, Partindo
<1>3. \A q \in Processos \ {p}, t \in Mortas :
        /\ PorEntrar(proc[q], t) => meta'[t] = "inteira" /\ t \notin Ids(lista')
        /\ Saindo(proc[q], t) => t \notin Ids(lista')
  BY FilaFatos DEF FilaInv, Chegando, Partindo
<1> QED BY <1>1, <1>2, <1>3, FilaFatos, PassoFila

LEMMA LpushInv ==
  ASSUME FilaInv, NEW p \in Trabalhos, Lpush(p)
  PROVE  FilaInv'
<1> DEFINE t == proc[p].t
           r == [pc |-> "llen", t |-> t]
<1>1. /\ proc[p].pc = "lpush" /\ lista' = <<t>> \o lista
      /\ proc' = [proc EXCEPT ![p] = r] /\ vivas' = vivas /\ meta' = meta
      /\ mostradas' = mostradas /\ mortes' = mortes
  BY DEF Lpush, Proximo
<1>2. p \in Processos /\ t \in Mortas /\ PorEntrar(proc[p], t)
  BY <1>1 DEF Processos, FilaInv, ComTarefa, PorEntrar
<1>3. r \in Cargo /\ r.pc = "llen"
  BY <1>2 DEF Cargo
<1> HIDE DEF r, t
<1>4. /\ meta[t] = "inteira" /\ t \notin Ids(lista) \cup vivas
      /\ \A q \in Processos : ~Saindo(proc[q], t)
      /\ \A q \in Processos \ {p} : ~PorEntrar(proc[q], t)
  BY <1>2, FilaFatos DEF FilaInv, Chegando
<1>5. /\ lista' \in Seq(Mortas) /\ Len(lista') = Len(lista) + 1
      /\ Ids(lista') = Ids(lista) \cup {t} /\ Unicos(lista')
  BY <1>1, <1>2, <1>4, FilaFatos, ListaLpush
<1>6. \A u \in Mortas : ~PorEntrar(r, u) /\ ~Saindo(r, u)
  BY <1>3 DEF PorEntrar, Saindo
<1>7. \A u \in Ids(lista') : meta'[u] = "inteira" /\ u \notin vivas'
  BY <1>1, <1>4, <1>5, FilaFatos DEF FilaInv, Listados
<1>8. \A q \in Processos \ {p}, u \in Mortas :
        /\ PorEntrar(proc[q], u) => meta'[u] = "inteira" /\ u \notin Ids(lista')
        /\ Saindo(proc[q], u) => u \notin Ids(lista')
  BY <1>1, <1>4, <1>5, FilaFatos DEF FilaInv, Chegando, Partindo
<1>9. NoLimite'
  <2>1. p \notin Podando
    BY <1>1 DEF Podando
  <2>2. Cardinality(Podando') = Cardinality(Podando) + 1
        /\ Cardinality(Podando) \in Nat
    BY <1>1, <1>2, <1>3, <2>1, PodandoMuda
  <2> QED BY <1>1, <1>5, <2>2, FilaFatos, FilaConsts DEF FilaInv, NoLimite
<1> QED BY <1>1, <1>2, <1>3, <1>5, <1>6, <1>7, <1>8, <1>9, FilaFatos, PassoFila

LEMMA LlenInv ==
  ASSUME FilaInv, NEW p \in Trabalhos, Llen(p)
  PROVE  FilaInv'
<1>1. /\ proc[p].pc = "llen" /\ UNCHANGED <<vivas, lista, meta, mostradas>>
      /\ mortes' = mortes /\ p \in Processos
  BY DEF Llen, Processos
<1>2. CASE Len(lista) > MaxDlq
  <2> DEFINE r == [pc |-> "rpop", t |-> Nenhuma]
  <2>1. r \in Cargo /\ r.pc = "rpop" /\ proc' = [proc EXCEPT ![p] = r]
    BY <1>2 DEF Llen, Proximo, Cargo
  <2> HIDE DEF r
  <2>2. Cardinality(Podando') >= Cardinality(Podando)
        /\ Cardinality(Podando) \in Nat /\ Cardinality(Podando') \in Nat
    BY <1>1, <2>1, PodandoMuda
  <2>3. NoLimite'
    BY <1>1, <2>2, FilaFatos, FilaConsts DEF FilaInv, NoLimite
  <2> QED BY <1>1, <2>1, <2>3, FilaFatos, Larga
<1>3. CASE ~(Len(lista) > MaxDlq)
  <2>1. proc' = [proc EXCEPT ![p] = Ocioso]
    BY <1>3 DEF Llen, Acaba
  <2>2. Cardinality(Podando') \in Nat
    BY <1>1, <2>1, OciosoType, PodandoMuda
  <2>3. NoLimite'
    BY <1>1, <1>3, <2>2, FilaFatos, FilaConsts DEF NoLimite
  <2> QED BY <1>1, <2>1, <2>3, OciosoType, FilaFatos, Larga
<1> QED BY <1>2, <1>3

LEMMA RpopInv ==
  ASSUME FilaInv, NEW p \in Trabalhos, Rpop(p)
  PROVE  FilaInv'
<1>1. /\ proc[p].pc = "rpop" /\ UNCHANGED <<vivas, meta, mostradas>>
      /\ mortes' = mortes /\ p \in Processos
  BY DEF Rpop, Processos
<1>2. CASE lista = <<>>
  <2> DEFINE r == [pc |-> "llen", t |-> Nenhuma]
  <2>1. /\ r \in Cargo /\ r.pc = "llen" /\ proc' = [proc EXCEPT ![p] = r]
        /\ lista' = lista
    BY <1>2 DEF Rpop, Proximo, Cargo
  <2> HIDE DEF r
  <2>2. Cardinality(Podando') >= Cardinality(Podando)
        /\ Cardinality(Podando) \in Nat /\ Cardinality(Podando') \in Nat
    BY <1>1, <2>1, PodandoMuda
  <2>3. NoLimite'
    BY <1>1, <2>1, <2>2, FilaFatos, FilaConsts DEF FilaInv, NoLimite
  <2> QED BY <1>1, <2>1, <2>3, FilaFatos, Larga
<1>3. CASE lista # <<>>
  <2> DEFINE t == lista[Len(lista)]
             r == [pc |-> "del", t |-> t]
  <2>1. proc' = [proc EXCEPT ![p] = r] /\ lista' = SubSeq(lista, 1, Len(lista) - 1)
    BY <1>3 DEF Rpop, Proximo
  <2>2. /\ lista' \in Seq(Mortas) /\ Len(lista') <= Len(lista) /\ Len(lista') \in Nat
        /\ Unicos(lista') /\ t \in Mortas /\ t \in Ids(lista)
        /\ Ids(lista') = Ids(lista) \ {t}
    BY <1>3, <2>1, FilaFatos, ListaRpop
  <2>3. r \in Cargo /\ r.pc = "del" /\ r.t = t
    BY <2>2 DEF Cargo
  <2> HIDE DEF r, t
  <2>4. t \notin vivas /\ \A q \in Processos : ~PorEntrar(proc[q], t)
    BY <2>2, FilaFatos DEF FilaInv, Listados, Chegando
  <2>5. \A u \in Ids(lista') : meta'[u] = "inteira" /\ u \notin vivas'
    BY <1>1, <2>2, FilaFatos DEF FilaInv, Listados
  <2>6. \A u \in Mortas : ~PorEntrar(r, u) /\ (Saindo(r, u) => u = t)
    BY <2>3 DEF PorEntrar, Saindo
  <2>7. \A q \in Processos \ {p}, u \in Mortas :
          /\ PorEntrar(proc[q], u) =>
               meta'[u] = "inteira" /\ u \notin Ids(lista') /\ u # t
          /\ Saindo(proc[q], u) => u \notin Ids(lista')
    BY <1>1, <2>2, <2>4, FilaFatos DEF FilaInv, Chegando, Partindo
  <2>8. Cardinality(Podando') >= Cardinality(Podando)
        /\ Cardinality(Podando) \in Nat /\ Cardinality(Podando') \in Nat
    BY <1>1, <2>1, <2>3, PodandoMuda
  <2>9. NoLimite'
    BY <1>1, <2>2, <2>8, FilaFatos, FilaConsts DEF FilaInv, NoLimite
  <2>10. \A q \in Processos \ {p}, u \in Mortas :
           /\ PorEntrar(proc[q], u) =>
                /\ meta'[u] = "inteira" /\ u \notin Ids(lista')
                /\ ~PorEntrar(r, u) /\ ~Saindo(r, u)
           /\ Saindo(proc[q], u) => u \notin Ids(lista') /\ ~PorEntrar(r, u)
    BY <2>6, <2>7
  <2>11. \A u \in Mortas :
           /\ PorEntrar(r, u) =>
                meta'[u] = "inteira" /\ u \notin Ids(lista') \cup vivas' \cup mostradas
           /\ Saindo(r, u) => u \notin Ids(lista') \cup vivas'
    BY <1>1, <2>2, <2>4, <2>6
  <2>12. vivas' \subseteq vivas /\ mostradas' = mostradas /\ mortes' \in 0..MaxMortes
         /\ meta' \in [Mortas -> {"nada", "status", "inteira"}]
    BY <1>1, FilaFatos
  <2> QED BY <1>1, <2>1, <2>2, <2>3, <2>5, <2>9, <2>10, <2>11, <2>12, PassoFila
<1> QED BY <1>2, <1>3

LEMMA DelInv ==
  ASSUME FilaInv, NEW p \in Processos, Del(p)
  PROVE  FilaInv'
<1> DEFINE t == proc[p].t
           r == IF proc[p].pc = "del" THEN [pc |-> "llen", t |-> Nenhuma] ELSE Ocioso
<1>1. /\ proc[p].pc \in {"del", "descartada"} /\ meta' = [meta EXCEPT ![t] = "nada"]
      /\ UNCHANGED <<vivas, lista, mostradas>> /\ mortes' = mortes
      /\ proc' = [proc EXCEPT ![p] = r]
  BY DEF Del, Proximo, Acaba
<1>2. /\ r \in Cargo /\ r.pc \notin {"lpush", "del", "descartada", "status"}
      /\ proc[p].pc = "del" => r.pc = "llen"
  BY OciosoType DEF Cargo
<1> HIDE DEF r
<1>3. t \in Mortas /\ Saindo(proc[p], t)
  BY <1>1 DEF FilaInv, ComTarefa, Saindo
<1> HIDE DEF t
<1>4. /\ meta' \in [Mortas -> {"nada", "status", "inteira"}]
      /\ \A u \in Mortas \ {t} : meta'[u] = meta[u]
  BY <1>1, <1>3, FilaFatos
<1>5. \A u \in Mortas : meta[u] = "inteira" => meta'[u] = "inteira" \/ Saindo(proc[p], u)
  BY <1>3, <1>4
<1>6. NoLimite'
  <2>1. p \in Podando => p \in Trabalhos /\ r.pc = "llen"
    BY <1>1, <1>2 DEF Podando
  <2>2. Cardinality(Podando') >= Cardinality(Podando)
        /\ Cardinality(Podando) \in Nat /\ Cardinality(Podando') \in Nat
    BY <1>1, <1>2, <2>1, PodandoMuda
  <2> QED BY <1>1, <2>2, FilaFatos, FilaConsts DEF FilaInv, NoLimite
<1> QED BY <1>1, <1>2, <1>4, <1>5, <1>6, FilaFatos, Larga

LEMMA OperadorInv ==
  ASSUME FilaInv, NEW p \in Operadores,
         (\E t \in Mortas : DlqRetry(p, t)) \/ HsetStatus(p)
  PROVE  FilaInv'
<1>0. p \in Processos /\ p \notin Podando
  BY FilaMortaConstants DEF Processos, Podando
<1>1. ASSUME NEW t \in Mortas, DlqRetry(p, t) PROVE FilaInv'
  <2> DEFINE r == [pc |-> "status", t |-> t]
  <2>1. /\ proc' = [proc EXCEPT ![p] = r] /\ mortes' = mortes
        /\ UNCHANGED <<vivas, lista, meta, mostradas>>
    BY <1>1 DEF DlqRetry, Proximo
  <2>2. r \in Cargo /\ r.pc = "status" /\ r.t \in Mortas
    BY DEF Cargo
  <2> HIDE DEF r
  <2>3. Cardinality(Podando') >= Cardinality(Podando)
        /\ Cardinality(Podando) \in Nat /\ Cardinality(Podando') \in Nat
    BY <1>0, <2>1, <2>2, PodandoMuda
  <2>4. NoLimite'
    BY <2>1, <2>3, FilaFatos, FilaConsts DEF FilaInv, NoLimite
  <2> QED BY <1>0, <2>1, <2>2, <2>4, FilaFatos, Larga
<1>2. ASSUME HsetStatus(p) PROVE FilaInv'
  <2> DEFINE t == proc[p].t
  <2>1. /\ proc' = [proc EXCEPT ![p] = Ocioso] /\ mortes' = mortes
        /\ UNCHANGED <<vivas, lista, mostradas>> /\ proc[p].pc = "status"
        /\ meta' = [meta EXCEPT ![t] = IF meta[t] = "nada" THEN "status" ELSE meta[t]]
    BY <1>2 DEF HsetStatus, Acaba
  <2>2. t \in Mortas
    BY <1>0, <2>1 DEF FilaInv, ComTarefa
  <2> HIDE DEF t
  <2>3. /\ meta' \in [Mortas -> {"nada", "status", "inteira"}]
        /\ \A u \in Mortas : meta[u] = "inteira" => meta'[u] = "inteira"
    BY <2>1, <2>2, FilaFatos
  <2>4. Cardinality(Podando') >= Cardinality(Podando)
        /\ Cardinality(Podando) \in Nat /\ Cardinality(Podando') \in Nat
    BY <1>0, <2>1, OciosoType, PodandoMuda
  <2>5. NoLimite'
    BY <2>1, <2>4, FilaFatos, FilaConsts DEF FilaInv, NoLimite
  <2> QED BY <1>0, <2>1, <2>3, <2>5, OciosoType, FilaFatos, Larga
<1> QED BY <1>1, <1>2

LEMMA DlqDiscardInv ==
  ASSUME FilaInv, NEW p \in Operadores, NEW t \in Mortas, DlqDiscard(p, t)
  PROVE  FilaInv'
<1> DEFINE r == [pc |-> "descartada", t |-> t]
<1>0. p \in Processos /\ p \notin Podando
  BY FilaMortaConstants DEF Processos, Podando
<1>1. /\ t \in mostradas /\ lista' = Sem(t) /\ proc' = [proc EXCEPT ![p] = r]
      /\ UNCHANGED <<vivas, meta, mostradas>> /\ mortes' = mortes
  BY DEF DlqDiscard, Proximo
<1>2. r \in Cargo /\ r.pc = "descartada" /\ r.t = t
  BY DEF Cargo
<1> HIDE DEF r
<1>3. /\ lista' \in Seq(Mortas) /\ Unicos(lista') /\ Ids(lista') = Ids(lista) \ {t}
      /\ Len(lista') \in Nat /\ Len(lista') <= Len(lista)
  BY <1>1, FilaFatos, ListaLrem
<1>4. t \notin vivas /\ \A q \in Processos : ~PorEntrar(proc[q], t)
  BY <1>1 DEF FilaInv, Listados, Chegando
<1>5. \A u \in Ids(lista') : meta'[u] = "inteira" /\ u \notin vivas'
  BY <1>1, <1>3, FilaFatos DEF FilaInv, Listados
<1>6. \A u \in Mortas : ~PorEntrar(r, u) /\ (Saindo(r, u) => u = t)
  BY <1>2 DEF PorEntrar, Saindo
<1>7. \A q \in Processos \ {p}, u \in Mortas :
        /\ PorEntrar(proc[q], u) =>
             meta'[u] = "inteira" /\ u \notin Ids(lista') /\ u # t
        /\ Saindo(proc[q], u) => u \notin Ids(lista')
  BY <1>1, <1>3, <1>4, FilaFatos DEF FilaInv, Chegando, Partindo
<1>8. Cardinality(Podando') >= Cardinality(Podando)
      /\ Cardinality(Podando) \in Nat /\ Cardinality(Podando') \in Nat
  BY <1>0, <1>1, <1>2, PodandoMuda
<1>9. NoLimite'
  BY <1>1, <1>3, <1>8, FilaFatos, FilaConsts DEF FilaInv, NoLimite
<1>10. \A q \in Processos \ {p}, u \in Mortas :
         /\ PorEntrar(proc[q], u) =>
              /\ meta'[u] = "inteira" /\ u \notin Ids(lista')
              /\ ~PorEntrar(r, u) /\ ~Saindo(r, u)
         /\ Saindo(proc[q], u) => u \notin Ids(lista') /\ ~PorEntrar(r, u)
  BY <1>6, <1>7
<1>11. \A u \in Mortas :
         /\ PorEntrar(r, u) =>
              meta'[u] = "inteira" /\ u \notin Ids(lista') \cup vivas' \cup mostradas
         /\ Saindo(r, u) => u \notin Ids(lista') \cup vivas'
  BY <1>1, <1>3, <1>4, <1>6
<1>12. vivas' \subseteq vivas /\ mostradas' = mostradas /\ mortes' \in 0..MaxMortes
       /\ meta' \in [Mortas -> {"nada", "status", "inteira"}]
  BY <1>1, FilaFatos
<1> QED BY <1>0, <1>1, <1>2, <1>3, <1>5, <1>9, <1>10, <1>11, <1>12, PassoFila

(* A death may leave one item too many for good.                           *)
LEMMA ProcMorreInv ==
  ASSUME FilaInv, NEW p \in Processos, ProcMorre(p)
  PROVE  FilaInv'
<1>1. /\ mortes < MaxMortes /\ mortes' = mortes + 1
      /\ proc' = [proc EXCEPT ![p] = Ocioso]
      /\ UNCHANGED <<vivas, lista, meta, mostradas>>
  BY DEF ProcMorre, Acaba
<1>2. mortes' \in 0..MaxMortes /\ mortes \in Nat
  BY <1>1, FilaFatos, FilaConsts
<1>3. Cardinality(Podando') >= Cardinality(Podando) - 1
      /\ Cardinality(Podando) \in Nat /\ Cardinality(Podando') \in Nat
  BY <1>1, OciosoType, PodandoMuda
<1>4. NoLimite'
  BY <1>1, <1>2, <1>3, FilaFatos, FilaConsts DEF FilaInv, NoLimite
<1> QED BY <1>1, <1>2, <1>4, OciosoType, FilaFatos, Larga

LEMMA GetDlqInv == ASSUME FilaInv, GetDlq PROVE FilaInv'
<1>1. /\ mostradas' = mostradas \cup {t \in EmFila : meta[t] # "nada"}
      /\ UNCHANGED <<vivas, lista, meta, proc, mortes>>
  BY DEF GetDlq
<1>2. EmFila' = EmFila /\ Podando' = Podando
  BY <1>1 DEF EmFila, Podando
<1>3. mostradas' \subseteq Mortas /\ mostradas' \subseteq mostradas \cup EmFila
  BY <1>1, FilaFatos
<1>4. FilaMortaTypeOK'
  BY <1>1, <1>3 DEF FilaInv, FilaMortaTypeOK
<1>5. SemRepeticao' /\ Partindo' /\ ComTarefa' /\ NoLimite'
  BY <1>1, <1>2 DEF FilaInv, SemRepeticao, Partindo, ComTarefa, NoLimite
<1>6. Listados'
  BY <1>1, <1>2, <1>3 DEF FilaInv, Listados
<1>7. Chegando'
  BY <1>1, <1>2, <1>3 DEF FilaInv, Chegando
<1> QED BY <1>4, <1>5, <1>6, <1>7 DEF FilaInv

LEMMA FilaStart == FilaMortaInit => FilaInv
<1> SUFFICES ASSUME FilaMortaInit PROVE FilaInv
  OBVIOUS
<1>1. /\ vivas = Mortas /\ lista = <<>> /\ mostradas = {} /\ mortes = 0
      /\ meta = [t \in Mortas |-> "nada"] /\ proc = [p \in Processos |-> Ocioso]
  BY DEF FilaMortaInit
<1>2. FilaMortaTypeOK
  BY <1>1, OciosoType, FilaConsts DEF FilaMortaTypeOK, Cargo
<1>3. EmFila = {} /\ Len(lista) = 0
  BY <1>1 DEF EmFila
<1>4. \A p \in Processos : proc[p] = Ocioso
  BY <1>1
<1>5. Podando = {}
  BY <1>4, OciosoType DEF Podando, Processos
<1>6. NoLimite
  BY <1>1, <1>3, <1>5, FS_EmptySet, FilaConsts DEF NoLimite
<1>7. SemRepeticao /\ Listados
  BY <1>1, <1>3 DEF SemRepeticao, Listados
<1> QED BY <1>2, <1>4, <1>6, <1>7, OciosoType
    DEF FilaInv, Chegando, Partindo, ComTarefa

LEMMA FilaStep == FilaInv /\ [FilaMortaNext]_filaVars => FilaInv'
<1> SUFFICES ASSUME FilaInv, [FilaMortaNext]_filaVars PROVE FilaInv'
  OBVIOUS
<1>1. ASSUME NEW w \in Trabalhos, \E t \in Mortas : MoveToDlq(w, t) PROVE FilaInv'
  BY <1>1, MoveToDlqInv DEF Processos
<1>2. ASSUME NEW w \in Trabalhos, Lpush(w) \/ Llen(w) \/ Rpop(w) PROVE FilaInv'
  BY <1>2, LpushInv, LlenInv, RpopInv
<1>3. ASSUME NEW q \in Operadores, NEW t \in Mortas, DlqRetry(q, t) \/ DlqDiscard(q, t)
      PROVE  FilaInv'
  BY <1>3, OperadorInv, DlqDiscardInv
<1>4. ASSUME NEW q \in Operadores, HsetStatus(q) PROVE FilaInv'
  BY <1>4, OperadorInv
<1>5. ASSUME NEW p \in Processos, Del(p) \/ ProcMorre(p) PROVE FilaInv'
  BY <1>5, DelInv, ProcMorreInv
<1>6. CASE UNCHANGED filaVars
  BY <1>6 DEF filaVars, FilaInv, FilaMortaTypeOK, SemRepeticao, Listados, Chegando,
     Partindo, ComTarefa, NoLimite, Podando, EmFila
<1> QED BY <1>1, <1>2, <1>3, <1>4, <1>5, <1>6, GetDlqInv DEF FilaMortaNext

(* What the list shows can be opened and retried, and it passes its limit  *)
(* only by what is being trimmed or what a death left untrimmed            *)
(* (celery_observability.py:120, :122).                                    *)
THEOREM DeadLettersOpen == FilaMortaSpec => []FilaConfere
<1>1. FilaInv => FilaConfere
  BY FilaFatos DEF FilaInv, FilaConfere, NaFilaAbre, Listados
<1> QED BY <1>1, FilaStart, FilaStep, PTL DEF FilaMortaSpec
=============================================================================

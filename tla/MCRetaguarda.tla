----------------------------- MODULE MCRetaguarda -----------------------------
(***************************************************************************)
(* What overlapping requests may not do to the rows behind the counter,    *)
(* one part in each world, so that their states add up and do not          *)
(* multiply.                                                               *)
(***************************************************************************)
EXTENDS Frota, Anexos, Despesas, Escopo, Lembretes, Portal, Sessoes, Bot,
        FilaMorta, Cartoes

Tabelas == [i \in Linhas |->
  CASE i = "moto" -> "moto" [] i = "cliente" -> "cliente"
    [] i = "contrato" -> "contrato" [] i = "multa" -> "multa"
    [] i = "lancamento" -> "financeiro" [] OTHER -> "manutencao"]

(* A contact button, one of a built-in command, one of the owner's and one *)
(* that validate_bot_menu_buttons refuses.                                 *)
BotoesPadrao ==
  {[rotulo |-> "falar", comando |-> "contato", resposta |-> TRUE],
   [rotulo |-> "suporte", comando |-> "status", resposta |-> FALSE]}

BotoesDoDono == BotoesPadrao \cup
  {[rotulo |-> "horario", comando |-> "info", resposta |-> r] : r \in BOOLEAN}

VARIABLE mundo

Mundos == {"veiculos", "anexos", "fotos", "despesas", "linhas", "lembretes",
           "portal", "sessoes", "bot", "fila", "cartoes"}

todas == <<frotaVars, anexosVars, despesasVars, escopoVars, lembretesVars,
           portalVars, sessoesVars, botVars, filaVars, cartoesVars, mundo>>

SoEm(m) ==
  /\ UNCHANGED mundo /\ mundo = m
  /\ m # "veiculos" => UNCHANGED frotaVars
  /\ m \notin {"anexos", "fotos"} => UNCHANGED anexosVars
  /\ m # "despesas" => UNCHANGED despesasVars
  /\ m # "linhas" => UNCHANGED escopoVars
  /\ m # "lembretes" => UNCHANGED lembretesVars
  /\ m # "portal" => UNCHANGED portalVars
  /\ m # "sessoes" => UNCHANGED sessoesVars
  /\ m # "bot" => UNCHANGED botVars
  /\ m # "fila" => UNCHANGED filaVars
  /\ m # "cartoes" => UNCHANGED cartoesVars

(* The users are there: the administrator and an owner.                    *)
UsuariosDaRua ==
  /\ usuarios = [u \in Usuarios |-> IF u = Raiz
       THEN [st |-> "vivo", papel |-> "admin", op |-> SemOperacao]
       ELSE [st |-> "vivo", papel |-> "dono", op |-> CHOOSE o \in Operacoes : TRUE]]
  /\ acesso = [u \in Usuarios |-> TRUE]
  /\ entrando = [u \in Usuarios |-> FALSE]
  /\ linhas = [i \in Linhas |-> [st |-> "nenhuma", op |-> SemOperacao, refs |-> {}]]
  /\ es = [s \in SessoesEscopo |-> Parado]

RetaguardaInit ==
  /\ mundo \in Mundos
  /\ FrotaInit /\ AnexosInit /\ DespesasInit /\ UsuariosDaRua
  /\ LembretesInit /\ PortalInit /\ SessoesInit /\ BotInit /\ FilaMortaInit
  /\ CartoesInit
  /\ ~conectada
  /\ mundo # "veiculos" => \A v \in Veiculos : veiculos[v] = "disponivel"
  /\ \A v \in Veiculos : veiculos[v] # "manutencao"
  /\ \A c \in Alugueis : vence[c] = "d3"

(* No Mercado Pago, no deaths, no vehicle in maintenance; contracts are    *)
(* running, ended or deleted.                                              *)
PoucosVeiculos ==
  /\ ~conectada' /\ quedas' = 0
  /\ \A c \in Contratos : contratos'[c].st \in {"novo", "ativo", "finalizado", "excluido"}
  /\ \A s \in SessoesFrota : fs'[s].op = "fim" => fs'[s].st = "finalizado"
  /\ \A v \in Veiculos : veiculos'[v] # "manutencao"

(* At most three rows; one session lists, adds and edits beside an owner   *)
(* that edits and deletes.                                                 *)
PoucasLinhas ==
  LET um == CHOOSE s \in SessoesEscopo : TRUE IN
  /\ Cardinality({i \in Linhas : linhas'[i].st # "nenhuma"})
       + Cardinality({s \in SessoesEscopo : es'[s].pc = "inserir"}) <= 3
  /\ es'[um].pc # "excluir"
  /\ \A s \in SessoesEscopo \ {um} : 
       /\ es'[s].vistas = {} /\ es'[s].pc # "inserir"
       /\ es'[s] # es[s] => es'[s] = Parado \/ es'[s].u # Raiz

(* What bounds the reminders: a due date is moved once, from the third day *)
(* ahead to another reminder of the same day; a contract that ends stays   *)
(* ended; a queue holds one task of a kind; the second day follows a day   *)
(* without deaths and sees none.                                           *)
PoucosLembretes ==
  /\ \A c \in Alugueis :
       /\ ativo'[c] # ativo[c] => ~ativo'[c] /\ hora = 0 /\ dia = 0
       /\ hora < HorasDoDia => vence'[c] = vence[c] \/ (dia = 0 /\ vence[c] = "d3")
       /\ vence'[c] # "d1" => dia' = 0
  /\ dia = 1 => quedasLembretes' = quedasLembretes
  /\ \A k \in Tarefa : fila'[k] <= IF dia = 0 THEN 1 ELSE fila[k] + 1 - k.tent
  /\ dia' > dia =>
       /\ quedasLembretes = 0 /\ \A c \in Alugueis : ativo[c]
       /\ \A t \in Rondas : ronda[t].pc \in {"parada", "d1"}
       /\ \A w \in Carteiros : ~Desocupado(w) => repetivel = {}

(* One request saves and deletes cards beside one that does it all.        *)
PoucosCartoes == cs'[CHOOSE s \in SessoesCartao : TRUE].pc # "padrao"

RetaguardaNext ==
  \/ SoEm("veiculos") /\ FrotaNext /\ PoucosVeiculos
  \/ SoEm("anexos") /\ AnexosNext /\ UNCHANGED deFotos
  \/ SoEm("fotos") /\ AnexosNext /\ UNCHANGED deAnexos
  \/ SoEm("despesas") /\ DespesasNext
  \/ SoEm("linhas") /\ EscopoNext /\ UNCHANGED contas /\ PoucasLinhas
  \/ SoEm("lembretes") /\ LembretesNext /\ PoucosLembretes
  \/ SoEm("portal") /\ PortalNext
  \/ SoEm("sessoes") /\ SessoesNext
  \/ SoEm("bot") /\ BotNext
  \/ SoEm("fila") /\ FilaMortaNext
  \/ SoEm("cartoes") /\ CartoesNext /\ PoucosCartoes

RetaguardaSpec == RetaguardaInit /\ [][RetaguardaNext]_todas

(* The variables of every part keep their types.                           *)
RetaguardaTypeOK ==
  /\ EscopoTypeOK /\ LembretesTypeOK /\ PortalTypeOK /\ SessoesTypeOK
  /\ BotTypeOK /\ FilaMortaTypeOK /\ CartoesTypeOK
=============================================================================

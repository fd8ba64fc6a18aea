---------------------------------- MODULE Bot ----------------------------------
(***************************************************************************)
(* The Telegram bot (bot_main.py) and one of its users.  Messages are      *)
(* handled one after the other, but the handling of one message opens      *)
(* several database sessions and awaits Telegram between them, while the   *)
(* owners save their menus (templates.py) and customers are linked to a    *)
(* Telegram account.                                                       *)
(*                                                                         *)
(* A text is what the handlers tell apart: the label of a button, a menu   *)
(* word or free speech; a command starts with a slash.                     *)
(***************************************************************************)
EXTENDS FiniteSets, Naturals

CONSTANTS
  Locadoras,      \* operacoes
  Botoes,         \* buttons an owner may type in: rotulo, comando, resposta
  MenuPadrao,     \* DEFAULT_BOT_MENU_BUTTONS
  Falas,          \* texts: labels, menu words, free speech
  Barras,         \* commands
  PedemMenu,      \* texts is_menu_request accepts
  PedemContato,   \* texts, labels and commands of detect_intent's "contact"
  Ninguem

Integrados == {"status", "pix", "ajuda", "promessa", "menu"}
MaxBotoes == 6

(* validate_bot_menu_buttons, also applied to what was saved.              *)
ValidateSemResposta(m) ==          \* mutant: a command of its own may be mute
  /\ m # {} /\ Cardinality(m) <= MaxBotoes
  /\ \A a, b \in m : a.rotulo = b.rotulo \/ a.comando = b.comando => a = b
  /\ \A b \in m : b.comando \in Integrados => ~b.resposta

ValidateMenu(m) ==
  /\ m # {} /\ Cardinality(m) <= MaxBotoes
  /\ \A a, b \in m : a.rotulo = b.rotulo \/ a.comando = b.comando => a = b
  /\ \A b \in m : b.resposta <=> b.comando \notin Integrados

Menus == {m \in SUBSET Botoes : ValidateMenu(m)}

ASSUME BotConstants ==
  /\ MenuPadrao \in Menus /\ Falas # {} /\ Ninguem \notin Locadoras

VARIABLES
  menus,       \* telegram_bot_menu_buttons
  donoAvisa,   \* owners with notices switched on and a chat of their own
  cliente,     \* operacao of the customer with the user's telegram_id
  msg,         \* the message and how far its handler is
  respostas,   \* history: replies to the message
  avisos,      \* history: notices of it to each owner
  mexeram,     \* history: a menu, a customer or an owner changed since
  falhou       \* history: the reply to it failed

cadastro == <<menus, donoAvisa, cliente>>
botVars == <<cadastro, msg, respostas, avisos, mexeram, falhou>>

MenuDe(c) == IF c = Ninguem THEN MenuPadrao ELSE menus[c]

BotaoDe(m, comando) == {b \in m : b.comando = comando}

(* Where the handler goes on; the message is over.                         *)
Segue(pc) == msg' = [msg EXCEPT !.pc = pc]
Fim == Segue("fim")

IsContactRequest(texto, bs) ==
  \/ texto \in PedemContato
  \/ \E b \in bs : {b.rotulo, b.comando} \cap PedemContato # {}

-----------------------------------------------------------------------------
(* A message arrives.                                                      *)
Recebe(texto, barra) ==
  /\ msg.pc = "fim"
  /\ msg' = [pc |-> IF barra THEN "comando" ELSE "texto", texto |-> texto,
             barra |-> barra, comando |-> texto, toque |-> {}, bs |-> {},
             cli |-> Ninguem]
  /\ respostas' = 0 /\ avisos' = [o \in Locadoras |-> 0]
  /\ mexeram' = FALSE /\ falhou' = FALSE
  /\ UNCHANGED cadastro

(* handle_text_message: the label of a button, a menu word, or speech.     *)
HandleText ==
  LET tocado == {b \in MenuDe(cliente) : b.rotulo = msg.texto} IN
  /\ msg.pc = "texto"
  /\ \/ \E b \in tocado :
          msg' = [msg EXCEPT !.pc = "comando", !.comando = b.comando, !.toque = {b}]
     \/ /\ tocado = {}
        /\ Segue(IF msg.texto \in PedemMenu THEN "menu" ELSE "conversa")
  /\ UNCHANGED <<cadastro, respostas, avisos, mexeram, falhou>>

(* A reply, or an error of Telegram that ends the handler.                 *)
ReplyText(depois) ==
  /\ \/ respostas' = respostas + 1 /\ msg' = depois /\ UNCHANGED falhou
     \/ falhou' = TRUE /\ Fim /\ UNCHANGED respostas
  /\ UNCHANGED <<cadastro, avisos, mexeram>>

(* After a button's command, the button itself may have asked for          *)
(* somebody; one with a text of its own has told the owner already.        *)
AvisaSempre(toque) == toque # {}   \* mutant: that one too

AvisaDepois(toque) == \E b \in toque : ~b.resposta

Depois == IF AvisaDepois(msg.toque) THEN "consultar" ELSE "fim"

Comando(c) ==
  /\ msg.pc = "comando" /\ msg.comando = c
  /\ ReplyText([msg EXCEPT !.pc = Depois])

(* The built-in commands: one reply, whatever they find.  What a promise   *)
(* writes in the contract only the overdue notices read; the link cmd_pix  *)
(* makes sure of is in Portal.                                             *)
CmdPromessa == Comando("promessa")
CmdPix == Comando("pix")
CmdStatus == Comando("status")
CmdAjuda == Comando("ajuda")

SendMenu ==
  \/ Comando("menu")
  \/ msg.pc = "menu" /\ ReplyText([msg EXCEPT !.pc = "fim"])

(* _dispatch_menu_command of a command of the owner's: the menu is read    *)
(* again.  A button that is gone is left alone, a command is answered.     *)
DispatchMenuCommand ==
  LET achado == BotaoDe(MenuDe(cliente), msg.comando) IN
  /\ msg.pc = "comando" /\ msg.comando \notin Integrados
  /\ \/ \E b \in achado :
          /\ b.resposta
          /\ ReplyText([msg EXCEPT !.pc = "avisar", !.bs = {b}, !.cli = cliente])
     \/ /\ ~\E b \in achado : b.resposta
        /\ IF msg.barra THEN ReplyText([msg EXCEPT !.pc = "fim"])
           ELSE /\ Segue(Depois)
                /\ UNCHANGED <<cadastro, respostas, avisos, mexeram, falhou>>

(* send_contextual_reply: the customer is looked up, then the agent asked. *)
(* If it is switched off or fails, a template takes over.                  *)
AiReply ==
  /\ msg.pc = "conversa"
  /\ \/ ReplyText([msg EXCEPT !.pc = "avisar", !.cli = cliente])
     \/ /\ msg' = [msg EXCEPT !.pc = "modelo", !.cli = cliente]
        /\ UNCHANGED <<cadastro, respostas, avisos, mexeram, falhou>>

ContextualReply ==
  msg.pc = "modelo" /\ ReplyText([msg EXCEPT !.pc = "avisar"])

(* The customer is looked up again for the button that was touched.        *)
Consulta ==
  /\ msg.pc = "consultar"
  /\ msg' = [msg EXCEPT !.pc = "consultado", !.bs = msg.toque, !.toque = {},
                        !.cli = cliente]
  /\ UNCHANGED <<cadastro, respostas, avisos, mexeram, falhou>>

(* _notify_owner_contact, after another look for a customer that was not   *)
(* there: the customer's owner, or every owner for somebody who is         *)
(* nobody's customer yet, if notices are on.  One that fails is only       *)
(* logged.                                                                 *)
OperacoesForNotify(c) == IF c = Ninguem THEN donoAvisa ELSE {c}

NotifyOwner(o) == IF o \in donoAvisa THEN 1 ELSE 0

NotifyOwnerContact ==
  LET quem == IF msg.pc = "avisar" /\ msg.cli = Ninguem THEN cliente ELSE msg.cli
  IN
  /\ msg.pc \in {"avisar", "consultado"}
  /\ avisos' = IF IsContactRequest(msg.texto, msg.bs)
       THEN [o \in Locadoras |-> avisos[o] +
               IF o \in OperacoesForNotify(quem) THEN NotifyOwner(o) ELSE 0]
       ELSE avisos
  /\ Segue(Depois)
  /\ UNCHANGED <<cadastro, respostas, mexeram, falhou>>

-----------------------------------------------------------------------------
(* The owners' panel: update_operacao, and a customer's telegram_id.       *)
Mexe ==
  /\ mexeram' = TRUE
  /\ UNCHANGED <<msg, respostas, avisos, falhou>>

EditaMenu(o) ==
  /\ \E m \in Menus : m # menus[o] /\ menus' = [menus EXCEPT ![o] = m]
  /\ Mexe /\ UNCHANGED <<donoAvisa, cliente>>

LigaAviso(o) ==
  /\ donoAvisa' = IF o \in donoAvisa THEN donoAvisa \ {o} ELSE donoAvisa \cup {o}
  /\ Mexe /\ UNCHANGED <<menus, cliente>>

LigaCliente ==
  /\ cliente' \in (Locadoras \cup {Ninguem}) \ {cliente}
  /\ Mexe /\ UNCHANGED <<menus, donoAvisa>>

-----------------------------------------------------------------------------
BotInit ==
  /\ menus = [o \in Locadoras |-> MenuPadrao]
  /\ donoAvisa = {} /\ cliente = Ninguem
  /\ LET t == CHOOSE t \in Falas : TRUE IN
       msg = [pc |-> "fim", texto |-> t, barra |-> FALSE, comando |-> t,
              toque |-> {}, bs |-> {}, cli |-> Ninguem]
  /\ respostas = 1 /\ avisos = [o \in Locadoras |-> 0]
  /\ mexeram = TRUE /\ falhou = FALSE

BotNext ==
  \/ \E t \in Falas : Recebe(t, FALSE)
  \/ \E t \in Barras : Recebe(t, TRUE)
  \/ HandleText \/ DispatchMenuCommand \/ AiReply \/ ContextualReply
  \/ SendMenu \/ CmdPromessa \/ CmdPix \/ CmdStatus \/ CmdAjuda
  \/ Consulta \/ NotifyOwnerContact
  \/ \E o \in Locadoras : EditaMenu(o) \/ LigaAviso(o)
  \/ LigaCliente

BotSpec == BotInit /\ [][BotNext]_botVars

-----------------------------------------------------------------------------
BotTypeOK ==
  /\ menus \in [Locadoras -> Menus]
  /\ donoAvisa \subseteq Locadoras /\ cliente \in Locadoras \cup {Ninguem}
  /\ msg.pc \in {"fim", "texto", "comando", "menu", "conversa", "modelo",
                "consultar", "avisar", "consultado"}
  /\ {msg.toque, msg.bs} \subseteq SUBSET Botoes
  /\ respostas \in 0..1 /\ avisos \in [Locadoras -> Nat]
  /\ mexeram \in BOOLEAN /\ falhou \in BOOLEAN

(* Every message gets its answer.  Only Telegram's error, or a menu that   *)
(* was saved between the two times it is read (bot_main.py:544, :499),     *)
(* leaves one without: that button's command is then nobody's.             *)
SemRespostaSoSe == msg.pc = "fim" /\ respostas = 0 => falhou \/ mexeram

(* Somebody who asks for a human is announced once, to the owner of the    *)
(* customer or, while nobody knows them, to every owner - whichever way    *)
(* the request came: button, command of the owner's or speech that is not  *)
(* a menu word - and a message that asks for nothing is announced to       *)
(* nobody (bot_main.py:552).                                               *)
Pediu ==
  IF msg.barra
  THEN \E b \in BotaoDe(MenuDe(cliente), msg.texto) :
         b.resposta /\ IsContactRequest(msg.texto, {b})
  ELSE LET tocado == {b \in MenuDe(cliente) : b.rotulo = msg.texto} IN
       /\ tocado # {} \/ msg.texto \notin PedemMenu
       /\ IsContactRequest(msg.texto, tocado)

PedidoAvisado ==
  /\ \A o \in Locadoras : avisos[o] <= 1
  /\ msg.pc = "fim" /\ respostas = 1 /\ ~mexeram =>
       \A o \in Locadoras :
         avisos[o] = 1 <=> Pediu /\ o \in OperacoesForNotify(cliente) \cap donoAvisa
=============================================================================

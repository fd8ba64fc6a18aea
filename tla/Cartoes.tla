------------------------------- MODULE Cartoes -------------------------------
(***************************************************************************)
(* The saved cards of one customer (card_payment_service.py): a row for    *)
(* each card kept at Mercado Pago under the customer's record there.       *)
(*                                                                         *)
(* A request loads rows without a lock, calls Mercado Pago and commits at  *)
(* the end; it writes only what it changed, and an UPDATE of a row that is *)
(* gone rolls it back.                                                     *)
(***************************************************************************)
EXTENDS Naturals, FiniteSets

CONSTANTS
  Cartas,         \* cards, by the id Mercado Pago gives them
  Cadastros,      \* customer records at Mercado Pago
  SessoesCartao,
  SemCadastro

ASSUME CartoesConstants == SemCadastro \notin Cadastros

VARIABLES
  salvos,      \* rows of cliente_mp_cards: absent, kept, kept as the default
  clienteMp,   \* mercadopago_customer_id
  noMp,        \* record each card is kept under at Mercado Pago
  criados,     \* the records created for the customer's e-mail
  removidos,   \* history: cards a request took away at Mercado Pago
  cs           \* the requests

cartoesVars == <<salvos, clienteMp, noMp, criados, removidos, cs>>

Cartao == {"ausente", "guardado", "padrao"}

SessaoCartao == [pc: {"livre", "buscar", "criar", "cartao", "listar", "inserir",
                      "padrao", "remover", "apagar"},
                 lido: Cadastros \cup {SemCadastro},   \* as loaded
                 usa: Cadastros \cup {SemCadastro},
                 linhas: [Cartas -> Cartao],           \* as loaded
                 alvo: SUBSET Cartas,
                 primeiro: BOOLEAN]                    \* not has_cards

Folga == [pc |-> "livre", lido |-> SemCadastro, usa |-> SemCadastro,
          linhas |-> [x \in Cartas |-> "ausente"], alvo |-> {},
          primeiro |-> FALSE]

Salvo(x) == salvos[x] # "ausente"

Em(s, pc) == cs[s].pc = pc

Inicia(s, r) ==
  /\ Em(s, "livre")
  /\ cs' = [cs EXCEPT ![s] = r]
  /\ UNCHANGED <<salvos, clienteMp, noMp, criados, removidos>>

Encerra(s) == cs' = [cs EXCEPT ![s] = Folga]

-----------------------------------------------------------------------------
(* save_cliente_mp_card: the record first, unless the customer has one.    *)
SaveClienteMpCard(s) ==
  LET pc == IF clienteMp = SemCadastro THEN "buscar" ELSE "cartao" IN
  Inicia(s, [Folga EXCEPT !.pc = pc, !.lido = clienteMp, !.usa = clienteMp])

SearchCustomerByEmail(s) ==
  /\ Em(s, "buscar")
  /\ \/ /\ criados = {} /\ cs' = [cs EXCEPT ![s].pc = "criar"]
     \/ \E k \in criados : cs' = [cs EXCEPT ![s].pc = "cartao", ![s].usa = k]
  /\ UNCHANGED <<salvos, clienteMp, noMp, criados, removidos>>

CreateCustomer(s) ==
  /\ Em(s, "criar")
  /\ \E k \in Cadastros \ criados :
       /\ criados' = criados \cup {k}
       /\ cs' = [cs EXCEPT ![s].pc = "cartao", ![s].usa = k]
  /\ UNCHANGED <<salvos, clienteMp, noMp, removidos>>

(* A card saved again keeps its id.                                        *)
SaveCard(s) ==
  /\ Em(s, "cartao")
  /\ \E x \in Cartas :
       /\ noMp[x] \in {SemCadastro, cs[s].usa}
       /\ noMp' = [noMp EXCEPT ![x] = cs[s].usa]
       /\ cs' = [cs EXCEPT ![s].pc = "listar", ![s].alvo = {x}]
  /\ UNCHANGED <<salvos, clienteMp, criados, removidos>>

ListClienteMpCards(s) ==
  /\ Em(s, "listar")
  /\ cs' = [cs EXCEPT ![s].pc = "inserir",
                       ![s].primeiro = \A x \in Cartas : ~Salvo(x)]
  /\ UNCHANGED <<salvos, clienteMp, noMp, criados, removidos>>

(* The record is written by the request that found the customer without    *)
(* one; the row is refused if the card has one already.                    *)
GravaSemCadastro(s) == clienteMp     \* mutant: the record is not kept

GravaCadastro(s) == IF cs[s].lido = SemCadastro THEN cs[s].usa ELSE clienteMp

InsertCard(s) ==
  /\ Em(s, "inserir")
  /\ IF \E x \in cs[s].alvo : Salvo(x)
     THEN UNCHANGED <<salvos, clienteMp>>
     ELSE /\ salvos' = [x \in Cartas |->
               IF x \notin cs[s].alvo THEN salvos[x]
               ELSE IF cs[s].primeiro THEN "padrao" ELSE "guardado"]
          /\ clienteMp' = GravaCadastro(s)
  /\ Encerra(s)
  /\ UNCHANGED <<noMp, criados, removidos>>

-----------------------------------------------------------------------------
(* set_default_cliente_mp_card: only the rows that change are written.     *)
SetDefault(s, x) ==
  /\ Salvo(x)
  /\ Inicia(s, [Folga EXCEPT !.pc = "padrao", !.linhas = salvos, !.alvo = {x}])

CommitDefault(s) ==
  LET novo(x) == IF x \in cs[s].alvo THEN "padrao" ELSE "guardado"
      sujas == {x \in Cartas : cs[s].linhas[x] \notin {"ausente", novo(x)}}
  IN
  /\ Em(s, "padrao")
  /\ IF \A x \in sujas : Salvo(x)
     THEN salvos' = [x \in Cartas |->
                       IF x \in sujas THEN novo(x) ELSE salvos[x]]
     ELSE UNCHANGED salvos
  /\ Encerra(s)
  /\ UNCHANGED <<clienteMp, noMp, criados, removidos>>

(* delete_cliente_mp_card: at Mercado Pago first, whose refusal does not   *)
(* matter; a row that is gone neither.                                     *)
DeleteClienteMpCard(s, x) ==
  /\ Salvo(x)
  /\ Inicia(s, [Folga EXCEPT !.pc = "remover", !.lido = clienteMp, !.alvo = {x}])

DeleteCard(s) ==
  /\ Em(s, "remover")
  /\ \/ UNCHANGED <<noMp, removidos>>
     \/ \E x \in cs[s].alvo :
          /\ cs[s].lido # SemCadastro /\ noMp[x] = cs[s].lido
          /\ noMp' = [noMp EXCEPT ![x] = SemCadastro]
          /\ removidos' = removidos \cup {x}
  /\ cs' = [cs EXCEPT ![s].pc = "apagar", ![s].lido = SemCadastro]
  /\ UNCHANGED <<salvos, clienteMp, criados>>

CommitDeleteCard(s) ==
  /\ Em(s, "apagar")
  /\ salvos' = [x \in Cartas |->
                  IF x \in cs[s].alvo THEN "ausente" ELSE salvos[x]]
  /\ Encerra(s)
  /\ UNCHANGED <<clienteMp, noMp, criados, removidos>>

(* Mercado Pago refuses, or the request dies: what was done there stays.   *)
CartaoFalha(s) ==
  /\ ~Em(s, "livre")
  /\ Encerra(s)
  /\ UNCHANGED <<salvos, clienteMp, noMp, criados, removidos>>

CartoesInit ==
  /\ salvos = [x \in Cartas |-> "ausente"] /\ clienteMp = SemCadastro
  /\ noMp = [x \in Cartas |-> SemCadastro] /\ criados = {} /\ removidos = {}
  /\ cs = [s \in SessoesCartao |-> Folga]

CartoesNext ==
  \E s \in SessoesCartao :
    \/ SaveClienteMpCard(s) \/ SearchCustomerByEmail(s) \/ CreateCustomer(s)
    \/ SaveCard(s) \/ ListClienteMpCards(s) \/ InsertCard(s)
    \/ \E x \in Cartas : SetDefault(s, x) \/ DeleteClienteMpCard(s, x)
    \/ CommitDefault(s) \/ DeleteCard(s) \/ CommitDeleteCard(s)
    \/ CartaoFalha(s)

CartoesSpec == CartoesInit /\ [][CartoesNext]_cartoesVars

-----------------------------------------------------------------------------
CartoesTypeOK ==
  /\ salvos \in [Cartas -> Cartao]
  /\ clienteMp \in Cadastros \cup {SemCadastro}
  /\ noMp \in [Cartas -> Cadastros \cup {SemCadastro}]
  /\ criados \subseteq Cadastros /\ removidos \subseteq Cartas
  /\ cs \in [SessoesCartao -> SessaoCartao]

(* What a payment with a saved card needs: Mercado Pago makes a token only *)
(* for a card of the record the payment names.                             *)
Pagavel(x) == clienteMp # SemCadastro /\ noMp[x] = clienteMp

(* A card on the list can be paid with, however requests overlap or fail,  *)
(* but for two causes: somebody took it away at Mercado Pago and the row   *)
(* stayed or came back, or two first cards saved at once made two records  *)
(* of the customer (card_payment_service.py:76, :145).                     *)
CartaoPagavel ==
  \A x \in Cartas : Salvo(x) =>
    Pagavel(x) \/ x \in removidos \/ Cardinality(criados) > 1

(* At most one card is the default while requests do not overlap; two      *)
(* first cards, or two choices of the default, at once leave two           *)
(* (card_payment_service.py:124).                                          *)
UmPadrao == Cardinality({x \in Cartas : salvos[x] = "padrao"}) <= 1
=============================================================================

---------------------------- MODULE CartoesProofs ----------------------------
(***************************************************************************)
(* For any number of cards, customer records and requests: a card on the   *)
(* list can be paid with unless it was taken away at Mercado Pago or the   *)
(* customer got two records there.                                         *)
(*                                                                         *)
(* The argument is that every record in sight was created for the          *)
(* customer: with a single one, the record of the card and the record of   *)
(* the payment are the same.                                               *)
(***************************************************************************)
EXTENDS Cartoes, FiniteSetTheorems, TLAPS

(* Requests know only records that were created, and have one by the time  *)
(* they need it; what a request saw of the customer is still there.        *)
Conhecidos ==
  \A s \in SessoesCartao :
    /\ cs[s].usa \in criados \cup {SemCadastro}
    /\ cs[s].pc \in {"cartao", "listar", "inserir"} => cs[s].usa \in criados
    /\ cs[s].lido # SemCadastro => clienteMp \in criados

(* A card about to get a row is at Mercado Pago, or was taken away there.  *)
Guardada(x) == noMp[x] \in criados \/ x \in removidos

EmMaos ==
  \A s \in SessoesCartao : \A x \in cs[s].alvo :
    cs[s].pc \in {"listar", "inserir"} => Guardada(x)

Linhas == \A x \in Cartas : Salvo(x) => clienteMp \in criados /\ Guardada(x)

IInv ==
  /\ CartoesTypeOK
  /\ IsFiniteSet(criados)
  /\ clienteMp \in criados \cup {SemCadastro}
  /\ \A x \in Cartas : noMp[x] \in criados \cup {SemCadastro}
  /\ Conhecidos /\ EmMaos /\ Linhas

LEMMA FolgaType == Folga \in SessaoCartao
BY DEF Folga, SessaoCartao, Cartao

LEMMA InitInv == CartoesInit => IInv
<1> SUFFICES ASSUME CartoesInit PROVE IInv
  OBVIOUS
<1>1. IsFiniteSet(criados)
  BY FS_EmptySet DEF CartoesInit
<1>2. CartoesTypeOK
  BY FolgaType DEF CartoesInit, CartoesTypeOK, Cartao
<1> QED
  BY <1>1, <1>2 DEF CartoesInit, IInv, Conhecidos, EmMaos, Linhas, Guardada, Salvo, Folga

(* One request moves on, with a record of its own, and the rest of the     *)
(* state grows or stays.                                                   *)
LEMMA Move ==
  ASSUME IInv, NEW s \in SessoesCartao, NEW r \in SessaoCartao,
         cs' = [cs EXCEPT ![s] = r]
  PROVE  /\ cs' \in [SessoesCartao -> SessaoCartao]
         /\ cs'[s] = r
         /\ \A u \in SessoesCartao \ {s} : cs'[u] = cs[u]
BY DEF IInv, CartoesTypeOK

LEMMA MoveInv ==
  ASSUME IInv, NEW s \in SessoesCartao, NEW r \in SessaoCartao,
         cs' = [cs EXCEPT ![s] = r],
         salvos' \in [Cartas -> Cartao],
         clienteMp' \in criados' \cup {SemCadastro}, criados' \subseteq Cadastros,
         clienteMp \in criados => clienteMp' \in criados',
         noMp' \in [Cartas -> criados' \cup {SemCadastro}],
         removidos' \subseteq Cartas, removidos \subseteq removidos',
         criados \subseteq criados', IsFiniteSet(criados'),
         \A x \in Cartas : Guardada(x) => Guardada(x)',
         r.usa \in criados' \cup {SemCadastro},
         r.pc \in {"cartao", "listar", "inserir"} => r.usa \in criados',
         r.lido # SemCadastro => clienteMp' \in criados',
         r.pc \in {"listar", "inserir"} => \A x \in r.alvo : Guardada(x)',
         \A x \in Cartas : Salvo(x)' =>
           Salvo(x) \/ (clienteMp' \in criados' /\ Guardada(x)')
  PROVE  IInv'
<1>0. /\ cs' \in [SessoesCartao -> SessaoCartao]
      /\ cs'[s] = r
      /\ \A u \in SessoesCartao \ {s} : cs'[u] = cs[u]
  BY Move
<1>1. CartoesTypeOK'
  BY <1>0 DEF CartoesTypeOK
<1>2. Conhecidos'
  BY <1>0 DEF IInv, Conhecidos
<1>3. EmMaos'
  <2> SUFFICES ASSUME NEW u \in SessoesCartao, NEW x \in cs'[u].alvo,
                      cs'[u].pc \in {"listar", "inserir"}
               PROVE  Guardada(x)'
    BY DEF EmMaos
  <2>1. x \in Cartas
    BY <1>0 DEF SessaoCartao
  <2>2. CASE u = s
    BY <1>0, <2>2
  <2>3. CASE u # s
    BY <1>0, <2>1, <2>3 DEF IInv, EmMaos
  <2> QED BY <2>2, <2>3
<1>4. Linhas'
  BY DEF IInv, Linhas
<1> QED
  BY <1>1, <1>2, <1>3, <1>4 DEF IInv

(* A step that leaves rows, customer and Mercado Pago alone.               *)
LEMMA QuietInv ==
  ASSUME IInv, NEW s \in SessoesCartao, NEW r \in SessaoCartao,
         cs' = [cs EXCEPT ![s] = r],
         UNCHANGED <<salvos, clienteMp, noMp, criados, removidos>>,
         r.usa \in criados \cup {SemCadastro},
         r.pc \in {"cartao", "listar", "inserir"} => r.usa \in criados,
         r.lido # SemCadastro => clienteMp \in criados,
         r.pc \in {"listar", "inserir"} => \A x \in r.alvo : Guardada(x)
  PROVE  IInv'
<1>1. \A x \in r.alvo \cup Cartas : Guardada(x)' <=> Guardada(x)
  BY DEF Guardada
<1>2. \A x \in Cartas : Salvo(x)' <=> Salvo(x)
  BY DEF Salvo
<1> QED
  BY <1>1, <1>2, MoveInv DEF IInv, CartoesTypeOK

(* The record of a request after EXCEPTs on some fields.                   *)
LEMMA Fields ==
  ASSUME IInv, NEW s \in SessoesCartao
  PROVE  /\ cs \in [SessoesCartao -> SessaoCartao]
         /\ cs[s] \in SessaoCartao
         /\ cs[s].lido # SemCadastro => clienteMp \in criados
         /\ cs[s].usa \in criados \cup {SemCadastro}
         /\ cs[s].pc \in {"cartao", "listar", "inserir"} => cs[s].usa \in criados
BY DEF IInv, CartoesTypeOK, Conhecidos

LEMMA FolgaFields ==
  /\ Folga.pc = "livre" /\ Folga.lido = SemCadastro /\ Folga.usa = SemCadastro
  /\ Folga.alvo = {}
BY DEF Folga

-----------------------------------------------------------------------------
LEMMA SaveInv ==
  ASSUME IInv, NEW s \in SessoesCartao, SaveClienteMpCard(s)
  PROVE  IInv'
<1> DEFINE pc == IF clienteMp = SemCadastro THEN "buscar" ELSE "cartao"
           r == [Folga EXCEPT !.pc = pc, !.lido = clienteMp, !.usa = clienteMp]
<1>1. r \in SessaoCartao
  BY FolgaType DEF IInv, CartoesTypeOK, SessaoCartao
<1>2. r.pc = pc /\ r.lido = clienteMp /\ r.usa = clienteMp
  BY FolgaType DEF SessaoCartao
<1>3. cs' = [cs EXCEPT ![s] = r]
      /\ UNCHANGED <<salvos, clienteMp, noMp, criados, removidos>>
  BY DEF SaveClienteMpCard, Inicia
<1>4. r.pc \in {"cartao", "listar", "inserir"} => r.usa \in criados
  BY <1>2 DEF IInv
<1> HIDE DEF r
<1> QED
  BY <1>1, <1>2, <1>3, <1>4, QuietInv DEF IInv

LEMMA ChooseInv ==
  ASSUME IInv, NEW s \in SessoesCartao, NEW x \in Cartas,
         SetDefault(s, x) \/ DeleteClienteMpCard(s, x)
  PROVE  IInv'
<1> DEFINE d == [Folga EXCEPT !.pc = "padrao", !.linhas = salvos, !.alvo = {x}]
           e == [Folga EXCEPT !.pc = "remover", !.lido = clienteMp, !.alvo = {x}]
<1>1. d \in SessaoCartao /\ e \in SessaoCartao
  BY FolgaType DEF IInv, CartoesTypeOK, SessaoCartao
<1>2. /\ d.pc = "padrao" /\ d.lido = SemCadastro /\ d.usa = SemCadastro
      /\ e.pc = "remover" /\ e.lido = clienteMp /\ e.usa = SemCadastro
  BY DEF Folga
<1>3. clienteMp # SemCadastro => clienteMp \in criados
  BY DEF IInv
<1>4. /\ UNCHANGED <<salvos, clienteMp, noMp, criados, removidos>>
      /\ cs' = [cs EXCEPT ![s] = d] \/ cs' = [cs EXCEPT ![s] = e]
  BY DEF SetDefault, DeleteClienteMpCard, Inicia
<1> HIDE DEF d, e
<1>5. CASE cs' = [cs EXCEPT ![s] = d]
  BY <1>1, <1>2, <1>4, <1>5, QuietInv
<1>6. CASE cs' = [cs EXCEPT ![s] = e]
  BY <1>1, <1>2, <1>3, <1>4, <1>6, QuietInv
<1> QED BY <1>4, <1>5, <1>6

LEMMA SearchInv ==
  ASSUME IInv, NEW s \in SessoesCartao, SearchCustomerByEmail(s)
  PROVE  IInv'
<1>1. CASE criados = {} /\ cs' = [cs EXCEPT ![s].pc = "criar"]
  <2> DEFINE r == [cs[s] EXCEPT !.pc = "criar"]
  <2>1. r \in SessaoCartao /\ r.pc = "criar" /\ r.lido = cs[s].lido
        /\ r.usa = cs[s].usa
    BY Fields DEF SessaoCartao
  <2>2. cs' = [cs EXCEPT ![s] = r]
    BY <1>1
  <2> HIDE DEF r
  <2> QED BY <2>1, <2>2, Fields, QuietInv DEF SearchCustomerByEmail
<1>2. ASSUME NEW k \in criados,
             cs' = [cs EXCEPT ![s].pc = "cartao", ![s].usa = k]
      PROVE  IInv'
  <2> DEFINE r == [cs[s] EXCEPT !.pc = "cartao", !.usa = k]
  <2>0. k \in Cadastros
    BY DEF IInv, CartoesTypeOK
  <2>1. r \in SessaoCartao /\ r.pc = "cartao" /\ r.lido = cs[s].lido /\ r.usa = k
    BY <2>0, Fields DEF SessaoCartao
  <2>2. cs' = [cs EXCEPT ![s] = r]
    BY <1>2, Fields DEF SessaoCartao
  <2> HIDE DEF r
  <2> QED BY <2>1, <2>2, Fields, QuietInv DEF SearchCustomerByEmail
<1> QED BY <1>1, <1>2 DEF SearchCustomerByEmail

LEMMA CreateInv ==
  ASSUME IInv, NEW s \in SessoesCartao, CreateCustomer(s)
  PROVE  IInv'
<1>1. PICK k \in Cadastros \ criados :
        /\ criados' = criados \cup {k}
        /\ cs' = [cs EXCEPT ![s].pc = "cartao", ![s].usa = k]
  BY DEF CreateCustomer
<1> DEFINE r == [cs[s] EXCEPT !.pc = "cartao", !.usa = k]
<1>2. r \in SessaoCartao /\ r.pc = "cartao" /\ r.lido = cs[s].lido /\ r.usa = k
  BY Fields DEF SessaoCartao
<1>3. cs' = [cs EXCEPT ![s] = r]
  BY <1>1, Fields DEF SessaoCartao
<1>4. IsFiniteSet(criados')
  BY <1>1, FS_AddElement DEF IInv
<1>5. UNCHANGED <<salvos, clienteMp, noMp, removidos>>
  BY DEF CreateCustomer
<1>6. \A x \in Cartas : (Guardada(x) => Guardada(x)') /\ (Salvo(x)' <=> Salvo(x))
  BY <1>1, <1>5 DEF Guardada, Salvo
<1>7. /\ criados' \subseteq Cadastros
      /\ clienteMp' \in criados' \cup {SemCadastro}
      /\ noMp' \in [Cartas -> criados' \cup {SemCadastro}]
      /\ k \in criados' /\ criados \subseteq criados'
  BY <1>1, <1>5 DEF IInv, CartoesTypeOK
<1>8. salvos' \in [Cartas -> Cartao] /\ removidos' \subseteq Cartas
  BY <1>5 DEF IInv, CartoesTypeOK
<1>9. cs[s].lido # SemCadastro => clienteMp' \in criados'
  BY <1>5, <1>7, Fields
<1> HIDE DEF r
<1> QED
  BY <1>2, <1>3, <1>4, <1>5, <1>6, <1>7, <1>8, <1>9, MoveInv

LEMMA SaveCardInv ==
  ASSUME IInv, NEW s \in SessoesCartao, SaveCard(s)
  PROVE  IInv'
<1>1. PICK x \in Cartas :
        /\ noMp' = [noMp EXCEPT ![x] = cs[s].usa]
        /\ cs' = [cs EXCEPT ![s].pc = "listar", ![s].alvo = {x}]
  BY DEF SaveCard
<1> DEFINE r == [cs[s] EXCEPT !.pc = "listar", !.alvo = {x}]
<1>2. r \in SessaoCartao /\ r.pc = "listar" /\ r.lido = cs[s].lido
      /\ r.usa = cs[s].usa /\ r.alvo = {x}
  BY Fields DEF SessaoCartao
<1>3. cs' = [cs EXCEPT ![s] = r]
  BY <1>1, Fields DEF SessaoCartao
<1>4. cs[s].usa \in criados /\ UNCHANGED <<salvos, clienteMp, criados, removidos>>
  BY Fields DEF SaveCard, Em
<1>5. noMp' \in [Cartas -> criados \cup {SemCadastro}] /\ noMp'[x] \in criados
  BY <1>1, <1>4 DEF IInv, CartoesTypeOK
<1>6. /\ \A y \in Cartas : (Guardada(y) => Guardada(y)') /\ (Salvo(y)' <=> Salvo(y))
      /\ Guardada(x)'
  BY <1>1, <1>4, <1>5 DEF Guardada, Salvo, IInv, CartoesTypeOK
<1> HIDE DEF r
<1> QED
  BY <1>2, <1>3, <1>4, <1>5, <1>6, Fields, MoveInv DEF IInv, CartoesTypeOK

LEMMA ListInv ==
  ASSUME IInv, NEW s \in SessoesCartao, ListClienteMpCards(s)
  PROVE  IInv'
<1> DEFINE p == \A x \in Cartas : ~Salvo(x)
           r == [cs[s] EXCEPT !.pc = "inserir", !.primeiro = p]
<1>0. p \in BOOLEAN
  OBVIOUS
<1>1. cs' = [cs EXCEPT ![s].pc = "inserir", ![s].primeiro = p]
      /\ cs[s].pc = "listar"
      /\ UNCHANGED <<salvos, clienteMp, noMp, criados, removidos>>
  BY DEF ListClienteMpCards, Em
<1> HIDE DEF p
<1>2. r \in SessaoCartao /\ r.pc = "inserir" /\ r.lido = cs[s].lido
      /\ r.usa = cs[s].usa /\ r.alvo = cs[s].alvo
  BY <1>0, Fields DEF SessaoCartao
<1>3. cs' = [cs EXCEPT ![s] = r]
  BY <1>1, Fields DEF SessaoCartao
<1>4. \A x \in cs[s].alvo : Guardada(x)
  BY <1>1 DEF IInv, EmMaos
<1>5. /\ r.usa \in criados \cup {SemCadastro} /\ r.usa \in criados
      /\ r.lido # SemCadastro => clienteMp \in criados
  BY <1>1, <1>2, Fields
<1>6. \A x \in r.alvo : Guardada(x)
  BY <1>2, <1>4
<1> HIDE DEF r
<1> QED
  BY <1>1, <1>2, <1>3, <1>5, <1>6, QuietInv

LEMMA InsertInv ==
  ASSUME IInv, NEW s \in SessoesCartao, InsertCard(s)
  PROVE  IInv'
<1>1. /\ cs' = [cs EXCEPT ![s] = Folga] /\ cs[s].pc = "inserir"
      /\ UNCHANGED <<noMp, criados, removidos>>
  BY DEF InsertCard, Encerra, Em
<1>2. \A x \in Cartas : Guardada(x)' <=> Guardada(x)
  BY <1>1 DEF Guardada
<1>3. CASE UNCHANGED <<salvos, clienteMp>>
  BY <1>1, <1>3, FolgaType, FolgaFields, QuietInv
<1>4. CASE /\ salvos' = [x \in Cartas |->
                 IF x \notin cs[s].alvo THEN salvos[x]
                 ELSE IF cs[s].primeiro THEN "padrao" ELSE "guardado"]
           /\ clienteMp' = GravaCadastro(s)
  <2>1. salvos' \in [Cartas -> Cartao]
    BY <1>4 DEF IInv, CartoesTypeOK, Cartao
  <2>2. clienteMp' \in criados
    BY <1>1, <1>4, Fields DEF GravaCadastro
  <2>3. \A x \in Cartas : Salvo(x)' => Salvo(x) \/ x \in cs[s].alvo
    BY <1>4 DEF Salvo
  <2>4. \A x \in cs[s].alvo : Guardada(x)
    BY <1>1 DEF IInv, EmMaos
  <2> QED
    BY <1>1, <1>2, <2>1, <2>2, <2>3, <2>4, FolgaType, FolgaFields, MoveInv
       DEF IInv, CartoesTypeOK
<1> QED BY <1>3, <1>4 DEF InsertCard

LEMMA CommitDefaultInv ==
  ASSUME IInv, NEW s \in SessoesCartao, CommitDefault(s)
  PROVE  IInv'
<1>1. /\ cs' = [cs EXCEPT ![s] = Folga]
      /\ UNCHANGED <<clienteMp, noMp, criados, removidos>>
  BY DEF CommitDefault, Encerra
<1>2. salvos' \in [Cartas -> Cartao] /\ \A x \in Cartas : Salvo(x)' => Salvo(x)
  BY DEF CommitDefault, Salvo, IInv, CartoesTypeOK, Cartao
<1>3. \A x \in Cartas : Guardada(x)' <=> Guardada(x)
  BY <1>1 DEF Guardada
<1> QED
  BY <1>1, <1>2, <1>3, FolgaType, FolgaFields, MoveInv DEF IInv, CartoesTypeOK

LEMMA DeleteCardInv ==
  ASSUME IInv, NEW s \in SessoesCartao, DeleteCard(s)
  PROVE  IInv'
<1> DEFINE r == [cs[s] EXCEPT !.pc = "apagar", !.lido = SemCadastro]
<1>1. r \in SessaoCartao /\ r.pc = "apagar" /\ r.lido = SemCadastro
      /\ r.usa = cs[s].usa
  BY Fields DEF SessaoCartao
<1>2. cs' = [cs EXCEPT ![s] = r] /\ UNCHANGED <<salvos, clienteMp, criados>>
  BY Fields DEF DeleteCard, SessaoCartao
<1>3. /\ noMp' \in [Cartas -> criados \cup {SemCadastro}]
      /\ removidos' \subseteq Cartas /\ removidos \subseteq removidos'
      /\ \A x \in Cartas : noMp'[x] = noMp[x] \/ x \in removidos'
  BY Fields DEF DeleteCard, IInv, CartoesTypeOK, SessaoCartao
<1>4. \A x \in Cartas : (Guardada(x) => Guardada(x)') /\ (Salvo(x)' <=> Salvo(x))
  BY <1>2, <1>3 DEF Guardada, Salvo
<1> HIDE DEF r
<1> QED
  BY <1>1, <1>2, <1>3, <1>4, Fields, MoveInv DEF IInv, CartoesTypeOK

LEMMA CommitDeleteInv ==
  ASSUME IInv, NEW s \in SessoesCartao, CommitDeleteCard(s)
  PROVE  IInv'
<1>1. /\ cs' = [cs EXCEPT ![s] = Folga]
      /\ UNCHANGED <<clienteMp, noMp, criados, removidos>>
  BY DEF CommitDeleteCard, Encerra
<1>2. salvos' \in [Cartas -> Cartao] /\ \A x \in Cartas : Salvo(x)' => Salvo(x)
  BY DEF CommitDeleteCard, Salvo, IInv, CartoesTypeOK, Cartao
<1>3. \A x \in Cartas : Guardada(x)' <=> Guardada(x)
  BY <1>1 DEF Guardada
<1> QED
  BY <1>1, <1>2, <1>3, FolgaType, FolgaFields, MoveInv DEF IInv, CartoesTypeOK

LEMMA FalhaInv ==
  ASSUME IInv, NEW s \in SessoesCartao, CartaoFalha(s)
  PROVE  IInv'
BY FolgaType, FolgaFields, QuietInv DEF CartaoFalha, Encerra

LEMMA StutterInv ==
  ASSUME IInv, UNCHANGED cartoesVars
  PROVE  IInv'
BY DEF cartoesVars, IInv, CartoesTypeOK, Conhecidos, EmMaos, Linhas, Guardada, Salvo

LEMMA NextInv == IInv /\ [CartoesNext]_cartoesVars => IInv'
<1> SUFFICES ASSUME IInv, [CartoesNext]_cartoesVars PROVE IInv'
  OBVIOUS
<1>1. CASE UNCHANGED cartoesVars
  BY <1>1, StutterInv
<1>2. CASE CartoesNext
  <2>1. PICK s \in SessoesCartao :
          \/ SaveClienteMpCard(s) \/ SearchCustomerByEmail(s) \/ CreateCustomer(s)
          \/ SaveCard(s) \/ ListClienteMpCards(s) \/ InsertCard(s)
          \/ \E x \in Cartas : SetDefault(s, x) \/ DeleteClienteMpCard(s, x)
          \/ CommitDefault(s) \/ DeleteCard(s) \/ CommitDeleteCard(s)
          \/ CartaoFalha(s)
    BY <1>2 DEF CartoesNext
  <2> QED
    BY <2>1, SaveInv, SearchInv, CreateInv, SaveCardInv, ListInv, InsertInv,
       ChooseInv, CommitDefaultInv, DeleteCardInv, CommitDeleteInv, FalhaInv
<1> QED BY <1>1, <1>2

(* Two members make a set of at least two.                                 *)
LEMMA UmSo ==
  ASSUME NEW S, IsFiniteSet(S), ~(Cardinality(S) > 1), NEW a \in S, NEW b \in S
  PROVE  a = b
<1> SUFFICES ASSUME a # b PROVE FALSE
  OBVIOUS
<1>1. IsFiniteSet({a}) /\ Cardinality({a}) = 1
  BY FS_Singleton
<1>2. Cardinality({a} \cup {b}) = 2
  BY <1>1, FS_AddElement
<1>3. Cardinality({a} \cup {b}) <= Cardinality(S)
  BY FS_Subset
<1>4. Cardinality(S) \in Nat
  BY FS_CardinalityType
<1> QED BY <1>2, <1>3, <1>4

LEMMA InvPagavel == IInv => CartaoPagavel
<1> SUFFICES ASSUME IInv, NEW x \in Cartas, Salvo(x), x \notin removidos,
                    ~(Cardinality(criados) > 1)
             PROVE  Pagavel(x)
  BY DEF CartaoPagavel
<1>1. clienteMp \in criados /\ noMp[x] \in criados
  BY DEF IInv, Linhas, Guardada
<1>2. noMp[x] = clienteMp
  BY <1>1, UmSo DEF IInv
<1>3. clienteMp # SemCadastro
  BY <1>1, CartoesConstants DEF IInv, CartoesTypeOK
<1> QED BY <1>2, <1>3 DEF Pagavel

(* A card on the list can be paid with, for any number of requests that    *)
(* save, choose, delete and fail at any point                              *)
(* (card_payment_service.py:58-153).                                       *)
THEOREM CardPayable == CartoesSpec => []CartaoPagavel
<1>1. IInv => CartaoPagavel
  BY InvPagavel
<1> QED BY <1>1, InitInv, NextInv, PTL DEF CartoesSpec
=============================================================================

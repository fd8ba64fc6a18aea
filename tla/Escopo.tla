-------------------------------- MODULE Escopo --------------------------------
(***************************************************************************)
(* Who may do what to whose rows: users and their access tokens            *)
(* (operacao_service.py, auth_service.py), the scope of a request          *)
(* (deps.py), and the rows of an operacao with the rows they refer to      *)
(* (fleet_service, multa_service, finance_service, manutencao_service).    *)
(*                                                                         *)
(* An access token is not looked up: it says who the user was.  A request  *)
(* reads and checks first and commits later; the database refuses only     *)
(* what breaks a foreign key.                                              *)
(***************************************************************************)
EXTENDS Naturals, FiniteSets

CONSTANTS
  Operacoes, Usuarios, Linhas, SessoesEscopo,
  TipoDe,        \* the table each row is of
  Raiz,          \* the administrator that is there from the start
  SemOperacao    \* no operacao, no row

Tipos == {"moto", "cliente", "contrato", "multa", "financeiro", "manutencao"}

ASSUME EscopoConstants ==
  /\ TipoDe \in [Linhas -> Tipos]
  /\ Raiz \in Usuarios
  /\ SemOperacao \notin Operacoes \cup Linhas

VARIABLES
  usuarios,    \* rows of usuarios
  acesso,      \* the user has an access token that has not expired
  entrando,    \* a login or refresh found the user and will hand out tokens
  linhas,      \* rows: the operacao and the rows referred to
  es           \* the requests

escopoVars == <<usuarios, acesso, entrando, linhas, es>>
contas == <<usuarios, acesso, entrando>>

Usuario == [st: {"nenhum", "vivo", "excluido"},
            papel: {"admin", "dono"},
            op: Operacoes \cup {SemOperacao}]

Linha_ == [st: {"nenhuma", "viva", "excluida"},
           op: Operacoes \cup {SemOperacao},
           refs: SUBSET Linhas]

Pedido == [pc: {"livre", "inserir", "gravar", "excluir"},
           u: Usuarios, escopo: Operacoes \cup {SemOperacao},
           alvo: Linhas \cup {SemOperacao},
           poe: SUBSET Linhas,      \* references it sets
           vistas: SUBSET Linhas]   \* what it was shown

Parado == [pc |-> "livre", u |-> Raiz, escopo |-> SemOperacao,
           alvo |-> SemOperacao, poe |-> {}, vistas |-> {}]

Viva(i) == linhas[i].st = "viva"

Tabela(tipo) == {i \in Linhas : TipoDe[i] = tipo}

Da(tipo) == {i \in Tabela(tipo) : Viva(i)}

Referida(i, tipo) == \E j \in Da(tipo) : i \in linhas[j].refs

-----------------------------------------------------------------------------
(* deps.py: a valid token, and the operacao a request is about.            *)
RequireOperacional(u) ==
  acesso[u] /\ (usuarios[u].papel = "dono" => usuarios[u].op # SemOperacao)

ResolveOperacao(u) ==
  IF usuarios[u].papel = "dono" THEN {usuarios[u].op}
  ELSE Operacoes \cup {SemOperacao}

(* The scope clause of the list queries, and the checks of the get_*.      *)
Escopado(u, e, rows) ==
  {i \in rows :
     IF usuarios[u].papel = "dono" THEN linhas[i].op = usuarios[u].op
     ELSE e # SemOperacao => linhas[i].op = e}

Alcanca(u, e, i) ==
  /\ Viva(i)
  /\ usuarios[u].papel = "dono" => linhas[i].op = usuarios[u].op
  /\ usuarios[u].papel = "admin" /\ e # SemOperacao => linhas[i].op = e

ListMotos(u, e)       == Escopado(u, e, Da("moto"))
ListClientes(u, e)    == Escopado(u, e, Da("cliente"))
ListContratos(u, e)   == Escopado(u, e, Da("contrato"))
ListMultas(u, e)      == Escopado(u, e, Da("multa"))
ListFinanceiro(u, e)  == Escopado(u, e, Da("financeiro"))
ListManutencoes(u, e) == Escopado(u, e, Da("manutencao"))

-----------------------------------------------------------------------------
Abre(s, r) == es[s].pc = "livre" /\ es' = [es EXCEPT ![s] = r]

Fecha(s) == es' = [es EXCEPT ![s] = Parado]

Mostra(s, u, e, rows) ==
  /\ Abre(s, [Parado EXCEPT !.u = u, !.escopo = e, !.vistas = rows])
  /\ UNCHANGED <<contas, linhas>>

(* Every relation of a body is a row of the operacao.                      *)
ValidaExistencia(op, refs) == \A r \in refs : Viva(r)   \* mutant: of any operacao

ValidaRelacoes(op, refs) == \A r \in refs : Viva(r) /\ linhas[r].op = op

UmDeCada(refs, tipos) ==
  /\ \A r \in refs : TipoDe[r] \in tipos
  /\ \A r, q \in refs : TipoDe[r] = TipoDe[q] => r = q

Relacoes == {refs \in SUBSET Linhas : UmDeCada(refs, {"moto", "cliente", "contrato"})}

Tem(refs, tipos) == \A t \in tipos : \E r \in refs : TipoDe[r] = t

Cria(s, u, e, i, refs) ==
  /\ linhas[i].st = "nenhuma" /\ \A t \in SessoesEscopo : es[t].alvo # i
  /\ e # SemOperacao
  /\ ValidaRelacoes(e, refs)
  /\ Abre(s, [Parado EXCEPT !.pc = "inserir", !.u = u, !.escopo = e,
                            !.alvo = i, !.poe = refs])
  /\ UNCHANGED <<contas, linhas>>

CreateMoto(s, u, e, i) == Cria(s, u, e, i, {})

CreateCliente(s, u, e, i) == Cria(s, u, e, i, {})

CreateContrato_(s, u, e, i, refs) ==
  /\ UmDeCada(refs, {"cliente", "moto"}) /\ Tem(refs, {"cliente", "moto"})
  /\ Cria(s, u, e, i, refs)

(* A fine that would have no customer takes the contract's.               *)
DoContrato(refs) ==
  IF Tem(refs, {"cliente"}) THEN {}
  ELSE {c \in Linhas : TipoDe[c] = "cliente" /\
          \E k \in refs : TipoDe[k] = "contrato" /\ c \in linhas[k].refs}

CreateMulta(s, u, e, i, refs) ==
  /\ Tem(refs, {"moto"})
  /\ Cria(s, u, e, i, refs \cup DoContrato(refs))

CreateFinanceiro_(s, u, e, i, refs) ==
  /\ UmDeCada(refs, {"moto", "contrato"})
  /\ Cria(s, u, e, i, refs)

CreateManutencao_(s, u, e, i, refs) ==
  /\ UmDeCada(refs, {"moto"}) /\ Tem(refs, {"moto"})
  /\ Cria(s, u, e, i, refs)

(* An edition keeps what the body leaves out; the relations it ends up     *)
(* with are checked, of a maintenance only the new one.                    *)
Edita(s, u, e, i, refs, confere) ==
  /\ Alcanca(u, e, i)
  /\ ValidaRelacoes(linhas[i].op, confere)
  /\ Abre(s, [Parado EXCEPT !.pc = "gravar", !.u = u, !.escopo = e,
                            !.alvo = i, !.poe = refs \ linhas[i].refs])
  /\ UNCHANGED <<contas, linhas>>

Efetivas(i, refs) ==
  refs \cup {r \in linhas[i].refs : \A n \in refs : TipoDe[n] # TipoDe[r]}

UpdateMulta(s, u, e, i, refs) ==
  LET efetivas == Efetivas(i, refs) IN
  Edita(s, u, e, i, efetivas \cup DoContrato(efetivas), efetivas)

UpdateFinanceiro_(s, u, e, i, refs) ==
  /\ UmDeCada(refs, {"moto", "contrato"})
  /\ Edita(s, u, e, i, refs, Efetivas(i, refs))

UpdateManutencao(s, u, e, i, refs) ==
  /\ UmDeCada(refs, {"moto"})
  /\ Edita(s, u, e, i, refs, refs)

Exclui(s, u, e, i) ==
  /\ Alcanca(u, e, i)
  /\ Abre(s, [Parado EXCEPT !.pc = "excluir", !.u = u, !.escopo = e, !.alvo = i])
  /\ UNCHANGED <<contas, linhas>>

DeleteMoto(s, u, e, i) ==
  /\ ~Referida(i, "contrato") /\ ~Referida(i, "multa")
  /\ Exclui(s, u, e, i)

DeleteCliente(s, u, e, i) ==
  ~Referida(i, "contrato") /\ Exclui(s, u, e, i)

DeleteContrato_(s, u, e, i) == Exclui(s, u, e, i)

DeleteMulta(s, u, e, i) == Exclui(s, u, e, i)

DeleteFinanceiro_(s, u, e, i) == Exclui(s, u, e, i)

DeleteManutencao_(s, u, e, i) == Exclui(s, u, e, i)

-----------------------------------------------------------------------------
(* The commits.  A reference written must exist; a row that is gone is not *)
(* updated.                                                                *)
CommitInsert(s) ==
  LET r == es[s] IN
  /\ r.pc = "inserir" /\ \A q \in r.poe : Viva(q)
  /\ linhas' = [linhas EXCEPT ![r.alvo] =
                  [st |-> "viva", op |-> r.escopo, refs |-> r.poe]]
  /\ Fecha(s) /\ UNCHANGED contas

CommitUpdate_(s) ==
  LET r == es[s] IN
  /\ r.pc = "gravar" /\ Viva(r.alvo) /\ \A q \in r.poe : Viva(q)
  /\ linhas' = [linhas EXCEPT ![r.alvo].refs =
       {q \in @ : \A n \in r.poe : TipoDe[n] # TipoDe[q]} \cup r.poe]
  /\ Fecha(s) /\ UNCHANGED contas

(* Columns that may be empty are emptied; the others keep the row alive.   *)
Anulavel(i, j) ==
  \/ TipoDe[j] = "financeiro"
  \/ TipoDe[j] = "multa" /\ TipoDe[i] # "moto"

CommitDelete(s) ==
  LET i == es[s].alvo IN
  /\ es[s].pc = "excluir"
  /\ \A j \in Linhas : Viva(j) /\ i \in linhas[j].refs => Anulavel(i, j)
  /\ linhas' = [j \in Linhas |->
       IF j = i THEN [linhas[i] EXCEPT !.st = "excluida", !.refs = {}]
       ELSE [linhas[j] EXCEPT !.refs = @ \ {i}]]
  /\ Fecha(s) /\ UNCHANGED contas

(* NotFound, Conflict, IntegrityError, the end of a list.                  *)
Termina(s) ==
  /\ es[s] # Parado /\ Fecha(s) /\ UNCHANGED <<contas, linhas>>

-----------------------------------------------------------------------------
(* The routers: each endpoint with its user and its scope.                 *)
Motos(s, u, e) ==
  \/ Mostra(s, u, e, ListMotos(u, e))
  \/ \E i \in Tabela("moto") : CreateMoto(s, u, e, i) \/ DeleteMoto(s, u, e, i)

Clientes(s, u, e) ==
  \/ Mostra(s, u, e, ListClientes(u, e))
  \/ \E i \in Tabela("cliente") : CreateCliente(s, u, e, i) \/ DeleteCliente(s, u, e, i)

Contratos_(s, u, e) ==
  \/ Mostra(s, u, e, ListContratos(u, e))
  \/ \E i \in Tabela("contrato") :
       \/ DeleteContrato_(s, u, e, i)
       \/ \E refs \in Relacoes : CreateContrato_(s, u, e, i, refs)

Multas(s, u, e) ==
  \/ Mostra(s, u, e, ListMultas(u, e))
  \/ \E i \in Tabela("multa") :
       \/ DeleteMulta(s, u, e, i)
       \/ \E refs \in Relacoes :
            CreateMulta(s, u, e, i, refs) \/ UpdateMulta(s, u, e, i, refs)

Financeiro(s, u, e) ==
  \/ Mostra(s, u, e, ListFinanceiro(u, e))
  \/ \E i \in Tabela("financeiro") :
       \/ DeleteFinanceiro_(s, u, e, i)
       \/ \E refs \in Relacoes :
            CreateFinanceiro_(s, u, e, i, refs) \/ UpdateFinanceiro_(s, u, e, i, refs)

Manutencoes_(s, u, e) ==
  \/ Mostra(s, u, e, ListManutencoes(u, e))
  \/ \E i \in Tabela("manutencao") :
       \/ DeleteManutencao_(s, u, e, i)
       \/ \E refs \in Relacoes :
            CreateManutencao_(s, u, e, i, refs) \/ UpdateManutencao(s, u, e, i, refs)

-----------------------------------------------------------------------------
(* Users: made by an administrator, or by an owner for the own operacao.   *)
Admin(u) == acesso[u] /\ usuarios[u].papel = "admin"

NovoUsuario(n, papel, op) ==
  /\ usuarios[n].st = "nenhum"
  /\ usuarios' = [usuarios EXCEPT ![n] = [st |-> "vivo", papel |-> papel, op |-> op]]
  /\ UNCHANGED <<acesso, entrando, linhas, es>>

CreateUsuarioAdmin(u, n, papel, op) ==
  /\ Admin(u)
  /\ papel = "dono" <=> op # SemOperacao
  /\ NovoUsuario(n, papel, op)

CreateOperacaoUsuario(u, n, op) ==
  /\ RequireOperacional(u)
  /\ op \in ResolveOperacao(u) \cap Operacoes
  /\ NovoUsuario(n, "dono", op)

(* Its tokens are not revoked.                                             *)
DeleteUsuario(u, n) ==
  /\ Admin(u) /\ u # n
  /\ usuarios[n].st = "vivo"
  /\ usuarios' = [usuarios EXCEPT ![n].st = "excluido"]
  /\ UNCHANGED <<acesso, entrando, linhas, es>>

(* authenticate_user, or the look-up of the user by refresh_tokens.        *)
LoginSemUsuario(u) ==              \* mutant: the user is not looked up
  /\ usuarios[u].st # "nenhum"
  /\ entrando' = [entrando EXCEPT ![u] = TRUE]
  /\ UNCHANGED <<usuarios, acesso, linhas, es>>

Login(u) ==
  /\ usuarios[u].st = "vivo"
  /\ usuarios[u].papel = "dono" => usuarios[u].op # SemOperacao
  /\ entrando' = [entrando EXCEPT ![u] = TRUE]
  /\ UNCHANGED <<usuarios, acesso, linhas, es>>

CreateAccessToken(u) ==
  /\ entrando[u]
  /\ entrando' = [entrando EXCEPT ![u] = FALSE]
  /\ acesso' = [acesso EXCEPT ![u] = TRUE]
  /\ UNCHANGED <<usuarios, linhas, es>>

Expira(u) ==
  /\ acesso[u] /\ ~entrando[u]
  /\ acesso' = [acesso EXCEPT ![u] = FALSE]
  /\ UNCHANGED <<usuarios, entrando, linhas, es>>

-----------------------------------------------------------------------------
EscopoInit ==
  /\ usuarios = [u \in Usuarios |-> [st |-> IF u = Raiz THEN "vivo" ELSE "nenhum",
                                    papel |-> "admin", op |-> SemOperacao]]
  /\ acesso = [u \in Usuarios |-> FALSE]
  /\ entrando = [u \in Usuarios |-> FALSE]
  /\ linhas = [i \in Linhas |-> [st |-> "nenhuma", op |-> SemOperacao, refs |-> {}]]
  /\ es = [s \in SessoesEscopo |-> Parado]

Atende(s, u, e) ==
  /\ es[s].pc = "livre" /\ RequireOperacional(u)
  /\ \/ Motos(s, u, e) \/ Clientes(s, u, e) \/ Contratos_(s, u, e)
     \/ Multas(s, u, e) \/ Financeiro(s, u, e) \/ Manutencoes_(s, u, e)

UsuariosRouter ==
  \E u, n \in Usuarios :
    \/ DeleteUsuario(u, n)
    \/ \E op \in Operacoes \cup {SemOperacao} :
         \/ CreateOperacaoUsuario(u, n, op)
         \/ \E papel \in {"admin", "dono"} : CreateUsuarioAdmin(u, n, papel, op)

Acessos == \E u \in Usuarios : Login(u) \/ CreateAccessToken(u) \/ Expira(u)

EscopoNext ==
  \/ \E s \in SessoesEscopo, u \in Usuarios :
       \E e \in ResolveOperacao(u) : Atende(s, u, e)
  \/ \E s \in SessoesEscopo :
       CommitInsert(s) \/ CommitUpdate_(s) \/ CommitDelete(s) \/ Termina(s)
  \/ UsuariosRouter
  \/ Acessos

EscopoSpec == EscopoInit /\ [][EscopoNext]_escopoVars

(* A login goes on to its answer, and a token expires.                     *)
EscopoFairness ==
  \A u \in Usuarios : WF_escopoVars(CreateAccessToken(u)) /\ WF_escopoVars(Expira(u))

-----------------------------------------------------------------------------
EscopoTypeOK ==
  /\ usuarios \in [Usuarios -> Usuario]
  /\ acesso \in [Usuarios -> BOOLEAN]
  /\ entrando \in [Usuarios -> BOOLEAN]
  /\ linhas \in [Linhas -> Linha_]
  /\ es \in [SessoesEscopo -> Pedido]

(* A row refers to rows of its own operacao that exist, although they were *)
(* checked long before the commit and others delete and edit in between    *)
(* (multa_service.py:108, finance_service.py:96, fleet_service.py:191).    *)
RelacaoNaOperacao ==
  \A i \in Linhas : Viva(i) => \A r \in linhas[i].refs :
    Viva(r) /\ linhas[r].op = linhas[i].op

(* A row that was listed opens as long as it exists: the clauses of the    *)
(* lists and the checks of the rows agree (fleet_service.py:34, :72).      *)
ListadaAbre ==
  \A s \in SessoesEscopo : \A i \in es[s].vistas :
    Viva(i) => Alcanca(es[s].u, es[s].escopo, i)

(* An owner keeps to the own operacao: what is listed may be opened, and a *)
(* change reaches rows of it only, those a deletion unlinks included, how- *)
(* ever long ago the row was checked (fleet_service.py:191).               *)
SoNaPropria ==
  /\ []ListadaAbre
  /\ [][\A s \in SessoesEscopo, i \in Linhas :
          /\ es[s] # es'[s] /\ linhas[i] # linhas'[i]
          /\ usuarios[es[s].u].papel = "dono"
          => linhas'[i].op = usuarios[es[s].u].op]_escopoVars

(* A user that was deleted is out sooner or later, even if a login or a    *)
(* refresh had found it before (operacao_service.py:168, auth.py:66).      *)
ExcluidoSai ==
  \A u \in Usuarios : usuarios[u].st = "excluido" ~> ~acesso[u] /\ ~entrando[u]
=============================================================================

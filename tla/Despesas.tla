------------------------------- MODULE Despesas -------------------------------
(***************************************************************************)
(* Maintenances and the expense each mirrors in the books                  *)
(* (manutencao_service.py), beside the entries made by hand                *)
(* (finance_service.py).                                                   *)
(*                                                                         *)
(* A request loads the maintenance, then the expense, and commits both:    *)
(* two reads at two moments, and an attribute that keeps its loaded value  *)
(* is not written.                                                         *)
(***************************************************************************)
EXTENDS Naturals, FiniteSets

CONSTANTS Manutencoes, Lancamentos, SessoesLivro, Valores, Nenhum

ASSUME DespesasConstants ==
  /\ IsFiniteSet(Manutencoes)
  /\ Valores \subseteq Nat
  /\ Nenhum \notin Manutencoes \cup Lancamentos \cup Valores /\ Nenhum # "manutencao"

VARIABLES
  manut,      \* rows of manutencoes
  lanc,       \* rows of financeiro
  ls,         \* the requests
  perdeu,     \* maintenances whose expense an outside routine removed
  cruzadas    \* maintenances two requests worked on at the same time

despesasVars == <<manut, lanc, ls, perdeu, cruzadas>>

Manutencao == [st: {"livre", "viva", "excluida"},
               valor: Valores \cup {Nenhum},
               link: Lancamentos \cup {Nenhum}]    \* financeiro_id

Lancamento == [st: {"livre", "viva", "excluida"},
               categoria: {"manutencao", Nenhum},
               valor: Valores \cup {Nenhum},
               de: Manutencoes \cup {Nenhum}]      \* whose mirror it was made

Edicao == [pc: {"livre", "lida", "gravar", "excluir"},
           m: Manutencoes \cup {Nenhum},
           lida: Manutencao,                       \* the row as loaded
           valor: Valores \cup {Nenhum},           \* what it is to be
           espelho: Valores \cup {Nenhum}]         \* the expense as loaded

NaoHa == [st |-> "livre", valor |-> Nenhum, link |-> Nenhum]

Fechada == [pc |-> "livre", m |-> Nenhum, lida |-> NaoHa,
            valor |-> Nenhum, espelho |-> Nenhum]

Espelho(f) == lanc[f].st = "viva" /\ lanc[f].categoria = "manutencao"

Ha(f) == f # Nenhum /\ lanc[f].st = "viva"

NovoEspelho(f, m, v) ==
  lanc' = [lanc EXCEPT ![f] = [st |-> "viva", categoria |-> "manutencao",
                               valor |-> v, de |-> m]]

-----------------------------------------------------------------------------
(* create_manutencao: both rows in one transaction.                        *)
CreateManutencao(m, f, v) ==
  /\ manut[m].st = "livre" /\ lanc[f].st = "livre"
  /\ manut' = [manut EXCEPT ![m] = [st |-> "viva", valor |-> v, link |-> f]]
  /\ NovoEspelho(f, m, v)
  /\ UNCHANGED <<ls, perdeu, cruzadas>>

(* get_manutencao at the start of an edition or a removal.                 *)
GetManutencao(s, m) ==
  /\ ls[s].pc = "livre" /\ manut[m].st = "viva"
  /\ ls' = [ls EXCEPT ![s] = [Fechada EXCEPT !.pc = "lida", !.m = m,
                                             !.lida = manut[m]]]
  /\ cruzadas' = IF \E t \in SessoesLivro : ls[t].m = m
                 THEN cruzadas \cup {m} ELSE cruzadas
  /\ UNCHANGED <<manut, lanc, perdeu>>

(* update_manutencao up to _sync_despesa: the value of the body, or the    *)
(* one loaded; the expense is read now.                                    *)
SyncDespesa(s, v) ==
  LET r == ls[s] IN
  /\ r.pc = "lida"
  /\ ls' = [ls EXCEPT ![s].pc = "gravar",
                      ![s].valor = IF v = Nenhum THEN r.lida.valor ELSE v,
                      ![s].espelho = IF Ha(r.lida.link) THEN lanc[r.lida.link].valor
                                     ELSE Nenhum]
  /\ UNCHANGED <<manut, lanc, perdeu, cruzadas>>

GravaLida(r, m) == r.lida.valor    \* mutant: the new value is not assigned

Grava(r, m) == IF r.valor # r.lida.valor THEN r.valor ELSE manut[m].valor

CommitUpdate(s) ==
  LET r == ls[s] IN
  /\ r.pc = "gravar" /\ manut[r.m].st = "viva"
  /\ r.espelho # Nenhum
  /\ Ha(r.lida.link)
  /\ manut' = [manut EXCEPT ![r.m].valor = Grava(r, r.m)]
  /\ lanc' = [lanc EXCEPT ![r.lida.link].valor =
                IF r.valor # r.espelho THEN r.valor ELSE @]
  /\ ls' = [ls EXCEPT ![s] = Fechada]
  /\ UNCHANGED <<perdeu, cruzadas>>

(* The link was lost: the expense is made anew.                            *)
CommitRecreate(s, f) ==
  LET r == ls[s] IN
  /\ r.pc = "gravar" /\ manut[r.m].st = "viva"
  /\ r.espelho = Nenhum
  /\ lanc[f].st = "livre"
  /\ manut' = [manut EXCEPT ![r.m].valor = Grava(r, r.m), ![r.m].link = f]
  /\ NovoEspelho(f, r.m, r.valor)
  /\ ls' = [ls EXCEPT ![s] = Fechada]
  /\ UNCHANGED <<perdeu, cruzadas>>

(* delete_manutencao: the expense as linked when the row was loaded.       *)
DeleteManutencao(s) ==
  LET r == ls[s] IN
  /\ r.pc = "lida" /\ manut[r.m].st = "viva"
  /\ manut' = [manut EXCEPT ![r.m].st = "excluida", ![r.m].link = Nenhum]
  /\ lanc' = [f \in Lancamentos |->
                IF f = r.lida.link /\ Ha(f) THEN [lanc[f] EXCEPT !.st = "excluida"]
                ELSE lanc[f]]
  /\ ls' = [ls EXCEPT ![s] = Fechada]
  /\ UNCHANGED <<perdeu, cruzadas>>

(* The row or the expense is gone: the UPDATE finds nothing and all is     *)
(* rolled back.                                                            *)
Desfaz(s) ==
  LET r == ls[s] IN
  /\ r.pc # "livre"
  /\ \/ manut[r.m].st # "viva"
     \/ r.pc = "gravar" /\ r.espelho # Nenhum /\ ~Ha(r.lida.link)
  /\ ls' = [ls EXCEPT ![s] = Fechada]
  /\ UNCHANGED <<manut, lanc, perdeu, cruzadas>>

-----------------------------------------------------------------------------
(* finance_service: entries made by hand; a mirror is refused.             *)
CreateFinanceiro(f, v) ==
  /\ lanc[f].st = "livre"
  /\ lanc' = [lanc EXCEPT ![f] = [st |-> "viva", categoria |-> Nenhum,
                                  valor |-> v, de |-> Nenhum]]
  /\ UNCHANGED <<manut, ls, perdeu, cruzadas>>

RejectIfManutencao(f) == lanc[f].categoria = "manutencao"

UpdateFinanceiro(f, v) ==
  /\ lanc[f].st = "viva"
  /\ ~RejectIfManutencao(f)
  /\ lanc' = [lanc EXCEPT ![f].valor = v]
  /\ UNCHANGED <<manut, ls, perdeu, cruzadas>>

DeleteFinanceiro(f) ==
  /\ lanc[f].st = "viva"
  /\ ~RejectIfManutencao(f)
  /\ lanc' = [lanc EXCEPT ![f].st = "excluida"]
  /\ UNCHANGED <<manut, ls, perdeu, cruzadas>>

(* An outside routine removes the expense; the link becomes NULL.          *)
RotinaExterna(f) ==
  /\ Espelho(f)
  /\ lanc' = [lanc EXCEPT ![f].st = "excluida"]
  /\ manut' = [m \in Manutencoes |->
       IF manut[m].link = f THEN [manut[m] EXCEPT !.link = Nenhum] ELSE manut[m]]
  /\ perdeu' = perdeu \cup {lanc[f].de}
  /\ UNCHANGED <<ls, cruzadas>>

DespesasInit ==
  /\ manut = [m \in Manutencoes |-> NaoHa]
  /\ lanc = [f \in Lancamentos |-> [st |-> "livre", categoria |-> Nenhum,
                                    valor |-> Nenhum, de |-> Nenhum]]
  /\ ls = [s \in SessoesLivro |-> Fechada]
  /\ perdeu = {} /\ cruzadas = {}

DespesasNext ==
  \/ \E s \in SessoesLivro :
       \/ \E m \in Manutencoes : GetManutencao(s, m)
       \/ \E v \in Valores \cup {Nenhum} : SyncDespesa(s, v)
       \/ \E f \in Lancamentos : CommitRecreate(s, f)
       \/ CommitUpdate(s) \/ DeleteManutencao(s) \/ Desfaz(s)
  \/ \E f \in Lancamentos :
       \/ \E v \in Valores : CreateFinanceiro(f, v) \/ UpdateFinanceiro(f, v)
       \/ \E m \in Manutencoes, v \in Valores : CreateManutencao(m, f, v)
       \/ DeleteFinanceiro(f) \/ RotinaExterna(f)

DespesasSpec == DespesasInit /\ [][DespesasNext]_despesasVars

-----------------------------------------------------------------------------
(* A mirrored expense is booked once: each one belongs to a maintenance    *)
(* and each maintenance to one, whatever edits and removals overlap; only  *)
(* after an outside routine took it can the repair of the link make two    *)
(* (manutencao_service.py:151).                                            *)
EspelhoUnico ==
  /\ \A f \in Lancamentos : Espelho(f) /\ lanc[f].de \notin perdeu =>
       manut[lanc[f].de].st = "viva" /\ manut[lanc[f].de].link = f
  /\ \A m \in Manutencoes \ perdeu : manut[m].st = "viva" =>
       Ha(manut[m].link) /\ Espelho(manut[m].link)

(* resumo_manutencoes and the books show the same total, unless two        *)
(* requests edited one maintenance at the same time: the later one may     *)
(* have loaded the row before and the expense after the earlier commit     *)
(* (manutencao_service.py:168).                                            *)
Soma(f, S) ==
  LET soma[T \in SUBSET S] ==
        IF T = {} THEN 0
        ELSE LET x == CHOOSE x \in T : TRUE IN f[x] + soma[T \ {x}]
  IN  soma[S]

ResumoManutencoes ==
  Soma([m \in Manutencoes |-> manut[m].valor],
       {m \in Manutencoes : manut[m].st = "viva"})

DespesasEspelho ==
  Soma([f \in Lancamentos |-> lanc[f].valor], {f \in Lancamentos : Espelho(f)})

LivroConfere ==
  cruzadas = {} /\ perdeu = {} => ResumoManutencoes = DespesasEspelho

(* Both: the books and the maintenances tell the same story.               *)
EspelhoConfere == EspelhoUnico /\ LivroConfere

(* What the docstring of _sync_despesa promises of every edition.          *)
EspelhoReflete ==
  perdeu = {} /\ (\A s \in SessoesLivro : ls[s].pc = "livre") =>
    ResumoManutencoes = DespesasEspelho
=============================================================================

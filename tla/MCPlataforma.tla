----------------------------- MODULE MCPlataforma -----------------------------
(***************************************************************************)
(* The parts that have to get on sooner or later, one in each world, so    *)
(* that their states add up and do not multiply.                           *)
(***************************************************************************)
EXTENDS Disjuntor, RedisMemoria, Limites, Frota, Escopo

SemTabelas == [i \in {} |-> "moto"]

VARIABLE mundo

Mundos == {"disjuntor", "memoria", "limites", "assinaturas", "contas"}

todas == <<disjuntorVars, memoriaVars, limitesVars, frotaVars, escopoVars,
           mundo>>

SoEm(m) ==
  /\ UNCHANGED mundo /\ mundo = m
  /\ m # "disjuntor" => UNCHANGED disjuntorVars
  /\ m # "memoria" => UNCHANGED memoriaVars
  /\ m # "limites" => UNCHANGED limitesVars
  /\ m # "assinaturas" => UNCHANGED frotaVars
  /\ m # "contas" => UNCHANGED escopoVars

PlataformaInit ==
  /\ mundo \in Mundos
  /\ DisjuntorInit /\ MemoriaInit /\ LimitesInit /\ FrotaInit /\ EscopoInit
  /\ mundo # "assinaturas" => conectada
  /\ \A v \in Veiculos : veiculos[v] = "disponivel"

(* Contracts are running, ended or deleted, and nobody types in the status *)
(* of a vehicle or of a contract.                                          *)
PoucosContratos ==
  /\ \A c \in Contratos : contratos'[c].st \in {"novo", "ativo", "finalizado", "excluido"}
  /\ \A s \in Pedidos : fs'[s].st \in {"ativo", "finalizado"} \/ fs'[s].op = "exclui"
  /\ \A v \in Veiculos : veiculos'[v] # veiculos[v] => fs' # fs

PlataformaNext ==
  \/ SoEm("disjuntor") /\ DisjuntorNext
  \/ SoEm("memoria") /\ Comando
  \/ SoEm("limites") /\ LimitesNext
  \/ SoEm("assinaturas") /\ FrotaNext /\ PoucosContratos
  \/ SoEm("contas") /\ (UsuariosRouter \/ Acessos)

(* The fairness of each part, in its world.                                *)
Em(m, A) == mundo = m /\ A

PlataformaFairness ==
  /\ WF_disjuntorVars(Em("disjuntor", Relogio))
  /\ \A w \in Workers : WF_disjuntorVars(Em("disjuntor", Passo(w)))
  /\ \A p \in Tentantes : WF_limitesVars(Em("limites", Termina_(p)))
  /\ WF_limitesVars(Em("limites", PassaTempo))
  /\ WF_frotaVars(Em("assinaturas", ProcessContractExpiry))
  /\ WF_frotaVars(Em("assinaturas", Trabalha(Tick)))
  /\ \A u \in Usuarios :
       /\ WF_escopoVars(Em("contas", CreateAccessToken(u)))
       /\ WF_escopoVars(Em("contas", Expira(u)))

PlataformaSpec ==
  PlataformaInit /\ [][PlataformaNext]_todas /\ PlataformaFairness
=============================================================================

-------------------------------- MODULE Frota --------------------------------
(***************************************************************************)
(* Vehicles and contracts of one operacao (fleet_service.py), the daily    *)
(* pass that ends expired contracts (tasks.py) and the recurring           *)
(* subscriptions at Mercado Pago (billing_service.py).                     *)
(*                                                                         *)
(* A session loads rows without a lock, calls Mercado Pago, and commits at *)
(* the end; in between other sessions commit.  An attribute assigned the   *)
(* value it was loaded with is not written.  Renewing the operacao's token *)
(* on the way to Mercado Pago commits what was assigned so far.            *)
(***************************************************************************)
EXTENDS Naturals, FiniteSets

CONSTANTS
  Contratos, Veiculos, Assinaturas,
  Pedidos,      \* sessions of requests
  Tick,         \* the session of the daily pass
  Quedas,       \* bound: sessions that die before their commit
  Nada

ASSUME FrotaConstants ==
  /\ Nada \notin Contratos \cup Veiculos \cup Assinaturas
  /\ Tick \notin Pedidos
  /\ Quedas \in Nat

VARIABLES
  contratos,    \* rows of contratos
  veiculos,     \* status of each vehicle
  porMao,       \* vehicles whose present status was typed in
  assinaturas,  \* the preapprovals at Mercado Pago
  conectada,    \* the operacao has Mercado Pago credentials
  fs,           \* the sessions
  quedas

frotaVars == <<contratos, veiculos, porMao, assinaturas, conectada, fs, quedas>>

doPainel == <<assinaturas, conectada>>

SessoesFrota == Pedidos \cup {Tick}

SituacaoContrato == {"pendente", "ativo", "finalizado", "cancelado"}
SituacaoMoto == {"disponivel", "alugada", "manutencao"}

Contrato == [st: SituacaoContrato \cup {"novo", "excluido"},
             moto: Veiculos \cup {Nada},
             sub: Assinaturas \cup {Nada},
             vencido: BOOLEAN]

Assinatura == [st: {"nenhuma", "pending", "authorized", "cancelled"},
               de: Contratos \cup {Nada}]   \* its external reference

Linha(c) == contratos[c].st \in SituacaoContrato

SessaoFrota == [op: {"livre", "cria", "fim", "exclui", "expira", "assina"},
                alvo: SUBSET Contratos,      \* rows it will write or delete
                resta: SUBSET Contratos,     \* rows still to be worked on
                st: SituacaoContrato,
                escritas: SUBSET Contratos,  \* rows whose new status is committed
                subs: [Contratos -> Assinaturas \cup {Nada}],  \* as loaded
                livra: SUBSET Veiculos,      \* vehicles it will set available
                aluga: BOOLEAN]              \* it will set the vehicle rented

Livre == [op |-> "livre", alvo |-> {}, resta |-> {}, st |-> "ativo",
          escritas |-> {},
          subs |-> [c \in Contratos |-> Nada], livra |-> {}, aluga |-> FALSE]

Loaded(s, r) == fs[s].op = "livre" /\ fs' = [fs EXCEPT ![s] = r]

Close(s) == fs' = [fs EXCEPT ![s] = Livre]

Vencido(c) == contratos[c].st = "ativo" /\ contratos[c].vencido

-----------------------------------------------------------------------------
(* update_moto: the status typed in by the owner.                          *)
UpdateMoto(v, st) ==
  /\ veiculos' = [veiculos EXCEPT ![v] = st]
  /\ porMao' = IF st # veiculos[v] THEN porMao \cup {v} ELSE porMao
  /\ UNCHANGED <<contratos, doPainel, fs, quedas>>

(* create_contrato: any vehicle of the operacao, free or not.              *)
CreateContrato(s, c, v, st) ==
  /\ contratos[c].st = "novo"
  /\ \A t \in SessoesFrota : c \notin fs[t].alvo
  /\ contratos' = [contratos EXCEPT ![c].moto = v]
  /\ Loaded(s, [Livre EXCEPT !.op = "cria", !.alvo = {c}, !.st = st,
                             !.aluga = veiculos[v] # "alugada"])
  /\ UNCHANGED <<veiculos, porMao, doPainel, quedas>>

CommitCreate(s) ==
  /\ fs[s].op = "cria"
  /\ \E c \in fs[s].alvo :
       /\ contratos' = [contratos EXCEPT ![c].st = fs[s].st]
       /\ IF fs[s].aluga
          THEN /\ veiculos' = [veiculos EXCEPT ![contratos[c].moto] = "alugada"]
               /\ porMao' = porMao \ {contratos[c].moto}
          ELSE UNCHANGED <<veiculos, porMao>>
  /\ Close(s)
  /\ UNCHANGED <<doPainel, quedas>>

(* update_contrato without an end: a status or a new end date.             *)
UpdateStatus(c, st) ==
  /\ Linha(c)
  /\ st \in {"finalizado", "cancelado"} => contratos[c].st # "ativo"
  /\ contratos' = [contratos EXCEPT ![c].st = st]
  /\ UNCHANGED <<veiculos, porMao, doPainel, fs, quedas>>

ExtendVigencia(c) ==
  /\ Linha(c)
  /\ contratos' = [contratos EXCEPT ![c].vencido = FALSE]
  /\ UNCHANGED <<veiculos, porMao, doPainel, fs, quedas>>

(* A day passes: the end date of a contract lies behind.                   *)
Vigencia(c) ==
  /\ Linha(c)
  /\ contratos' = [contratos EXCEPT ![c].vencido = TRUE]
  /\ UNCHANGED <<veiculos, porMao, doPainel, fs, quedas>>

-----------------------------------------------------------------------------
(* Three ways to end a contract: update_contrato with an end status,       *)
(* delete_contrato, and the daily pass with all that have expired.         *)
LoadRows(s, op, cs, st) ==
  /\ Loaded(s, [Livre EXCEPT
       !.op = op, !.alvo = cs, !.resta = cs, !.st = st,
       !.subs = [c \in Contratos |-> IF c \in cs THEN contratos[c].sub ELSE Nada]])
  /\ UNCHANGED <<contratos, veiculos, porMao, doPainel, quedas>>

UpdateContrato(s, c, st) ==
  /\ contratos[c].st = "ativo"
  /\ st \in {"finalizado", "cancelado"}
  /\ LoadRows(s, "fim", {c}, st)

DeleteContrato(s, c) == Linha(c) /\ LoadRows(s, "exclui", {c}, "cancelado")

ExpirySemStatus ==            \* mutant: the new status is not assigned
  LET rows == {c \in Contratos : Vencido(c)} IN
  rows # {} /\ LoadRows(Tick, "expira", rows, "ativo")

ProcessContractExpiry ==
  LET rows == {c \in Contratos : Vencido(c)} IN
  rows # {} /\ LoadRows(Tick, "expira", rows, "finalizado")

(* cancel_mercadopago_subscription_for_contract: at once at Mercado Pago,  *)
(* or not at all: without credentials it does nothing, and a failure is    *)
(* logged, the owner told of it if the notices are on.                     *)
CancelSubscription(sub) ==
  \/ UNCHANGED assinaturas
  \/ /\ sub # Nada /\ conectada
     /\ assinaturas' = [assinaturas EXCEPT ![sub].st = "cancelled"]

(* When the vehicle is set free: always by an end typed in, else only if   *)
(* the session reads it as rented.                                         *)
DevolveSeFim(s, v) ==        \* mutant: a deletion or the pass forgets it
  fs[s].op = "fim" /\ veiculos[v] # "disponivel"

Devolve(s, v) ==
  IF fs[s].op = "fim" THEN veiculos[v] # "disponivel" ELSE veiculos[v] = "alugada"

End(s, c) ==
  LET v == contratos[c].moto IN
  /\ c \in fs[s].resta
  /\ CancelSubscription(fs[s].subs[c])
  /\ fs' = [fs EXCEPT ![s].resta = @ \ {c},
                      ![s].livra = IF Devolve(s, v) THEN @ \cup {v} ELSE @]
  /\ UNCHANGED <<contratos, veiculos, porMao, conectada, quedas>>

Liberados(livra) ==
  /\ veiculos' = [v \in Veiculos |-> IF v \in livra THEN "disponivel" ELSE veiculos[v]]
  /\ porMao' = porMao \ livra

(* The rows a session has assigned the new status when it asks Mercado     *)
(* Pago to cancel the subscription of c: a deletion none, the daily pass   *)
(* those before c and c.                                                   *)
Assigned(s, c) ==
  CASE fs[s].op = "fim" -> {c}
    [] fs[s].op = "expira" -> (fs[s].alvo \ fs[s].resta) \cup {c}
    [] OTHER -> {}

(* ensure_valid_mp_token on the way to that call: those rows are committed *)
(* (the daily pass has set the vehicle free by then, the others not), the  *)
(* rest is loaded anew, and the subscription cancelled or not.  A token    *)
(* that is refused disconnects the operacao.                               *)
EndRenewing(s, c) ==
  LET v == contratos[c].moto
      livra == IF Devolve(s, v) THEN fs[s].livra \cup {v} ELSE fs[s].livra
      feitas == Assigned(s, c)
  IN
  /\ c \in fs[s].resta /\ fs[s].subs[c] # Nada /\ conectada
  /\ \A d \in feitas \cup {c} : Linha(d)
  /\ contratos' = [d \in Contratos |->
       IF d \in feitas \ fs[s].escritas
       THEN [contratos[d] EXCEPT !.st = fs[s].st] ELSE contratos[d]]
  /\ IF fs[s].op = "expira" THEN Liberados(livra) ELSE UNCHANGED <<veiculos, porMao>>
  /\ \E cancelada \in BOOLEAN :
       /\ \/ /\ cancelada
             /\ assinaturas' = [assinaturas EXCEPT ![contratos[c].sub].st = "cancelled"]
             /\ UNCHANGED conectada
          \/ ~cancelada /\ conectada' \in BOOLEAN /\ UNCHANGED assinaturas
       /\ fs' = [fs EXCEPT ![s] = [fs[s] EXCEPT
            !.resta = fs[s].resta \ {c},
            !.alvo = (fs[s].alvo \ feitas) \cup (IF cancelada THEN {c} ELSE {}),
            !.escritas = feitas,
            !.livra = IF fs[s].op = "expira" THEN {} ELSE livra,
            !.subs = [d \in Contratos |->
                        IF d \in fs[s].alvo THEN contratos[d].sub ELSE Nada]]]
  /\ UNCHANGED quedas

(* An UPDATE of a row that is gone rolls everything back; a DELETE does    *)
(* not.                                                                    *)
CommitEnd(s) ==
  /\ fs[s].op \in {"fim", "exclui", "expira"}
  /\ fs[s].resta = {}
  /\ fs[s].op # "exclui" => \A c \in fs[s].alvo : Linha(c)
  /\ contratos' = [c \in Contratos |->
       IF c \notin fs[s].alvo \ fs[s].escritas THEN contratos[c]
       ELSE [contratos[c] EXCEPT
               !.st = IF fs[s].op = "exclui" THEN "excluido" ELSE fs[s].st]]
  /\ Liberados(fs[s].livra)
  /\ Close(s)
  /\ UNCHANGED <<doPainel, quedas>>

(* So does, when the token is renewed, one of those assigned by then, and  *)
(* the row at hand cannot be loaded again.                                 *)
StaleData(s) ==
  /\ \/ /\ fs[s].op \in {"fim", "expira", "assina"}
        /\ fs[s].resta = {}
        /\ \E c \in fs[s].alvo : ~Linha(c)
     \/ /\ conectada
        /\ \E c \in fs[s].resta : \E d \in Assigned(s, c) \cup {c} : ~Linha(d)
  /\ Close(s)
  /\ UNCHANGED <<contratos, veiculos, porMao, doPainel, quedas>>

-----------------------------------------------------------------------------
(* create_mercadopago_subscription_for_contract: the contract may have one *)
(* already, and may have ended.                                            *)
CreateSubscription(s, c, sub) ==
  /\ Linha(c)
  /\ conectada
  /\ assinaturas[sub].st = "nenhuma"
  /\ assinaturas' = [assinaturas EXCEPT ![sub] = [st |-> "pending", de |-> c]]
  /\ Loaded(s, [Livre EXCEPT !.op = "assina", !.alvo = {c}, !.subs[c] = sub])
  /\ UNCHANGED <<contratos, veiculos, porMao, conectada, quedas>>

CommitSubscription(s) ==
  /\ fs[s].op = "assina"
  /\ \E c \in fs[s].alvo :
       /\ Linha(c)
       /\ contratos' = [contratos EXCEPT ![c].sub = fs[s].subs[c]]
  /\ Close(s)
  /\ UNCHANGED <<veiculos, porMao, doPainel, quedas>>

(* handle_mercadopago_preapproval_updated: the contract named by the       *)
(* notification takes its id, whichever it carries.                        *)
PreapprovalUpdated(sub) ==
  /\ \E c \in Contratos :
       /\ c = assinaturas[sub].de
       /\ Linha(c)
       /\ contratos' = [contratos EXCEPT ![c].sub = sub]
  /\ UNCHANGED <<veiculos, porMao, doPainel, fs, quedas>>

(* The customer authorizes it.                                             *)
Authorize(sub) ==
  /\ assinaturas[sub].st = "pending"
  /\ assinaturas' = [assinaturas EXCEPT ![sub].st = "authorized"]
  /\ UNCHANGED <<contratos, veiculos, porMao, conectada, fs, quedas>>

Credenciais ==
  /\ conectada' = ~conectada
  /\ UNCHANGED <<contratos, veiculos, porMao, assinaturas, fs, quedas>>

(* A session dies: what it did at Mercado Pago stays.                      *)
Cai(s) ==
  /\ fs[s].op # "livre"
  /\ quedas < Quedas
  /\ quedas' = quedas + 1
  /\ Close(s)
  /\ UNCHANGED <<contratos, veiculos, porMao, doPainel>>

-----------------------------------------------------------------------------
FrotaInit ==
  /\ contratos = [c \in Contratos |-> [st |-> "novo", moto |-> Nada,
                                      sub |-> Nada, vencido |-> FALSE]]
  /\ veiculos \in [Veiculos -> SituacaoMoto]
  /\ porMao = Veiculos
  /\ assinaturas = [a \in Assinaturas |-> [st |-> "nenhuma", de |-> Nada]]
  /\ conectada \in BOOLEAN
  /\ fs = [s \in SessoesFrota |-> Livre]
  /\ quedas = 0

Trabalha(s) ==
  \/ CommitCreate(s) \/ CommitEnd(s) \/ CommitSubscription(s) \/ StaleData(s)
  \/ \E c \in Contratos : End(s, c) \/ EndRenewing(s, c)

FrotaNext ==
  \/ \E v \in Veiculos, st \in SituacaoMoto : UpdateMoto(v, st)
  \/ \E c \in Contratos : Vigencia(c) \/ ExtendVigencia(c)
  \/ \E c \in Contratos, st \in SituacaoContrato : UpdateStatus(c, st)
  \/ \E s \in Pedidos, c \in Contratos :
       \/ \E v \in Veiculos, st \in SituacaoContrato : CreateContrato(s, c, v, st)
       \/ \E st \in SituacaoContrato : UpdateContrato(s, c, st)
       \/ DeleteContrato(s, c)
       \/ \E sub \in Assinaturas : CreateSubscription(s, c, sub)
  \/ ProcessContractExpiry
  \/ \E sub \in Assinaturas : PreapprovalUpdated(sub) \/ Authorize(sub)
  \/ Credenciais
  \/ \E s \in SessoesFrota : Trabalha(s) \/ Cai(s)

FrotaSpec == FrotaInit /\ [][FrotaNext]_frotaVars

(* The pass runs every day, and a session that is not killed goes on to    *)
(* its commit.                                                             *)
FrotaFairness ==
  /\ WF_frotaVars(ProcessContractExpiry)
  /\ WF_frotaVars(Trabalha(Tick))

-----------------------------------------------------------------------------
(* A vehicle the system itself marked as rented has a contract, however    *)
(* deletions, ends and new contracts interleave: nothing but a contract's  *)
(* end would ever set it free (fleet_service.py:429, tasks.py:394).        *)
AlugadaTemContrato ==
  \A v \in Veiculos : veiculos[v] = "alugada" /\ v \notin porMao =>
    \E c \in Contratos : Linha(c) /\ contratos[c].moto = v

(* A contract past its end date is ended, even if Mercado Pago fails,      *)
(* workers die or other requests get in between (tasks.py:377).            *)
VencidoTermina == \A c \in Contratos : Vencido(c) ~> ~Vencido(c)
=============================================================================

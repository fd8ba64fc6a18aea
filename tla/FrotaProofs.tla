----------------------------- MODULE FrotaProofs -----------------------------
(***************************************************************************)
(* The fleet and what hangs on it, for any vehicles, contracts,            *)
(* subscriptions, files, services and requests.                            *)
(*                                                                         *)
(* Contracts: a vehicle the system marked as rented has a contract that    *)
(* keeps it: whoever deletes that contract has not come to the vehicle     *)
(* yet, or will set it free.  Files: every file a row names opens, unless  *)
(* two requests for one photo overlapped, and a file no row names is in    *)
(* somebody's hands or was left by a death.  Expenses: a service has at    *)
(* most one mirror expense, of its value, and so both totals of a period   *)
(* agree.                                                                  *)
(***************************************************************************)
EXTENDS Anexos, Despesas, FiniteSetTheorems, Frota, TLAPS, WellFoundedInduction

FrotaTypeOK ==
  /\ contratos \in [Contratos -> Contrato]
  /\ veiculos \in [Veiculos -> SituacaoMoto]
  /\ porMao \subseteq Veiculos
  /\ assinaturas \in [Assinaturas -> Assinatura]
  /\ conectada \in BOOLEAN
  /\ fs \in [SessoesFrota -> SessaoFrota]
  /\ quedas \in Nat

(* A session at work on rows of contracts found them there, and a session  *)
(* that creates one has it to itself.                                      *)
Achados ==
  \A s \in SessoesFrota :
    /\ fs[s].resta \subseteq fs[s].alvo
    /\ fs[s].op = "livre" => fs[s] = Livre
    /\ fs[s].op = "cria" =>
         \A c \in fs[s].alvo :
           /\ contratos[c].st = "novo" /\ contratos[c].moto \in Veiculos
           /\ fs[s].resta = {}
           /\ \A t \in SessoesFrota \ {s} : c \notin fs[t].alvo
    /\ fs[s].op \notin {"livre", "cria"} =>
         \A c \in fs[s].alvo : contratos[c].st # "novo"

Situados ==
  \A c \in Contratos : contratos[c].st # "novo" => contratos[c].moto \in Veiculos

(* A contract that keeps its vehicle from staying rented for nobody.       *)
Guarda(c, v) ==
  /\ Linha(c) /\ contratos[c].moto = v
  /\ \A s \in SessoesFrota :
       fs[s].op = "exclui" /\ c \in fs[s].alvo => c \in fs[s].resta \/ v \in fs[s].livra

Guardadas ==
  \A v \in Veiculos : veiculos[v] = "alugada" /\ v \notin porMao =>
    \E c \in Contratos : Guarda(c, v)

IInv == FrotaTypeOK /\ Achados /\ Situados /\ Guardadas

LEMMA LivreType ==
  /\ Livre \in SessaoFrota
  /\ Livre.op = "livre" /\ Livre.alvo = {} /\ Livre.resta = {} /\ Livre.livra = {}
BY DEF Livre, SessaoFrota, SituacaoContrato

LEMMA InitInv == FrotaInit => IInv
<1> SUFFICES ASSUME FrotaInit PROVE IInv
  OBVIOUS
<1>1. FrotaTypeOK
  BY LivreType, FrotaConstants
     DEF FrotaInit, FrotaTypeOK, Contrato, Assinatura, SituacaoContrato
<1>2. Achados
  BY LivreType DEF FrotaInit, Achados
<1>3. Situados /\ Guardadas
  BY DEF FrotaInit, Situados, Guardadas, Linha, SituacaoContrato
<1> QED BY <1>1, <1>2, <1>3 DEF IInv

(* One session takes another record.                                       *)
LEMMA Move ==
  ASSUME FrotaTypeOK, NEW s \in SessoesFrota, NEW r \in SessaoFrota,
         fs' = [fs EXCEPT ![s] = r]
  PROVE  /\ fs' \in [SessoesFrota -> SessaoFrota]
         /\ fs'[s] = r
         /\ \A t \in SessoesFrota \ {s} : fs'[t] = fs[t]
BY DEF FrotaTypeOK

LEMMA Fields ==
  ASSUME FrotaTypeOK, NEW s \in SessoesFrota
  PROVE  /\ fs[s] \in SessaoFrota
         /\ fs[s].alvo \subseteq Contratos /\ fs[s].resta \subseteq Contratos
         /\ fs[s].livra \subseteq Veiculos /\ fs[s].st \in SituacaoContrato
         /\ fs[s].subs \in [Contratos -> Assinaturas \cup {Nada}]
BY DEF FrotaTypeOK, SessaoFrota

-----------------------------------------------------------------------------
(* Steps that leave the sessions alone, and of each row its vehicle and    *)
(* whether it is there.                                                    *)
Mesmas ==
  /\ contratos' \in [Contratos -> Contrato]
  /\ \A c \in Contratos :
       /\ contratos'[c].moto = contratos[c].moto
       /\ Linha(c)' <=> Linha(c)
       /\ contratos'[c].st = "novo" <=> contratos[c].st = "novo"

LEMMA RowsInv ==
  ASSUME IInv, Mesmas, conectada' \in BOOLEAN,
         assinaturas' \in [Assinaturas -> Assinatura],
         UNCHANGED <<veiculos, porMao, fs, quedas>>
  PROVE  IInv'
<1>1. FrotaTypeOK'
  BY DEF IInv, FrotaTypeOK, Mesmas
<1>2. Achados'
  BY Fields DEF IInv, Achados, Mesmas
<1>3. Situados'
  BY DEF IInv, Situados, Mesmas
<1>4. \A c \in Contratos, v \in Veiculos : Guarda(c, v) => Guarda(c, v)'
  BY DEF Guarda, Mesmas
<1>5. Guardadas'
  BY <1>4 DEF IInv, Guardadas
<1> QED BY <1>1, <1>2, <1>3, <1>5 DEF IInv

LEMMA UpdateMotoInv ==
  ASSUME IInv, NEW v \in Veiculos, NEW st \in SituacaoMoto, UpdateMoto(v, st)
  PROVE  IInv'
<1>0. UNCHANGED <<contratos, assinaturas, conectada,
                  fs, quedas>>
  BY DEF UpdateMoto, doPainel
<1>1. FrotaTypeOK'
  BY <1>0 DEF UpdateMoto, IInv, FrotaTypeOK
<1>2. Achados' /\ Situados'
  BY <1>0 DEF IInv, Achados, Situados, Linha
<1>3. \A c \in Contratos, w \in Veiculos : Guarda(c, w) => Guarda(c, w)'
  BY <1>0 DEF Guarda, Linha
<1>4. \A w \in Veiculos : veiculos'[w] = "alugada" /\ w \notin porMao' =>
        veiculos[w] = "alugada" /\ w \notin porMao
  BY DEF UpdateMoto, IInv, FrotaTypeOK
<1>5. Guardadas'
  BY <1>3, <1>4 DEF IInv, Guardadas
<1> QED BY <1>1, <1>2, <1>5 DEF IInv

LEMMA StatusInv ==
  ASSUME IInv, NEW c \in Contratos,
         \/ \E st \in SituacaoContrato : UpdateStatus(c, st)
         \/ ExtendVigencia(c) \/ Vigencia(c)
  PROVE  IInv'
<1>1. Mesmas
  <2> USE DEF Mesmas, Linha, IInv, FrotaTypeOK, Contrato
  <2>1. CASE \E st \in SituacaoContrato : UpdateStatus(c, st)
    BY <2>1 DEF UpdateStatus, SituacaoContrato
  <2>2. CASE ExtendVigencia(c)
    BY <2>2 DEF ExtendVigencia
  <2>3. CASE Vigencia(c)
    BY <2>3 DEF Vigencia
  <2> QED BY <2>1, <2>2, <2>3
<1>2. UNCHANGED <<veiculos, porMao, assinaturas, conectada, fs, quedas>>
  BY DEF UpdateStatus, ExtendVigencia, Vigencia, doPainel
<1> QED BY <1>1, <1>2, RowsInv DEF IInv, FrotaTypeOK

LEMMA PainelInv ==
  ASSUME IInv,
         \/ \E sub \in Assinaturas : PreapprovalUpdated(sub) \/ Authorize(sub)
         \/ Credenciais
  PROVE  IInv'
<1>1. CASE \E sub \in Assinaturas : PreapprovalUpdated(sub)
  <2>1. Mesmas
    BY <1>1 DEF PreapprovalUpdated, Mesmas, Linha, IInv, FrotaTypeOK, Contrato
  <2>2. UNCHANGED <<veiculos, porMao, assinaturas, conectada, fs, quedas>>
    BY <1>1 DEF PreapprovalUpdated, doPainel
  <2> QED BY <2>1, <2>2, RowsInv DEF IInv, FrotaTypeOK
<1>2. CASE \E sub \in Assinaturas : Authorize(sub)
  <2>1. assinaturas' \in [Assinaturas -> Assinatura]
    BY <1>2 DEF Authorize, IInv, FrotaTypeOK, Assinatura
  <2>2. UNCHANGED <<contratos, veiculos, porMao, conectada, fs, quedas>>
    BY <1>2 DEF Authorize
  <2>3. Mesmas
    BY <2>2 DEF Mesmas, Linha, IInv, FrotaTypeOK
  <2> QED BY <2>1, <2>2, <2>3, RowsInv DEF IInv, FrotaTypeOK
<1>3. CASE Credenciais
  <2>1. Mesmas
    BY <1>3 DEF Credenciais, Mesmas, Linha, IInv, FrotaTypeOK
  <2>2. UNCHANGED <<veiculos, porMao, assinaturas,
                    fs, quedas>> /\ conectada' \in BOOLEAN
    BY <1>3 DEF Credenciais, IInv, FrotaTypeOK
  <2> QED BY <2>1, <2>2, RowsInv DEF IInv, FrotaTypeOK
<1> QED BY <1>1, <1>2, <1>3

-----------------------------------------------------------------------------
(* A session closes and no vehicle is touched.                             *)
LEMMA CloseInv ==
  ASSUME IInv, NEW s \in SessoesFrota, Close(s), Mesmas, quedas' \in Nat,
         UNCHANGED <<veiculos, porMao, assinaturas, conectada>>
  PROVE  IInv'
<1>0. /\ fs' = [fs EXCEPT ![s] = Livre]
      /\ fs' \in [SessoesFrota -> SessaoFrota] /\ fs'[s] = Livre
      /\ \A t \in SessoesFrota \ {s} : fs'[t] = fs[t]
  BY LivreType, Move DEF Close, IInv
<1>1. FrotaTypeOK'
  BY <1>0 DEF IInv, FrotaTypeOK, Mesmas
<1>2. Achados'
  <2>1. \A t \in SessoesFrota : fs[t].alvo \subseteq Contratos
    BY Fields DEF IInv
  <2> QED BY <1>0, <2>1, LivreType DEF IInv, Achados, Mesmas
<1>3. Situados'
  BY DEF IInv, Situados, Mesmas
<1>4. \A c \in Contratos, v \in Veiculos : Guarda(c, v) => Guarda(c, v)'
  BY <1>0, LivreType DEF Guarda, Mesmas
<1>5. Guardadas'
  BY <1>4 DEF IInv, Guardadas
<1> QED BY <1>1, <1>2, <1>3, <1>5 DEF IInv

LEMMA FimInv ==
  ASSUME IInv, NEW s \in SessoesFrota, StaleData(s) \/ Cai(s)
  PROVE  IInv'
<1>1. quedas' \in Nat
  BY FrotaConstants DEF StaleData, Cai, IInv, FrotaTypeOK
<1>2. Close(s) /\ UNCHANGED <<contratos, veiculos, porMao, assinaturas, conectada>>
  BY DEF StaleData, Cai, doPainel
<1>3. Mesmas
  BY <1>2 DEF Mesmas, Linha, IInv, FrotaTypeOK
<1> QED BY <1>1, <1>2, <1>3, CloseInv

LEMMA CommitSubscriptionInv ==
  ASSUME IInv, NEW s \in SessoesFrota, CommitSubscription(s)
  PROVE  IInv'
<1>1. PICK c \in fs[s].alvo : contratos' = [contratos EXCEPT ![c].sub = fs[s].subs[c]]
  BY DEF CommitSubscription
<1>2. c \in Contratos /\ fs[s].subs[c] \in Assinaturas \cup {Nada}
  BY Fields DEF IInv
<1>3. Mesmas
  BY <1>1, <1>2 DEF Mesmas, Linha, IInv, FrotaTypeOK, Contrato
<1>4. /\ Close(s) /\ quedas' = quedas
      /\ UNCHANGED <<veiculos, porMao, assinaturas, conectada>>
  BY DEF CommitSubscription, doPainel
<1> QED BY <1>3, <1>4, CloseInv DEF IInv, FrotaTypeOK

(* A free session loads rows.                                              *)
LEMMA LoadInv ==
  ASSUME IInv, NEW s \in SessoesFrota, NEW op \in {"fim", "exclui", "expira"},
         NEW cs \in SUBSET Contratos, NEW st \in SituacaoContrato,
         \A c \in cs : Linha(c), LoadRows(s, op, cs, st)
  PROVE  IInv'
<1> DEFINE sb == [c \in Contratos |-> IF c \in cs THEN contratos[c].sub ELSE Nada]
           r == [Livre EXCEPT !.op = op, !.alvo = cs, !.resta = cs, !.st = st,
                              !.subs = sb]
<1>a. sb \in [Contratos -> Assinaturas \cup {Nada}]
  BY DEF IInv, FrotaTypeOK, Contrato
<1>b. /\ fs' = [fs EXCEPT ![s] = r] /\ fs[s].op = "livre"
      /\ UNCHANGED <<contratos, veiculos, porMao, assinaturas, conectada, quedas>>
  BY DEF LoadRows, Loaded, doPainel
<1> HIDE DEF sb
<1>c. r \in SessaoFrota /\ r.op = op /\ r.alvo = cs /\ r.resta = cs
  BY <1>a, LivreType DEF SessaoFrota
<1> HIDE DEF r
<1>0. /\ fs' \in [SessoesFrota -> SessaoFrota] /\ fs'[s] = r
      /\ \A t \in SessoesFrota \ {s} : fs'[t] = fs[t]
  BY <1>b, <1>c, Move DEF IInv
<1>1. FrotaTypeOK'
  BY <1>0, <1>b DEF IInv, FrotaTypeOK
<1>2. Achados'
  <2>1. \A c \in cs : contratos[c].st # "novo"
    BY DEF Linha, SituacaoContrato
  <2>2. \A t \in SessoesFrota \ {s} : fs[t].op = "cria" =>
          \A c \in fs[t].alvo : c \notin cs
    BY <2>1 DEF IInv, Achados
  <2> QED BY <1>0, <1>b, <1>c, <2>1, <2>2 DEF IInv, Achados
<1>3. Situados'
  BY <1>b DEF IInv, Situados, Linha
<1>4. \A c \in Contratos, v \in Veiculos : Guarda(c, v) => Guarda(c, v)'
  BY <1>0, <1>b, <1>c DEF Guarda, Linha
<1>5. Guardadas'
  BY <1>4, <1>b DEF IInv, Guardadas
<1> QED BY <1>1, <1>2, <1>3, <1>5 DEF IInv

LEMMA CreateSubscriptionInv ==
  ASSUME IInv, NEW s \in SessoesFrota, NEW c \in Contratos, NEW sub \in Assinaturas,
         CreateSubscription(s, c, sub)
  PROVE  IInv'
<1> DEFINE r == [Livre EXCEPT !.op = "assina", !.alvo = {c}, !.subs[c] = sub]
<1>a. /\ fs' = [fs EXCEPT ![s] = r] /\ fs[s].op = "livre" /\ Linha(c)
      /\ UNCHANGED <<contratos, veiculos, porMao, conectada, quedas>>
  BY DEF CreateSubscription, Loaded
<1>b. r \in SessaoFrota /\ r.op = "assina" /\ r.alvo = {c} /\ r.resta = {}
  BY LivreType DEF SessaoFrota
<1>c. assinaturas' \in [Assinaturas -> Assinatura]
  BY <1>a DEF CreateSubscription, IInv, FrotaTypeOK, Assinatura
<1> HIDE DEF r
<1>0. /\ fs' \in [SessoesFrota -> SessaoFrota] /\ fs'[s] = r
      /\ \A t \in SessoesFrota \ {s} : fs'[t] = fs[t]
  BY <1>a, <1>b, Move DEF IInv
<1>1. FrotaTypeOK'
  BY <1>0, <1>a, <1>c DEF IInv, FrotaTypeOK
<1>2. Achados'
  BY <1>0, <1>a, <1>b DEF IInv, Achados, Linha, SituacaoContrato
<1>3. Situados'
  BY <1>a DEF IInv, Situados, Linha
<1>4. \A d \in Contratos, v \in Veiculos : Guarda(d, v) => Guarda(d, v)'
  BY <1>0, <1>a, <1>b DEF Guarda, Linha
<1>5. Guardadas'
  BY <1>4, <1>a DEF IInv, Guardadas
<1> QED BY <1>1, <1>2, <1>3, <1>5 DEF IInv

LEMMA CreateContratoInv ==
  ASSUME IInv, NEW s \in SessoesFrota, NEW c \in Contratos, NEW v \in Veiculos,
         NEW st \in SituacaoContrato, CreateContrato(s, c, v, st)
  PROVE  IInv'
<1> DEFINE al == veiculos[v] # "alugada"
           r == [Livre EXCEPT !.op = "cria", !.alvo = {c}, !.st = st, !.aluga = al]
<1>a. /\ fs' = [fs EXCEPT ![s] = r] /\ fs[s].op = "livre"
      /\ contratos[c].st = "novo" /\ \A t \in SessoesFrota : c \notin fs[t].alvo
      /\ contratos' = [contratos EXCEPT ![c].moto = v]
      /\ UNCHANGED <<veiculos, porMao, assinaturas, conectada, quedas>>
  BY DEF CreateContrato, Loaded, doPainel
<1>d. al \in BOOLEAN
  OBVIOUS
<1> HIDE DEF al
<1>b. r \in SessaoFrota /\ r.op = "cria" /\ r.alvo = {c} /\ r.resta = {}
  BY <1>d, LivreType DEF SessaoFrota
<1> HIDE DEF r
<1>0. /\ fs' \in [SessoesFrota -> SessaoFrota] /\ fs'[s] = r
      /\ \A t \in SessoesFrota \ {s} : fs'[t] = fs[t]
  BY <1>a, <1>b, Move DEF IInv
<1>e. /\ contratos' \in [Contratos -> Contrato] /\ contratos'[c].moto = v
      /\ contratos'[c].st = "novo"
      /\ \A d \in Contratos \ {c} : contratos'[d] = contratos[d]
  BY <1>a DEF IInv, FrotaTypeOK, Contrato
<1>1. FrotaTypeOK'
  BY <1>0, <1>a, <1>e DEF IInv, FrotaTypeOK
<1>2. Achados'
  <2>1. \A t \in SessoesFrota : fs[t].alvo \subseteq Contratos
    BY Fields DEF IInv
  <2> QED BY <1>0, <1>a, <1>b, <1>e, <2>1 DEF IInv, Achados
<1>f. \A d \in Contratos : Linha(d)' => Linha(d) /\ contratos'[d] = contratos[d]
  BY <1>a, <1>e DEF Linha, SituacaoContrato
<1>3. Situados'
  BY <1>e DEF IInv, Situados
<1>g. \A d \in Contratos : Linha(d) => Linha(d)' /\ contratos'[d] = contratos[d]
  BY <1>a, <1>e DEF Linha, SituacaoContrato
<1>4. \A d \in Contratos, w \in Veiculos : Guarda(d, w) => Guarda(d, w)'
  BY <1>0, <1>b, <1>g DEF Guarda
<1>5. Guardadas'
  BY <1>4, <1>a DEF IInv, Guardadas
<1> QED BY <1>1, <1>2, <1>3, <1>5 DEF IInv

(* The new contract itself keeps the vehicle its session marks as rented.  *)
LEMMA CommitCreateInv ==
  ASSUME IInv, NEW s \in SessoesFrota, CommitCreate(s)
  PROVE  IInv'
<1>1. PICK c \in fs[s].alvo :
        /\ contratos' = [contratos EXCEPT ![c].st = fs[s].st]
        /\ IF fs[s].aluga
           THEN /\ veiculos' = [veiculos EXCEPT ![contratos[c].moto] = "alugada"]
                /\ porMao' = porMao \ {contratos[c].moto}
           ELSE UNCHANGED <<veiculos, porMao>>
  BY DEF CommitCreate
<1>a. /\ c \in Contratos /\ fs[s].st \in SituacaoContrato
      /\ contratos[c].st = "novo" /\ contratos[c].moto \in Veiculos
      /\ fs[s].op = "cria"
      /\ \A t \in SessoesFrota \ {s} : c \notin fs[t].alvo
  BY Fields DEF CommitCreate, IInv, Achados
<1>m. PICK m \in Veiculos : m = contratos[c].moto
  BY <1>a
<1>b. /\ fs' = [fs EXCEPT ![s] = Livre] /\ quedas' = quedas
      /\ UNCHANGED <<assinaturas, conectada>>
  BY DEF CommitCreate, Close, doPainel
<1>0. /\ fs' \in [SessoesFrota -> SessaoFrota] /\ fs'[s] = Livre
      /\ \A t \in SessoesFrota \ {s} : fs'[t] = fs[t]
  BY <1>b, LivreType, Move DEF IInv
<1>e. /\ contratos' \in [Contratos -> Contrato]
      /\ contratos'[c].moto = m /\ contratos'[c].st \in SituacaoContrato
      /\ \A d \in Contratos \ {c} : contratos'[d] = contratos[d]
  BY <1>1, <1>a, <1>m DEF IInv, FrotaTypeOK, Contrato
<1>f. /\ veiculos' \in [Veiculos -> SituacaoMoto] /\ porMao' \subseteq Veiculos
      /\ \A w \in Veiculos \ {m} :
           veiculos'[w] = veiculos[w] /\ (w \in porMao' <=> w \in porMao)
      /\ ~fs[s].aluga => veiculos' = veiculos /\ porMao' = porMao
  BY <1>1, <1>m DEF IInv, FrotaTypeOK, SituacaoMoto
<1>2. FrotaTypeOK'
  BY <1>0, <1>b, <1>e, <1>f DEF IInv, FrotaTypeOK
<1>3. Achados'
  <2>1. \A t \in SessoesFrota : fs[t].alvo \subseteq Contratos
    BY Fields DEF IInv
  <2> QED BY <1>0, <1>a, <1>e, <2>1, LivreType DEF IInv, Achados
<1>4. Situados'
  BY <1>a, <1>e DEF IInv, Situados, Linha
<1>5. Guarda(c, m)'
  BY <1>0, <1>a, <1>e, LivreType DEF Guarda, Linha
<1>6. \A d \in Contratos, w \in Veiculos : Guarda(d, w) => Guarda(d, w)'
  <2> SUFFICES ASSUME NEW d \in Contratos, NEW w \in Veiculos, Guarda(d, w)
               PROVE  Guarda(d, w)'
    OBVIOUS
  <2>1. d # c
    BY <1>a DEF Guarda, Linha, SituacaoContrato
  <2> QED BY <2>1, <1>0, <1>e, LivreType DEF Guarda, Linha
<1>7. Guardadas'
  <2> SUFFICES ASSUME NEW w \in Veiculos, veiculos'[w] = "alugada", w \notin porMao'
               PROVE  \E d \in Contratos : Guarda(d, w)'
    BY DEF Guardadas
  <2>1. CASE w = m
    BY <2>1, <1>5, <1>a
  <2>2. CASE w # m
    BY <2>2, <1>6, <1>f DEF IInv, Guardadas
  <2> QED BY <2>1, <2>2
<1> QED BY <1>2, <1>3, <1>4, <1>7 DEF IInv

(* A session comes to one of its contracts: its vehicle, if rented, will   *)
(* be set free.                                                            *)
LEMMA EndInv ==
  ASSUME IInv, NEW s \in SessoesFrota, NEW c \in Contratos, End(s, c)
  PROVE  IInv'
<1>m. PICK v : v = contratos[c].moto
  OBVIOUS
<1>k. PICK lv : lv = IF Devolve(s, v) THEN fs[s].livra \cup {v} ELSE fs[s].livra
  OBVIOUS
<1>r. PICK r : r = [fs[s] EXCEPT !.resta = @ \ {c}, !.livra = lv]
  OBVIOUS
<1>a. /\ c \in fs[s].resta /\ CancelSubscription(fs[s].subs[c])
      /\ fs' = [fs EXCEPT ![s] = r]
      /\ UNCHANGED <<contratos, veiculos, porMao, conectada, quedas>>
  BY <1>m, <1>k, <1>r, Fields DEF End, IInv, FrotaTypeOK, SessaoFrota
<1>b. /\ fs[s].op \in {"fim", "exclui", "expira", "assina"} /\ c \in fs[s].alvo
      /\ v \in Veiculos
  BY <1>a, <1>m, LivreType, Fields DEF IInv, Achados, Situados, SessaoFrota
<1>c. lv \in SUBSET Veiculos
  BY <1>b, <1>k, Fields DEF IInv
<1>d. /\ r \in SessaoFrota /\ r.op = fs[s].op /\ r.alvo = fs[s].alvo
      /\ r.resta = fs[s].resta \ {c} /\ r.livra = lv /\ r.subs = fs[s].subs
  BY <1>c, <1>r, Fields DEF IInv, SessaoFrota
<1>0. /\ fs' \in [SessoesFrota -> SessaoFrota] /\ fs'[s] = r
      /\ \A t \in SessoesFrota \ {s} : fs'[t] = fs[t]
  BY <1>a, <1>d, Move DEF IInv
<1>e. assinaturas' \in [Assinaturas -> Assinatura]
  BY <1>a DEF CancelSubscription, IInv, FrotaTypeOK, Assinatura
<1>1. FrotaTypeOK'
  BY <1>0, <1>a, <1>e DEF IInv, FrotaTypeOK
<1>2. Achados'
  BY <1>0, <1>a, <1>b, <1>d DEF IInv, Achados
<1>3. Situados'
  BY <1>a DEF IInv, Situados
<1>4. \A d \in Contratos, w \in Veiculos :
        veiculos[w] = "alugada" /\ Guarda(d, w) => Guarda(d, w)'
  <2> SUFFICES ASSUME NEW d \in Contratos, NEW w \in Veiculos, Guarda(d, w),
                      veiculos[w] = "alugada", fs[s].op = "exclui",
                      d \in fs[s].alvo
               PROVE  d \in r.resta \/ w \in r.livra
    BY <1>0, <1>a, <1>d DEF Guarda, Linha
  <2>1. CASE d # c
    BY <2>1, <1>d, <1>k DEF Guarda
  <2>2. CASE d = c
    BY <2>2, <1>d, <1>k, <1>m DEF Guarda, Devolve
  <2> QED BY <2>1, <2>2
<1>5. Guardadas'
  BY <1>4, <1>a DEF IInv, Guardadas
<1> QED BY <1>1, <1>2, <1>3, <1>5 DEF IInv

-----------------------------------------------------------------------------
(* The token was renewed on the way: what had been assigned is committed,  *)
(* a status in rows that stay, and a vehicle only ever set free.           *)
LEMMA EndRenewingInv ==
  ASSUME IInv, NEW s \in SessoesFrota, NEW c \in Contratos, EndRenewing(s, c)
  PROVE  IInv'
<1>m. PICK v : v = contratos[c].moto
  OBVIOUS
<1>k. PICK lv : lv = IF Devolve(s, v) THEN fs[s].livra \cup {v} ELSE fs[s].livra
  OBVIOUS
<1>l. PICK ft : ft = Assigned(s, c)
  OBVIOUS
<1>n. PICK lr : lr = IF fs[s].op = "expira" THEN {} ELSE lv
  OBVIOUS
<1>o. PICK sb : sb = [d \in Contratos |->
                       IF d \in fs[s].alvo THEN contratos[d].sub ELSE Nada]
  OBVIOUS
<1>a. /\ c \in fs[s].resta /\ \A d \in ft \cup {c} : Linha(d)
      /\ contratos' = [d \in Contratos |->
           IF d \in ft \ fs[s].escritas
           THEN [contratos[d] EXCEPT !.st = fs[s].st] ELSE contratos[d]]
      /\ IF fs[s].op = "expira" THEN Liberados(lv) ELSE UNCHANGED <<veiculos, porMao>>
      /\ assinaturas' \in {assinaturas,
           [assinaturas EXCEPT ![contratos[c].sub].st = "cancelled"]}
      /\ conectada' \in {conectada} \cup BOOLEAN
      /\ UNCHANGED quedas
  BY <1>m, <1>k, <1>l DEF EndRenewing
<1>p. PICK alvo : /\ alvo \in {(fs[s].alvo \ ft) \cup {c}, fs[s].alvo \ ft}
                  /\ fs' = [fs EXCEPT ![s] = [fs[s] EXCEPT
                       !.resta = fs[s].resta \ {c}, !.alvo = alvo,
                       !.escritas = ft, !.livra = lr, !.subs = sb]]
  <2> DEFINE vv == contratos[c].moto
             lw == IF Devolve(s, vv) THEN fs[s].livra \cup {vv} ELSE fs[s].livra
             fe == Assigned(s, c)
             lx == IF fs[s].op = "expira" THEN {} ELSE lw
             sx == [d \in Contratos |->
                      IF d \in fs[s].alvo THEN contratos[d].sub ELSE Nada]
  <2>1. PICK cancelada \in BOOLEAN :
          fs' = [fs EXCEPT ![s] = [fs[s] EXCEPT
            !.resta = fs[s].resta \ {c},
            !.alvo = (fs[s].alvo \ fe) \cup (IF cancelada THEN {c} ELSE {}),
            !.escritas = fe, !.livra = lx, !.subs = sx]]
    BY Zenon DEF EndRenewing
  <2>2. lx = lr /\ fe = ft /\ sx = sb
    BY <1>m, <1>k, <1>l, <1>n, <1>o
  <2> HIDE DEF lx, fe, sx
  <2>3. PICK alvo : alvo = (fs[s].alvo \ ft) \cup (IF cancelada THEN {c} ELSE {})
    OBVIOUS
  <2>4. fs' = [fs EXCEPT ![s] = [fs[s] EXCEPT
          !.resta = fs[s].resta \ {c}, !.alvo = alvo,
          !.escritas = ft, !.livra = lr, !.subs = sb]]
    BY <2>1, <2>2, <2>3
  <2>5. alvo \in {(fs[s].alvo \ ft) \cup {c}, fs[s].alvo \ ft}
    BY <2>3
  <2> QED BY <2>4, <2>5
<1>b. /\ fs[s].op \in {"fim", "exclui", "expira", "assina"} /\ c \in fs[s].alvo
      /\ v \in Veiculos /\ fs[s].resta \subseteq fs[s].alvo
  BY <1>a, <1>m, LivreType, Fields DEF IInv, Achados, Situados, SessaoFrota
<1>c. /\ lv \in SUBSET Veiculos /\ lr \in SUBSET Veiculos
      /\ ft \subseteq fs[s].alvo /\ ft \cap (fs[s].resta \ {c}) = {}
      /\ fs[s].op = "exclui" => ft = {} /\ lr = lv
      /\ sb \in [Contratos -> Assinaturas \cup {Nada}]
  BY <1>b, <1>k, <1>l, <1>n, <1>o, Fields
     DEF Assigned, IInv, FrotaTypeOK, Contrato
<1>r. PICK r : r = [fs[s] EXCEPT !.resta = fs[s].resta \ {c}, !.alvo = alvo,
                                 !.escritas = ft, !.livra = lr, !.subs = sb]
  OBVIOUS
<1>d. /\ r \in SessaoFrota /\ r.op = fs[s].op /\ r.alvo = alvo
      /\ r.resta = fs[s].resta \ {c} /\ r.livra = lr
      /\ alvo \subseteq fs[s].alvo /\ fs[s].resta \ {c} \subseteq alvo
      /\ fs[s].op = "exclui" => alvo = fs[s].alvo
  <2>1. /\ alvo \subseteq fs[s].alvo /\ fs[s].resta \ {c} \subseteq alvo
        /\ fs[s].op = "exclui" => alvo = fs[s].alvo
    BY <1>b, <1>c, <1>p
  <2>2. alvo \in SUBSET Contratos /\ ft \in SUBSET Contratos
    BY <2>1, <1>c, Fields DEF IInv
  <2>3. r \in SessaoFrota /\ r.op = fs[s].op /\ r.alvo = alvo
        /\ r.resta = fs[s].resta \ {c} /\ r.livra = lr
    BY <2>2, <1>c, <1>r, Fields DEF IInv, SessaoFrota
  <2> QED BY <2>1, <2>3
<1>0. /\ fs' \in [SessoesFrota -> SessaoFrota] /\ fs'[s] = r
      /\ \A t \in SessoesFrota \ {s} : fs'[t] = fs[t]
  BY <1>p, <1>r, <1>d, Move DEF IInv
<1>e. Mesmas
  <2>1. fs[s].st \in SituacaoContrato
    BY Fields DEF IInv
  <2>2. \A d \in Contratos : d \in ft => Linha(d)
    BY <1>a
  <2>3. /\ contratos' \in [Contratos -> Contrato]
        /\ \A d \in Contratos :
             /\ contratos'[d].moto = contratos[d].moto
             /\ contratos'[d].st \in {contratos[d].st} \cup
                  (IF d \in ft THEN {fs[s].st} ELSE {})
    BY <1>a, <2>1 DEF IInv, FrotaTypeOK, Contrato
  <2> QED BY <2>1, <2>2, <2>3 DEF Mesmas, Linha, SituacaoContrato
<1>f. /\ veiculos' \in [Veiculos -> SituacaoMoto] /\ porMao' \subseteq Veiculos
      /\ \A w \in Veiculos : veiculos'[w] = "alugada" /\ w \notin porMao' =>
           veiculos[w] = "alugada" /\ w \notin porMao
  BY <1>a DEF Liberados, IInv, FrotaTypeOK, SituacaoMoto
<1>g. assinaturas' \in [Assinaturas -> Assinatura] /\ conectada' \in BOOLEAN
  BY <1>a DEF IInv, FrotaTypeOK, Assinatura
<1>1. FrotaTypeOK'
  BY <1>0, <1>a, <1>e, <1>f, <1>g DEF IInv, FrotaTypeOK, Mesmas
<1>2. Achados'
  <2>1. \A t \in SessoesFrota : fs[t].alvo \subseteq Contratos
    BY Fields DEF IInv
  <2> QED BY <1>0, <1>b, <1>d, <1>e, <2>1 DEF IInv, Achados, Mesmas
<1>3. Situados'
  BY <1>e DEF IInv, Situados, Mesmas
<1>4. \A d \in Contratos, w \in Veiculos :
        veiculos[w] = "alugada" /\ Guarda(d, w) => Guarda(d, w)'
  <2> SUFFICES ASSUME NEW d \in Contratos, NEW w \in Veiculos, Guarda(d, w),
                      veiculos[w] = "alugada", fs[s].op = "exclui",
                      d \in fs[s].alvo
               PROVE  d \in r.resta \/ w \in r.livra
    BY <1>0, <1>d, <1>e DEF Guarda, Mesmas
  <2>1. CASE d # c
    BY <2>1, <1>c, <1>d, <1>k DEF Guarda
  <2>2. CASE d = c
    BY <2>2, <1>c, <1>d, <1>k, <1>m DEF Guarda, Devolve
  <2> QED BY <2>1, <2>2
<1>5. Guardadas'
  BY <1>4, <1>f DEF IInv, Guardadas
<1> QED BY <1>1, <1>2, <1>3, <1>5 DEF IInv

LEMMA CommitEndInv ==
  ASSUME IInv, NEW s \in SessoesFrota, CommitEnd(s)
  PROVE  IInv'
<1>a. /\ fs' = [fs EXCEPT ![s] = Livre] /\ fs[s].resta = {}
      /\ fs[s].op \in {"fim", "exclui", "expira"}
      /\ UNCHANGED <<assinaturas, conectada, quedas>>
      /\ veiculos' = [v \in Veiculos |->
           IF v \in fs[s].livra THEN "disponivel" ELSE veiculos[v]]
      /\ porMao' = porMao \ fs[s].livra
  BY DEF CommitEnd, Liberados, Close, doPainel
<1>0. /\ fs' \in [SessoesFrota -> SessaoFrota] /\ fs'[s] = Livre
      /\ \A t \in SessoesFrota \ {s} : fs'[t] = fs[t]
  BY <1>a, LivreType, Move DEF IInv
<1>b. /\ \A c \in fs[s].alvo : contratos[c].st # "novo"
      /\ fs[s].op # "exclui" => \A c \in fs[s].alvo : Linha(c)
      /\ fs[s].alvo \subseteq Contratos
  BY <1>a, Fields DEF CommitEnd, IInv, Achados
<1>c. /\ contratos' \in [Contratos -> Contrato]
      /\ \A c \in Contratos :
           /\ contratos'[c].moto = contratos[c].moto
           /\ contratos'[c].st = "novo" <=> contratos[c].st = "novo"
           /\ c \notin fs[s].alvo => contratos'[c] = contratos[c]
           /\ fs[s].op # "exclui" => (Linha(c) <=> Linha(c)')
  <2>1. fs[s].st \in SituacaoContrato
    BY Fields DEF IInv
  <2>2. contratos' = [c \in Contratos |->
          IF c \notin fs[s].alvo \ fs[s].escritas THEN contratos[c]
          ELSE [contratos[c] EXCEPT
                  !.st = IF fs[s].op = "exclui" THEN "excluido" ELSE fs[s].st]]
    BY DEF CommitEnd
  <2>3. contratos' \in [Contratos -> Contrato]
    BY <2>1, <2>2 DEF IInv, FrotaTypeOK, Contrato
  <2>4. \A c \in Contratos : c \in fs[s].alvo =>
          /\ contratos'[c].moto = contratos[c].moto
          /\ contratos'[c].st \in {contratos[c].st,
               IF fs[s].op = "exclui" THEN "excluido" ELSE fs[s].st}
    BY <2>2 DEF IInv, FrotaTypeOK, Contrato
  <2>5. \A c \in Contratos : c \notin fs[s].alvo => contratos'[c] = contratos[c]
    BY <2>2
  <2> QED BY <2>1, <2>3, <2>4, <2>5, <1>b DEF Linha, SituacaoContrato
<1>1. FrotaTypeOK'
  <2>1. veiculos' \in [Veiculos -> SituacaoMoto] /\ porMao' \subseteq Veiculos
    BY <1>a DEF IInv, FrotaTypeOK, SituacaoMoto
  <2> QED BY <1>0, <1>a, <1>c, <2>1 DEF IInv, FrotaTypeOK
<1>2. Achados'
  <2>1. \A t \in SessoesFrota : fs[t].alvo \subseteq Contratos
    BY Fields DEF IInv
  <2> QED BY <1>0, <1>c, <2>1, LivreType DEF IInv, Achados
<1>3. Situados'
  BY <1>c DEF IInv, Situados
<1>4. \A c \in Contratos, v \in Veiculos :
        v \notin fs[s].livra /\ Guarda(c, v) => Guarda(c, v)'
  <2> SUFFICES ASSUME NEW c \in Contratos, NEW v \in Veiculos,
                      v \notin fs[s].livra, Guarda(c, v)
               PROVE  Guarda(c, v)'
    OBVIOUS
  <2>1. fs[s].op = "exclui" => c \notin fs[s].alvo
    BY <1>a DEF Guarda
  <2>2. Linha(c)' /\ contratos'[c].moto = v
    BY <2>1, <1>c DEF Guarda, Linha
  <2> QED BY <2>2, <1>0, LivreType DEF Guarda
<1>5. Guardadas'
  <2> SUFFICES ASSUME NEW v \in Veiculos, veiculos'[v] = "alugada", v \notin porMao'
               PROVE  \E c \in Contratos : Guarda(c, v)'
    BY DEF Guardadas
  <2>1. v \notin fs[s].livra /\ veiculos[v] = "alugada" /\ v \notin porMao
    BY <1>a
  <2> QED BY <2>1, <1>4 DEF IInv, Guardadas
<1> QED BY <1>1, <1>2, <1>3, <1>5 DEF IInv

-----------------------------------------------------------------------------
LEMMA EndsInv ==
  ASSUME IInv,
         \/ \E s \in Pedidos, c \in Contratos :
              \/ \E st \in SituacaoContrato : UpdateContrato(s, c, st)
              \/ DeleteContrato(s, c)
         \/ ProcessContractExpiry
  PROVE  IInv'
<1>0. Pedidos \subseteq SessoesFrota /\ Tick \in SessoesFrota
      /\ {"finalizado", "cancelado", "ativo"} \subseteq SituacaoContrato
  BY DEF SessoesFrota, SituacaoContrato
<1>1. ASSUME NEW s \in Pedidos, NEW c \in Contratos, NEW st \in SituacaoContrato,
             UpdateContrato(s, c, st)
      PROVE  IInv'
  <2>1. LoadRows(s, "fim", {c}, st) /\ Linha(c)
    BY <1>1, <1>0 DEF UpdateContrato, Linha
  <2> QED BY <2>1, <1>0, LoadInv
<1>2. ASSUME NEW s \in Pedidos, NEW c \in Contratos, DeleteContrato(s, c)
      PROVE  IInv'
  <2>1. LoadRows(s, "exclui", {c}, "cancelado") /\ Linha(c)
    BY <1>2 DEF DeleteContrato
  <2> QED BY <2>1, <1>0, LoadInv
<1>3. CASE ProcessContractExpiry
  <2> DEFINE rows == {c \in Contratos : Vencido(c)}
  <2>1. LoadRows(Tick, "expira", rows, "finalizado") /\ \A c \in rows : Linha(c)
    BY <1>3, <1>0 DEF ProcessContractExpiry, Vencido, Linha
  <2>2. rows \in SUBSET Contratos
    OBVIOUS
  <2> HIDE DEF rows
  <2> QED BY <2>1, <2>2, <1>0, LoadInv
<1> QED BY <1>1, <1>2, <1>3

LEMMA StutterInv ==
  ASSUME IInv, UNCHANGED frotaVars
  PROVE  IInv'
<1> USE DEF frotaVars
<1>1. Mesmas
  BY DEF Mesmas, Linha, IInv, FrotaTypeOK
<1> QED BY <1>1, RowsInv DEF IInv, FrotaTypeOK

LEMMA NextInv == IInv /\ [FrotaNext]_frotaVars => IInv'
<1> SUFFICES ASSUME IInv, [FrotaNext]_frotaVars PROVE IInv'
  OBVIOUS
<1>0. Pedidos \subseteq SessoesFrota
  BY DEF SessoesFrota
<1>1. CASE UNCHANGED frotaVars
  BY <1>1, StutterInv
<1>2. CASE \E v \in Veiculos, st \in SituacaoMoto : UpdateMoto(v, st)
  BY <1>2, UpdateMotoInv
<1>3. CASE \/ \E c \in Contratos : Vigencia(c) \/ ExtendVigencia(c)
           \/ \E c \in Contratos, st \in SituacaoContrato : UpdateStatus(c, st)
  BY <1>3, StatusInv
<1>4. ASSUME NEW s \in Pedidos, NEW c \in Contratos,
             \/ \E v \in Veiculos, st \in SituacaoContrato : CreateContrato(s, c, v, st)
             \/ \E st \in SituacaoContrato : UpdateContrato(s, c, st)
             \/ DeleteContrato(s, c)
             \/ \E sub \in Assinaturas : CreateSubscription(s, c, sub)
      PROVE  IInv'
  BY <1>4, <1>0, CreateContratoInv, EndsInv, CreateSubscriptionInv
<1>5. CASE ProcessContractExpiry
  BY <1>5, EndsInv
<1>6. CASE \/ \E sub \in Assinaturas : PreapprovalUpdated(sub) \/ Authorize(sub)
           \/ Credenciais
  BY <1>6, PainelInv
<1>7. CASE \E s \in SessoesFrota : Trabalha(s) \/ Cai(s)
  BY <1>7, CommitCreateInv, CommitEndInv, CommitSubscriptionInv, FimInv, EndInv,
     EndRenewingInv
     DEF Trabalha
<1> QED BY <1>1, <1>2, <1>3, <1>4, <1>5, <1>6, <1>7 DEF FrotaNext

(* A vehicle the system itself marked as rented always has a contract, for *)
(* any number of overlapping requests, deletions and daily passes          *)
(* (fleet_service.py:397-455, tasks.py:377-411).                           *)
THEOREM RentedHasContract == FrotaSpec => []AlugadaTemContrato
<1>1. IInv => AlugadaTemContrato
  BY DEF IInv, Guardadas, Guarda, AlugadaTemContrato
<1> QED BY <1>1, InitInv, NextInv, PTL DEF FrotaSpec

-----------------------------------------------------------------------------
(* Files and rows.  A session that stores a file has its key to itself     *)
(* until its row is there, one that removes a file has removed the row     *)
(* first, and the deletion of an entity keeps track of the files it has    *)
(* still to remove.                                                        *)

Estados == {"livre", "usada", "linha", "excluida"}

AnexosTypeOK ==
  /\ anexos \in [Anexos -> Estados]
  /\ blobs \subseteq Anexos
  /\ as \in [SessoesAnexo -> SessaoAnexo]
  /\ falhas \in Nat

Subindo(r, a) == r.pc \in {"salvar", "inserir"} /\ a \in r.chaves

(* What session record r says of attachments A, files B and faults F.      *)
EmDia(r, A, B, F) ==
  \A a \in Anexos :
    /\ r.pc = "livre" => a \notin r.chaves
    /\ Subindo(r, a) => A[a] = "usada"
    /\ r.pc = "apagar" => (a \in r.linhas <=> a \in r.chaves)
    /\ r.pc \in {"apagar", "excluir"} /\ a \in r.linhas =>
         A[a] \in {"linha", "excluida"}
    /\ r.pc = "limpar" /\ a \in r.chaves => A[a] = "excluida"
    /\ r.pc = "excluir" /\ F = 0 /\ a \in r.linhas => a \in r.chaves \/ a \notin B

ArquivosInv ==
  /\ AnexosTypeOK
  /\ \A s \in SessoesAnexo : EmDia(as[s], anexos, blobs, falhas)
  /\ \A s, t \in SessoesAnexo, a \in Anexos :
       Subindo(as[s], a) /\ Subindo(as[t], a) => s = t
  /\ SemLixo

(* What a step of session s, which makes it r, has to show.                *)
LEMMA PassoAnexo ==
  ASSUME ArquivosInv, NEW s \in SessoesAnexo, NEW r \in SessaoAnexo,
         as' = [as EXCEPT ![s] = r],
         anexos' \in [Anexos -> Estados], blobs' \subseteq Anexos, falhas' \in Nat,
         EmDia(r, anexos', blobs', falhas'),
         \A t \in SessoesAnexo \ {s} : EmDia(as[t], anexos', blobs', falhas'),
         \A a \in Anexos : Subindo(r, a) =>
           Subindo(as[s], a) \/ \A t \in SessoesAnexo : ~Subindo(as[t], a),
         falhas' = 0 =>
           /\ falhas = 0
           /\ \A a \in blobs' :
                \/ anexos'[a] = "linha" \/ a \in r.chaves
                \/ /\ a \in blobs /\ a \notin as[s].chaves
                   /\ anexos[a] = "linha" => anexos'[a] = "linha"
  PROVE  ArquivosInv'
<1>1. AnexosTypeOK'
  BY DEF ArquivosInv, AnexosTypeOK
<1>2. as'[s] = r /\ \A t \in SessoesAnexo \ {s} : as'[t] = as[t]
  BY DEF ArquivosInv, AnexosTypeOK
<1>3. \A t \in SessoesAnexo : EmDia(as'[t], anexos', blobs', falhas')
  BY <1>2
<1>4. ASSUME NEW t \in SessoesAnexo, NEW u \in SessoesAnexo, NEW a \in Anexos,
             Subindo(as'[t], a), Subindo(as'[u], a)
      PROVE  t = u
  <2>1. CASE t = s /\ u # s
    BY <1>2, <1>4, <2>1 DEF ArquivosInv
  <2>2. CASE u = s /\ t # s
    BY <1>2, <1>4, <2>2 DEF ArquivosInv
  <2>3. CASE t # s /\ u # s
    BY <1>2, <1>4, <2>3 DEF ArquivosInv
  <2> QED BY <2>1, <2>2, <2>3
<1>5. SemLixo'
  <2> SUFFICES ASSUME falhas' = 0, NEW a \in blobs', anexos'[a] # "linha"
               PROVE  \E t \in SessoesAnexo : a \in as'[t].chaves
    BY DEF SemLixo, Existentes, EmCurso
  <2>1. CASE a \in r.chaves
    BY <1>2, <2>1
  <2>2. CASE a \in blobs /\ a \notin as[s].chaves /\ anexos[a] # "linha"
    <3>1. PICK t \in SessoesAnexo : a \in as[t].chaves
      BY <2>2 DEF ArquivosInv, SemLixo, Existentes, EmCurso
    <3> QED BY <1>2, <2>2, <3>1
  <2> QED BY <2>1, <2>2
<1> QED BY <1>1, <1>3, <1>4, <1>5 DEF ArquivosInv

LEMMA QuietaType ==
  /\ Quieta \in SessaoAnexo /\ Quieta.chaves = {}
  /\ \A a : ~Subindo(Quieta, a)
  /\ \A A, B, F : EmDia(Quieta, A, B, F)
BY DEF Quieta, SessaoAnexo, Subindo, EmDia

LEMMA AnexoFatos ==
  ASSUME ArquivosInv, NEW s \in SessoesAnexo
  PROVE  /\ as[s] \in SessaoAnexo /\ EmDia(as[s], anexos, blobs, falhas)
         /\ anexos \in [Anexos -> Estados] /\ blobs \subseteq Anexos
         /\ falhas \in Nat /\ as[s].chaves \subseteq Anexos
         /\ \A t \in SessoesAnexo : EmDia(as[t], anexos, blobs, falhas)
BY DEF ArquivosInv, AnexosTypeOK, SessaoAnexo

LEMMA UploadInv ==
  ASSUME ArquivosInv, NEW s \in SessoesAnexo, NEW a \in Anexos, UploadAnexo(s, a)
  PROVE  ArquivosInv'
<1> DEFINE r == [pc |-> "salvar", chaves |-> {a}, linhas |-> {}]
<1>1. /\ as[s].pc = "livre" /\ as' = [as EXCEPT ![s] = r]
      /\ anexos[a] = "livre" /\ anexos' = [anexos EXCEPT ![a] = "usada"]
      /\ blobs' = blobs /\ falhas' = falhas
  BY DEF UploadAnexo, Comeca
<1>2. r \in SessaoAnexo /\ r.pc = "salvar" /\ r.chaves = {a} /\ r.linhas = {}
  BY DEF SessaoAnexo
<1> HIDE DEF r
<1>3. /\ anexos' \in [Anexos -> Estados]
      /\ \A b \in Anexos : anexos'[b] = IF b = a THEN "usada" ELSE anexos[b]
  BY <1>1, AnexoFatos DEF Estados
<1>4. \A t \in SessoesAnexo : ~Subindo(as[t], a)
  BY <1>1, AnexoFatos DEF EmDia
<1>5. EmDia(r, anexos', blobs', falhas')
  BY <1>2, <1>3 DEF EmDia, Subindo
<1>6. \A t \in SessoesAnexo \ {s} : EmDia(as[t], anexos', blobs', falhas')
  BY <1>1, <1>3, <1>4, AnexoFatos, ZenonT(40) DEF EmDia
<1>7. \A b \in Anexos : Subindo(r, b) => \A t \in SessoesAnexo : ~Subindo(as[t], b)
  BY <1>2, <1>4 DEF Subindo
<1>8. \A b \in blobs : b \notin as[s].chaves /\ (anexos[b] = "linha" => anexos'[b] = "linha")
  BY <1>1, <1>3, AnexoFatos DEF EmDia
<1> QED BY <1>1, <1>2, <1>3, <1>5, <1>6, <1>7, <1>8, AnexoFatos, PassoAnexo

LEMMA SaveBlobInv ==
  ASSUME ArquivosInv, NEW s \in SessoesAnexo, SaveBlob(s)
  PROVE  ArquivosInv'
<1> DEFINE r == [as[s] EXCEPT !.pc = "inserir", !.chaves = as[s].chaves]
<1>1. /\ as[s].pc = "salvar" /\ as' = [as EXCEPT ![s] = r]
      /\ anexos' = anexos /\ blobs' = blobs \cup as[s].chaves /\ falhas' = falhas
  BY DEF SaveBlob, Anda
<1>2. /\ r \in SessaoAnexo /\ r.pc = "inserir" /\ r.chaves = as[s].chaves
      /\ r.linhas = as[s].linhas
  BY AnexoFatos DEF SessaoAnexo
<1> HIDE DEF r
<1>3. \A a \in as[s].chaves : Subindo(as[s], a) /\ anexos[a] = "usada"
  BY <1>1, AnexoFatos DEF EmDia, Subindo
<1>4. EmDia(r, anexos', blobs', falhas')
  BY <1>1, <1>2, <1>3, AnexoFatos DEF EmDia, Subindo
<1>5. \A t \in SessoesAnexo \ {s} : EmDia(as[t], anexos', blobs', falhas')
  BY <1>1, <1>3, AnexoFatos DEF EmDia
<1>6. \A a \in Anexos : Subindo(r, a) => Subindo(as[s], a)
  BY <1>1, <1>2 DEF Subindo
<1>7. blobs' \subseteq Anexos
  BY <1>1, AnexoFatos
<1>8. \A a \in blobs' : a \in r.chaves \/ (a \in blobs /\ a \notin as[s].chaves)
  BY <1>1, <1>2
<1>9. falhas' = 0 =>
        /\ falhas = 0
        /\ \A a \in blobs' :
             \/ anexos'[a] = "linha" \/ a \in r.chaves
             \/ /\ a \in blobs /\ a \notin as[s].chaves
                /\ anexos[a] = "linha" => anexos'[a] = "linha"
  BY <1>1, <1>8
<1>10. /\ as' = [as EXCEPT ![s] = r] /\ r \in SessaoAnexo
       /\ anexos' \in [Anexos -> Estados] /\ falhas' \in Nat
  BY <1>1, <1>2, AnexoFatos
<1> QED BY <1>4, <1>5, <1>6, <1>7, <1>9, <1>10, PassoAnexo

(* Rows that change from "usada" to "linha" are the session's own.         *)
LEMMA InsertAnexoInv ==
  ASSUME ArquivosInv, NEW s \in SessoesAnexo, InsertAnexo(s)
  PROVE  ArquivosInv'
<1>1. /\ as[s].pc = "inserir" /\ as' = [as EXCEPT ![s] = Quieta]
      /\ anexos' = [a \in Anexos |-> IF a \in as[s].chaves THEN "linha" ELSE anexos[a]]
      /\ blobs' = blobs /\ falhas' = falhas
  BY DEF InsertAnexo, Solta
<1>2. anexos' \in [Anexos -> Estados]
  BY <1>1, AnexoFatos DEF Estados
<1>3. \A a \in as[s].chaves : Subindo(as[s], a) /\ anexos[a] = "usada"
  BY <1>1, AnexoFatos DEF EmDia, Subindo
<1>4. \A t \in SessoesAnexo \ {s}, a \in as[s].chaves : ~Subindo(as[t], a)
  BY <1>3, AnexoFatos DEF ArquivosInv
<1>5. \A t \in SessoesAnexo \ {s} : EmDia(as[t], anexos', blobs', falhas')
  BY <1>1, <1>3, <1>4, AnexoFatos DEF EmDia
<1>6. \A a \in blobs' : anexos'[a] = "linha" \/
        (a \in blobs /\ a \notin as[s].chaves
         /\ (anexos[a] = "linha" => anexos'[a] = "linha"))
  BY <1>1, AnexoFatos
<1> QED BY <1>1, <1>2, <1>5, <1>6, QuietaType, AnexoFatos, PassoAnexo

(* A session takes on a removal.                                           *)
LEMMA TomaInv ==
  ASSUME ArquivosInv, NEW s \in SessoesAnexo, as[s].pc = "livre",
         NEW pc \in {"apagar", "excluir"},
         NEW linhas \in SUBSET Anexos, \A a \in linhas : anexos[a] = "linha",
         Comeca(s, pc, linhas, linhas), UNCHANGED <<anexos, blobs, falhas>>
  PROVE  ArquivosInv'
<1> DEFINE r == [pc |-> pc, chaves |-> linhas, linhas |-> linhas]
<1>1. as' = [as EXCEPT ![s] = r]
  BY DEF Comeca
<1>2. r \in SessaoAnexo /\ r.pc = pc /\ r.chaves = linhas /\ r.linhas = linhas
  BY DEF SessaoAnexo
<1> HIDE DEF r
<1>3. EmDia(r, anexos', blobs', falhas') /\ \A a \in Anexos : ~Subindo(r, a)
  BY <1>2 DEF EmDia, Subindo
<1>4. \A a \in blobs : a \notin as[s].chaves
  BY AnexoFatos DEF EmDia
<1> QED BY <1>1, <1>2, <1>3, <1>4, AnexoFatos, PassoAnexo

LEMMA CommitDeleteAnexoInv ==
  ASSUME ArquivosInv, NEW s \in SessoesAnexo, CommitDeleteAnexo(s)
  PROVE  ArquivosInv'
<1> DEFINE r == [as[s] EXCEPT !.pc = "limpar", !.chaves = as[s].chaves]
<1>1. /\ as[s].pc = "apagar" /\ as' = [as EXCEPT ![s] = r]
      /\ anexos' = [a \in Anexos |-> IF a \in as[s].linhas THEN "excluida" ELSE anexos[a]]
      /\ blobs' = blobs /\ falhas' = falhas
  BY DEF CommitDeleteAnexo, Anda
<1>2. /\ r \in SessaoAnexo /\ r.pc = "limpar" /\ r.chaves = as[s].chaves
      /\ r.linhas = as[s].linhas
  BY AnexoFatos DEF SessaoAnexo
<1> HIDE DEF r
<1>3. anexos' \in [Anexos -> Estados]
  BY <1>1, AnexoFatos DEF Estados
<1>4. \A a \in Anexos : /\ a \in as[s].linhas <=> a \in as[s].chaves
                        /\ a \in as[s].linhas => anexos[a] \in {"linha", "excluida"}
  BY <1>1, AnexoFatos DEF EmDia
<1>5. EmDia(r, anexos', blobs', falhas') /\ \A a \in Anexos : ~Subindo(r, a)
  BY <1>1, <1>2, <1>4 DEF EmDia, Subindo
<1>6. \A t \in SessoesAnexo \ {s} : EmDia(as[t], anexos', blobs', falhas')
  BY <1>1, <1>4, AnexoFatos DEF EmDia
<1>7. \A a \in blobs' : a \in r.chaves \/
        (a \in blobs /\ a \notin as[s].chaves
         /\ (anexos[a] = "linha" => anexos'[a] = "linha"))
  BY <1>1, <1>2, <1>4, AnexoFatos
<1> QED BY <1>1, <1>2, <1>3, <1>5, <1>6, <1>7, AnexoFatos, PassoAnexo

LEMMA RemoveBlobInv ==
  ASSUME ArquivosInv, NEW s \in SessoesAnexo, RemoveBlob(s)
  PROVE  ArquivosInv'
<1>1. /\ as[s].pc = "limpar" /\ as' = [as EXCEPT ![s] = Quieta]
      /\ anexos' = anexos /\ blobs' = blobs \ as[s].chaves /\ falhas' = falhas
  BY DEF RemoveBlob, Solta
<1>2. \A t \in SessoesAnexo : EmDia(as[t], anexos', blobs', falhas')
  BY <1>1, AnexoFatos DEF EmDia
<1> QED BY <1>1, <1>2, QuietaType, AnexoFatos, PassoAnexo

LEMMA PurgeBlobInv ==
  ASSUME ArquivosInv, NEW s \in SessoesAnexo, NEW a \in Anexos, PurgeBlob(s, a)
  PROVE  ArquivosInv'
<1> DEFINE r == [as[s] EXCEPT !.pc = "excluir", !.chaves = as[s].chaves \ {a}]
<1>1. /\ as[s].pc = "excluir" /\ as' = [as EXCEPT ![s] = r] /\ anexos' = anexos
      /\ a \in as[s].chaves
      /\ \/ blobs' = blobs \ {a} /\ falhas' = falhas
         \/ blobs' = blobs /\ falhas' = falhas + 1
  BY DEF PurgeBlob, Anda, Falha
<1>2. /\ r \in SessaoAnexo /\ r.pc = "excluir" /\ r.chaves = as[s].chaves \ {a}
      /\ r.linhas = as[s].linhas
  BY AnexoFatos DEF SessaoAnexo
<1> HIDE DEF r
<1>3. /\ falhas' \in Nat /\ blobs' \subseteq Anexos /\ blobs' \subseteq blobs
      /\ falhas' = 0 => falhas = 0 /\ blobs' = blobs \ {a}
  <2>1. falhas \in Nat /\ blobs \subseteq Anexos
    BY AnexoFatos
  <2> QED BY <1>1, <2>1
<1>4. EmDia(r, anexos', blobs', falhas') /\ \A b \in Anexos : ~Subindo(r, b)
  BY <1>1, <1>2, <1>3, AnexoFatos DEF EmDia, Subindo
<1>5. \A t \in SessoesAnexo \ {s} : EmDia(as[t], anexos', blobs', falhas')
  BY <1>1, <1>3, AnexoFatos DEF EmDia
<1> QED BY <1>1, <1>2, <1>3, <1>4, <1>5, AnexoFatos, PassoAnexo

LEMMA CommitDeleteEntityInv ==
  ASSUME ArquivosInv, NEW s \in SessoesAnexo, CommitDeleteEntity(s)
  PROVE  ArquivosInv'
<1>1. /\ as[s].pc = "excluir" /\ as[s].chaves = {}
      /\ as' = [as EXCEPT ![s] = Quieta]
      /\ blobs' = blobs /\ falhas' = falhas
      /\ \/ anexos' = anexos
         \/ anexos' = [a \in Anexos |->
              IF a \in as[s].linhas THEN "excluida" ELSE anexos[a]]
  BY DEF CommitDeleteEntity, Solta
<1>2. anexos' \in [Anexos -> Estados]
  BY <1>1, AnexoFatos DEF Estados
<1>3. \A a \in Anexos :
        /\ a \in as[s].linhas => anexos[a] \in {"linha", "excluida"}
        /\ a \in as[s].linhas /\ falhas = 0 => a \notin blobs
        /\ anexos'[a] = anexos[a] \/ (a \in as[s].linhas /\ anexos'[a] = "excluida")
  BY <1>1, AnexoFatos DEF EmDia
<1>4. \A t \in SessoesAnexo \ {s} : EmDia(as[t], anexos', blobs', falhas')
  BY <1>1, <1>3, AnexoFatos DEF EmDia
<1>5. falhas = 0 => \A a \in blobs : anexos'[a] = anexos[a]
  BY <1>3, AnexoFatos
<1> QED BY ZenonT(40), <1>1, <1>2, <1>4, <1>5, QuietaType, AnexoFatos, PassoAnexo

LEMMA AnexoFalhaInv ==
  ASSUME ArquivosInv, NEW s \in SessoesAnexo, AnexoFalha(s)
  PROVE  ArquivosInv'
<1>1. /\ as' = [as EXCEPT ![s] = Quieta] /\ falhas' = falhas + 1
      /\ anexos' = anexos /\ blobs' = blobs
  BY DEF AnexoFalha, Solta, Falha
<1>2. falhas' \in Nat /\ falhas' # 0
  <2>1. falhas \in Nat
    BY AnexoFatos
  <2> QED BY <1>1, <2>1
<1>3. \A t \in SessoesAnexo : EmDia(as[t], anexos', blobs', falhas')
  BY <1>1, <1>2, AnexoFatos DEF EmDia
<1> QED BY <1>1, <1>2, <1>3, QuietaType, AnexoFatos, PassoAnexo

(* The photo and the entity share only the count of faults.                *)
LEMMA OutrosInv ==
  ASSUME ArquivosInv, UNCHANGED <<anexos, blobs, as>>, falhas' \in {falhas, falhas + 1}
  PROVE  ArquivosInv'
<1>1. falhas' \in Nat /\ (falhas' = 0 => falhas = 0)
  BY DEF ArquivosInv, AnexosTypeOK
<1> QED BY <1>1 DEF ArquivosInv, AnexosTypeOK, EmDia, SemLixo, Existentes, EmCurso

(* A step of a request for the photo.                                      *)
Fotografa(s) ==
  \/ \E e \in Extensoes : SaveMotoImagem(s, e)
  \/ DeleteMotoImagem(s) \/ SaveImagem(s) \/ CommitFoto(s)
  \/ RemoveImagem(s) \/ FotoFalha(s)

LEMMA ArquivosStep == ArquivosInv /\ [AnexosNext]_anexosVars => ArquivosInv'
<1> SUFFICES ASSUME ArquivosInv, [AnexosNext]_anexosVars PROVE ArquivosInv'
  OBVIOUS
<1>1. ASSUME NEW s \in SessoesAnexo, NEW a \in Anexos, DeleteAnexo(s, a)
      PROVE  ArquivosInv'
  <2>1. /\ Comeca(s, "apagar", {a}, {a}) /\ \A b \in {a} : anexos[b] = "linha"
        /\ UNCHANGED <<anexos, blobs, falhas>>
    BY <1>1 DEF DeleteAnexo
  <2>2. as[s].pc = "livre"
    BY <2>1 DEF Comeca
  <2> QED BY <2>1, <2>2, TomaInv
<1>2. ASSUME NEW s \in SessoesAnexo, DeleteEntity(s) PROVE ArquivosInv'
  <2>1. /\ Comeca(s, "excluir", Existentes, Existentes)
        /\ UNCHANGED <<anexos, blobs, falhas>>
    BY <1>2 DEF DeleteEntity
  <2>2. as[s].pc = "livre"
    BY <2>1 DEF Comeca
  <2>3. Existentes \subseteq Anexos /\ \A b \in Existentes : anexos[b] = "linha"
    BY DEF Existentes
  <2> QED BY <2>1, <2>2, <2>3, TomaInv
<1>3. ASSUME NEW s \in SessoesAnexo, Fotografa(s) PROVE ArquivosInv'
  BY <1>3, OutrosInv DEF Fotografa, SaveImagem, DeleteMotoImagem,
     CommitFoto, RemoveImagem, FotoFalha, SaveMotoImagem, AbreFoto, Falha, deAnexos
<1>5. CASE Prende
  BY <1>5, OutrosInv DEF Prende
<1>4. CASE UNCHANGED anexosVars
  BY <1>4, OutrosInv DEF anexosVars
<1> QED BY <1>1, <1>2, <1>3, <1>4, <1>5, UploadInv, SaveBlobInv, InsertAnexoInv,
           CommitDeleteAnexoInv, RemoveBlobInv, PurgeBlobInv,
           CommitDeleteEntityInv, AnexoFalhaInv DEF AnexosNext, Fotografa

LEMMA ArquivosStart == AnexosInit => ArquivosInv
<1> SUFFICES ASSUME AnexosInit PROVE ArquivosInv
  OBVIOUS
<1>1. AnexosTypeOK
  BY QuietaType DEF AnexosInit, AnexosTypeOK, Estados
<1>2. \A s \in SessoesAnexo : as[s] = Quieta
  BY DEF AnexosInit
<1>3. SemLixo
  BY DEF AnexosInit, SemLixo
<1> QED BY <1>1, <1>2, <1>3, QuietaType DEF ArquivosInv

LEMMA ArquivosInductive == AnexosSpec => []ArquivosInv
BY ArquivosStart, ArquivosStep, PTL DEF AnexosSpec

(* While nothing fails no file is left without a row and without a session *)
(* that will see to it, whichever uploads, removals and deletions of whole *)
(* entities overlap.                                                       *)
THEOREM NoLitter == AnexosSpec => []SemLixo
<1>1. ArquivosInv => SemLixo
  BY DEF ArquivosInv
<1> QED BY <1>1, ArquivosInductive, PTL

-----------------------------------------------------------------------------
(* The photo: of a request that has been alone, what the row will name is  *)
(* stored before, and what is removed after is not what the row names by   *)
(* then; and while nothing overlapped every request is such a one.         *)
FotoEmDia(s) ==
  LET x == fotografo[s] IN
  /\ x.pc # "livre" /\ x.so => Sozinha(s)
  /\ x.pc # "livre" /\ intacta => x.so
  /\ x.so /\ x.pc = "gravar" /\ x.nova # SemFoto => x.nova \in imagens
  /\ x.so /\ x.pc \in {"salvar", "gravar"} => x.velha = foto
  /\ x.so /\ x.pc = "limpar" => x.nova = foto

FotosInv ==
  /\ foto \in Extensoes \cup {SemFoto} /\ intacta \in BOOLEAN
  /\ fotografo \in [SessoesAnexo -> Fotografo]
  /\ FotoExiste
  /\ \A s \in SessoesAnexo : FotoEmDia(s)

LEMMA FotosStart == AnexosInit => FotosInv
BY DEF AnexosInit, FotosInv, FotoExiste, FotoEmDia, Ausente, Fotografo

LEMMA AbreFotoInv ==
  ASSUME FotosInv, NEW s \in SessoesAnexo,
         NEW nova \in Extensoes \cup {SemFoto},
         NEW pc \in {"salvar", "gravar"}, pc = "gravar" => nova = SemFoto,
         AbreFoto(s, pc, nova)
  PROVE  FotosInv'
<1>1. /\ fotografo \in [SessoesAnexo -> Fotografo]
      /\ foto \in Extensoes \cup {SemFoto} /\ intacta \in BOOLEAN
      /\ foto' = foto /\ imagens' = imagens
      /\ intacta' = (intacta /\ Sozinha(s))
  BY DEF FotosInv, AbreFoto
<1>2. Sozinha(s) \in BOOLEAN
  BY DEF Sozinha
<1>3. fotografo'[s] = [pc |-> pc, nova |-> nova, velha |-> foto, so |-> Sozinha(s)]
  BY DEF AbreFoto
<1>4. ASSUME NEW t \in SessoesAnexo, t # s
      PROVE  /\ fotografo'[t] \in Fotografo
             /\ fotografo'[t].pc = fotografo[t].pc
             /\ fotografo'[t].so => fotografo[t].pc = "livre"
  <2>1. fotografo'[t] = [fotografo[t] EXCEPT !.so = (fotografo[t].pc = "livre")]
    BY <1>4 DEF AbreFoto
  <2>2. ASSUME NEW q \in BOOLEAN, q <=> fotografo[t].pc = "livre",
               fotografo'[t] = [fotografo[t] EXCEPT !.so = q]
        PROVE  /\ fotografo'[t] \in Fotografo
               /\ fotografo'[t].pc = fotografo[t].pc
               /\ fotografo'[t].so => fotografo[t].pc = "livre"
    BY <1>1, <2>2 DEF Fotografo
  <2> QED BY <2>1, <2>2
<1>5. /\ fotografo'[s].pc = pc /\ fotografo'[s].nova = nova
      /\ fotografo'[s].velha = foto /\ (fotografo'[s].so <=> Sozinha(s))
  BY <1>3
<1>6. fotografo'[s] \in Fotografo
  BY <1>1, <1>2, <1>3 DEF Fotografo
<1>7. fotografo' \in [SessoesAnexo -> Fotografo]
  <2>1. fotografo' = [t \in SessoesAnexo |-> fotografo'[t]]
    BY DEF AbreFoto
  <2> QED BY <1>4, <1>6, <2>1
<1>8. ASSUME NEW t \in SessoesAnexo PROVE FotoEmDia(t)'
  <2>1. CASE t = s
    <3>1. Sozinha(s) => Sozinha(s)'
      BY <1>4 DEF Sozinha
    <3> QED BY <1>1, <1>5, <2>1, <3>1 DEF FotoEmDia
  <2>2. CASE t # s
    <3>1. fotografo'[t].pc # "livre" => ~fotografo'[t].so /\ ~intacta'
      BY <1>1, <1>4, <2>2 DEF Sozinha
    <3> QED BY <3>1, <2>2 DEF FotoEmDia
  <2> QED BY <2>1, <2>2
<1>9. FotoExiste'
  BY <1>1 DEF FotosInv, FotoExiste
<1> QED BY <1>1, <1>2, <1>7, <1>8, <1>9 DEF FotosInv

(* A request already under way takes a step or ends.                       *)
LEMMA FotografaInv ==
  ASSUME FotosInv, NEW s \in SessoesAnexo,
         SaveImagem(s) \/ CommitFoto(s) \/ RemoveImagem(s) \/ FotoFalha(s)
  PROVE  FotosInv'
<1> DEFINE x == fotografo[s]
<1>1. /\ fotografo \in [SessoesAnexo -> Fotografo] /\ x \in Fotografo
      /\ foto \in Extensoes \cup {SemFoto} /\ intacta \in BOOLEAN
      /\ FotoEmDia(s) /\ x.pc # "livre"
  BY DEF FotosInv, SaveImagem, CommitFoto, RemoveImagem, FotoFalha
<1>2. PICK y \in Fotografo :
        /\ fotografo' = [fotografo EXCEPT ![s] = y]
        /\ y.so = x.so \/ y.pc = "livre"
        /\ y = Ausente \/ (y.nova = x.nova /\ y.velha = x.velha)
  <2>1. CASE SaveImagem(s)
    <3> DEFINE z == [x EXCEPT !.pc = "gravar"]
    <3>1. z \in Fotografo /\ z.so = x.so /\ z.nova = x.nova /\ z.velha = x.velha
      BY <1>1 DEF Fotografo
    <3>2. fotografo' = [fotografo EXCEPT ![s] = z]
      BY <2>1 DEF SaveImagem
    <3> QED BY <3>1, <3>2
  <2>2. CASE CommitFoto(s)
    <3> DEFINE z == [x EXCEPT !.pc = "limpar"]
    <3>1. z \in Fotografo /\ z.so = x.so /\ z.nova = x.nova /\ z.velha = x.velha
      BY <1>1 DEF Fotografo
    <3>2. fotografo' = [fotografo EXCEPT ![s] = z]
      BY <2>2 DEF CommitFoto
    <3> QED BY <3>1, <3>2
  <2>3. CASE RemoveImagem(s) \/ FotoFalha(s)
    BY <1>1, <2>3, Ausente \in Fotografo
       DEF RemoveImagem, FotoFalha, Fotografo, Ausente
  <2> QED BY <2>1, <2>2, <2>3
<1>3. fotografo'[s] = y /\ \A t \in SessoesAnexo \ {s} : fotografo'[t] = fotografo[t]
  BY <1>1, <1>2
<1>4. /\ fotografo' \in [SessoesAnexo -> Fotografo]
      /\ foto' \in Extensoes \cup {SemFoto} /\ intacta' \in BOOLEAN
  BY <1>1, <1>2 DEF SaveImagem, CommitFoto, RemoveImagem, FotoFalha, Fotografo
<1>5. Sozinha(s)' <=> Sozinha(s)
  BY <1>3 DEF Sozinha
<1>6. FotoEmDia(s)' /\ FotoExiste'
  <2>1. CASE SaveImagem(s)
    BY <1>1, <1>3, <1>5, <2>1, fotografo'[s] = [x EXCEPT !.pc = "gravar"]
       DEF SaveImagem, FotoEmDia, FotosInv, FotoExiste, Fotografo
  <2>2. CASE CommitFoto(s)
    <3>1. fotografo'[s] = [x EXCEPT !.pc = "limpar"] /\ x.pc = "gravar"
      BY <1>1, <2>2 DEF CommitFoto
    <3>2. x.so => foto' = x.nova
      BY <1>1, <2>2, <3>1 DEF CommitFoto, FotoEmDia
    <3>3. intacta' => x.so
      BY <1>1, <2>2 DEF CommitFoto, FotoEmDia
    <3>4. imagens' = imagens /\ intacta' = (intacta \/ x.so)
      BY <2>2 DEF CommitFoto
    <3>5. x.so /\ x.nova # SemFoto => x.nova \in imagens
      BY <1>1, <3>1 DEF FotoEmDia
    <3>6. FotoExiste'
      BY <3>2, <3>3, <3>4, <3>5 DEF FotoExiste
    <3>7. FotoEmDia(s)'
      BY <1>1, <1>5, <3>1, <3>2, <3>3, <3>4 DEF FotoEmDia, Fotografo
    <3> QED BY <3>6, <3>7
  <2>3. CASE RemoveImagem(s) \/ FotoFalha(s)
    <3>1. fotografo'[s] = Ausente /\ intacta' = intacta /\ foto' = foto
      BY <1>1, <2>3 DEF RemoveImagem, FotoFalha
    <3>2. FotoEmDia(s)'
      BY <3>1 DEF FotoEmDia, Ausente
    <3>3. FotoExiste'
      BY <1>1, <2>3, <3>1
         DEF RemoveImagem, FotoFalha, FotosInv, FotoExiste, FotoEmDia
    <3> QED BY <3>2, <3>3
  <2> QED BY <2>1, <2>2, <2>3
<1>7. ASSUME NEW t \in SessoesAnexo, t # s PROVE FotoEmDia(t)'
  <2>1. fotografo'[t] = fotografo[t] /\ FotoEmDia(t)
    BY <1>3, <1>7 DEF FotosInv
  <2>2. fotografo[t].pc # "livre" => ~fotografo[t].so /\ ~intacta /\ ~x.so
    BY <1>1, <1>7, <2>1 DEF FotoEmDia, Sozinha
  <2>3. intacta' => intacta \/ x.so
    BY DEF SaveImagem, CommitFoto, RemoveImagem, FotoFalha
  <2> QED BY <2>1, <2>2, <2>3 DEF FotoEmDia
<1> QED BY <1>4, <1>6, <1>7 DEF FotosInv

LEMMA FotosStep == FotosInv /\ [AnexosNext]_anexosVars => FotosInv'
<1> SUFFICES ASSUME FotosInv, [AnexosNext]_anexosVars PROVE FotosInv'
  OBVIOUS
<1>1. CASE UNCHANGED deFotos
  BY <1>1 DEF deFotos, FotosInv, FotoExiste, FotoEmDia, Sozinha
<1>2. ASSUME NEW s \in SessoesAnexo, Fotografa(s) PROVE FotosInv'
  BY <1>2, AbreFotoInv, FotografaInv DEF Fotografa, SaveMotoImagem, DeleteMotoImagem
<1>3. ASSUME NEW s \in SessoesAnexo,
             \/ \E a \in Anexos :
                  UploadAnexo(s, a) \/ DeleteAnexo(s, a) \/ PurgeBlob(s, a)
             \/ SaveBlob(s) \/ InsertAnexo(s) \/ CommitDeleteAnexo(s) \/ RemoveBlob(s)
             \/ DeleteEntity(s) \/ CommitDeleteEntity(s) \/ AnexoFalha(s)
      PROVE  UNCHANGED deFotos
  BY <1>3 DEF UploadAnexo, DeleteAnexo, PurgeBlob, SaveBlob, InsertAnexo,
     CommitDeleteAnexo, RemoveBlob, DeleteEntity, CommitDeleteEntity, AnexoFalha
<1>4. CASE Prende \/ UNCHANGED anexosVars
  BY <1>1, <1>4 DEF Prende, anexosVars, deFotos
<1> QED BY <1>1, <1>2, <1>3, <1>4 DEF AnexosNext, Fotografa

(* A file that has its row is removed by the deletion of the whole entity  *)
(* only.                                                                   *)
FicaOuExclui ==
  \A a \in Existentes \cap blobs : a \in Existentes' => a \in blobs' \/ Excluindo

LEMMA ArquivoFica == ArquivosInv /\ [AnexosNext]_anexosVars => FicaOuExclui
<1> SUFFICES ASSUME ArquivosInv, [AnexosNext]_anexosVars,
                    NEW a \in Existentes \cap blobs
             PROVE  a \in blobs' \/ Excluindo
  BY DEF FicaOuExclui
<1>1. CASE blobs \subseteq blobs'
  BY <1>1
<1>2. ASSUME NEW s \in SessoesAnexo, RemoveBlob(s) PROVE a \in blobs'
  <2>1. as[s].pc = "limpar" /\ blobs' = blobs \ as[s].chaves
    BY <1>2 DEF RemoveBlob
  <2>2. a \notin as[s].chaves
    BY <2>1, AnexoFatos DEF EmDia, Existentes
  <2> QED BY <2>1, <2>2
<1>3. ASSUME NEW s \in SessoesAnexo, NEW b \in Anexos, PurgeBlob(s, b)
      PROVE  Excluindo
  BY <1>3 DEF PurgeBlob, Excluindo
<1>4. ASSUME NEW s \in SessoesAnexo,
             \/ \E b \in Anexos : UploadAnexo(s, b) \/ DeleteAnexo(s, b)
             \/ SaveBlob(s) \/ InsertAnexo(s) \/ CommitDeleteAnexo(s)
             \/ DeleteEntity(s) \/ CommitDeleteEntity(s) \/ AnexoFalha(s)
      PROVE  blobs \subseteq blobs'
  BY <1>4 DEF UploadAnexo, DeleteAnexo, SaveBlob, InsertAnexo,
     CommitDeleteAnexo, DeleteEntity, CommitDeleteEntity, AnexoFalha
<1>5. CASE Prende \/ UNCHANGED anexosVars
  BY <1>1, <1>5 DEF Prende, anexosVars
<1>6. ASSUME NEW s \in SessoesAnexo, Fotografa(s) PROVE blobs' = blobs
  BY <1>6 DEF Fotografa, SaveImagem, DeleteMotoImagem, CommitFoto, RemoveImagem,
     FotoFalha, SaveMotoImagem, AbreFoto, deAnexos
<1> QED BY <1>1, <1>2, <1>3, <1>4, <1>5, <1>6 DEF AnexosNext, Fotografa

(* What a page shows can be opened at whichever step an upload or a        *)
(* removal breaks off: the photo unless two requests for it overlapped and *)
(* none has run alone since, an attachment unless its whole entity is      *)
(* being deleted.                                                          *)
THEOREM FilesOpen == AnexosSpec => ArquivoAbre
<1>1. AnexosSpec => []FotosInv
  BY FotosStart, FotosStep, PTL DEF AnexosSpec
<1>2. FotosInv => FotoExiste
  BY DEF FotosInv
<1>3. ArquivosInv /\ [AnexosNext]_anexosVars =>
        [\A a \in Existentes \cap blobs : a \in Existentes' =>
           a \in blobs' \/ Excluindo]_anexosVars
  BY ArquivoFica DEF FicaOuExclui
<1> QED BY <1>1, <1>2, <1>3, ArquivosInductive, PTL DEF AnexosSpec, ArquivoAbre
-----------------------------------------------------------------------------
(* The mirror of a maintenance.  Links lead to mirrors made for the same   *)
(* maintenance, what no outside routine removed is linked both ways, and a *)
(* request that has the maintenance to itself knows both values.           *)

DespesasTypeOK ==
  /\ manut \in [Manutencoes -> Manutencao]
  /\ lanc \in [Lancamentos -> Lancamento]
  /\ ls \in [SessoesLivro -> Edicao]
  /\ perdeu \subseteq Manutencoes

LinkDe(f, m, L) ==
  f # Nenhum => L[f].st # "livre" /\ L[f].categoria = "manutencao" /\ L[f].de = m

(* What the row of maintenance m says, of rows M and entries L, where      *)
(* outside routines took P and C were edited by two at once.               *)
EmpenhoOK(m, M, L, P, C) ==
  /\ LinkDe(M[m].link, m, L)
  /\ M[m].st # "livre" => M[m].valor \in Valores
  /\ m \notin P /\ M[m].st = "viva" =>
       /\ M[m].link # Nenhum /\ L[M[m].link].st = "viva"
       /\ m \notin C => L[M[m].link].valor = M[m].valor

EntradaOK(f, M, L, P) ==
  /\ L[f].st # "livre" => L[f].valor \in Valores
  /\ L[f].st = "viva" /\ L[f].categoria = "manutencao" =>
       /\ L[f].de \in Manutencoes
       /\ L[f].de \notin P => M[L[f].de].st = "viva" /\ M[L[f].de].link = f

EdicaoOK(r, M, L, P, C) ==
  /\ r.pc = "livre" => r.m = Nenhum
  /\ r.pc # "livre" =>
       /\ r.m \in Manutencoes /\ M[r.m].st # "livre" /\ r.lida.valor \in Valores
       /\ LinkDe(r.lida.link, r.m, L)
       /\ r.pc = "gravar" => r.valor \in Valores
       /\ r.m \notin P /\ M[r.m].st = "viva" =>
            /\ r.lida.link = M[r.m].link
            /\ r.pc = "gravar" => r.espelho # Nenhum
            /\ r.m \notin C =>
                 /\ r.lida.valor = M[r.m].valor
                 /\ r.pc = "gravar" => r.espelho = L[M[r.m].link].valor

SozinhaNela ==
  \A s, t \in SessoesLivro :
    ls[s].m = ls[t].m /\ ls[s].m \in Manutencoes \ cruzadas => s = t

LivroInv ==
  /\ DespesasTypeOK
  /\ \A m \in Manutencoes : EmpenhoOK(m, manut, lanc, perdeu, cruzadas)
  /\ \A f \in Lancamentos : EntradaOK(f, manut, lanc, perdeu)
  /\ \A s \in SessoesLivro : EdicaoOK(ls[s], manut, lanc, perdeu, cruzadas)
  /\ SozinhaNela

LEMMA LivroFatos ==
  ASSUME LivroInv
  PROVE  /\ manut \in [Manutencoes -> Manutencao] /\ lanc \in [Lancamentos -> Lancamento]
         /\ ls \in [SessoesLivro -> Edicao] /\ perdeu \subseteq Manutencoes
         /\ \A m \in Manutencoes :
              EmpenhoOK(m, manut, lanc, perdeu, cruzadas) /\ manut[m] \in Manutencao
         /\ \A f \in Lancamentos : EntradaOK(f, manut, lanc, perdeu) /\ lanc[f] \in Lancamento
         /\ \A s \in SessoesLivro :
              EdicaoOK(ls[s], manut, lanc, perdeu, cruzadas) /\ ls[s] \in Edicao
BY DEF LivroInv, DespesasTypeOK

LEMMA FechadaType ==
  /\ Fechada \in Edicao /\ Fechada.pc = "livre" /\ Fechada.m = Nenhum
  /\ NaoHa \in Manutencao
  /\ \A M, L, P, C : EdicaoOK(Fechada, M, L, P, C)
BY DEF Fechada, NaoHa, Edicao, Manutencao, EdicaoOK

(* A request ends; what is left to show is about rows and entries.         *)
LEMMA FechaLivro ==
  ASSUME LivroInv, NEW s \in SessoesLivro, ls' = [ls EXCEPT ![s] = Fechada],
         UNCHANGED <<perdeu, cruzadas>>,
         manut' \in [Manutencoes -> Manutencao], lanc' \in [Lancamentos -> Lancamento],
         \A m \in Manutencoes : EmpenhoOK(m, manut', lanc', perdeu, cruzadas),
         \A f \in Lancamentos : EntradaOK(f, manut', lanc', perdeu),
         \A t \in SessoesLivro \ {s} : EdicaoOK(ls[t], manut', lanc', perdeu, cruzadas)
  PROVE  LivroInv'
<1>1. ls' \in [SessoesLivro -> Edicao] /\ ls'[s] = Fechada
      /\ \A t \in SessoesLivro \ {s} : ls'[t] = ls[t]
  BY LivroFatos, FechadaType
<1>2. DespesasTypeOK'
  BY <1>1, LivroFatos DEF DespesasTypeOK
<1>3. \A t \in SessoesLivro : EdicaoOK(ls'[t], manut', lanc', perdeu, cruzadas)
  BY <1>1, FechadaType
<1>4. SozinhaNela'
  <2> SUFFICES ASSUME NEW t \in SessoesLivro, NEW u \in SessoesLivro,
                      ls'[t].m = ls'[u].m, ls'[t].m \in Manutencoes \ cruzadas
               PROVE  t = u
    BY DEF SozinhaNela
  <2>1. t # s /\ u # s
    BY <1>1, FechadaType, DespesasConstants
  <2> QED BY <1>1, <2>1 DEF LivroInv, SozinhaNela
<1> QED BY <1>2, <1>3, <1>4 DEF LivroInv

(* Only rows and entries change, and the losses.                           *)
LEMMA SoLivro ==
  ASSUME LivroInv, UNCHANGED <<ls, cruzadas>>, perdeu' \subseteq Manutencoes,
         manut' \in [Manutencoes -> Manutencao], lanc' \in [Lancamentos -> Lancamento],
         \A m \in Manutencoes : EmpenhoOK(m, manut', lanc', perdeu', cruzadas),
         \A f \in Lancamentos : EntradaOK(f, manut', lanc', perdeu'),
         \A t \in SessoesLivro : EdicaoOK(ls[t], manut', lanc', perdeu', cruzadas)
  PROVE  LivroInv'
<1>1. DespesasTypeOK' /\ SozinhaNela'
  BY LivroFatos DEF DespesasTypeOK, SozinhaNela, LivroInv
<1> QED BY <1>1 DEF LivroInv

LEMMA CreateManutencaoInv ==
  ASSUME LivroInv, NEW m \in Manutencoes, NEW f \in Lancamentos, NEW v \in Valores,
         CreateManutencao(m, f, v)
  PROVE  LivroInv'
<1> DEFINE linha == [st |-> "viva", valor |-> v, link |-> f]
           entrada == [st |-> "viva", categoria |-> "manutencao", valor |-> v, de |-> m]
<1>1. /\ manut[m].st = "livre" /\ lanc[f].st = "livre"
      /\ manut' = [manut EXCEPT ![m] = linha] /\ lanc' = [lanc EXCEPT ![f] = entrada]
      /\ UNCHANGED <<ls, cruzadas>> /\ perdeu' = perdeu
  BY DEF CreateManutencao, NovoEspelho
<1>2. linha \in Manutencao /\ entrada \in Lancamento
  BY DEF Manutencao, Lancamento
<1>3. /\ linha.st = "viva" /\ linha.valor = v /\ linha.link = f
      /\ entrada.st = "viva" /\ entrada.categoria = "manutencao"
      /\ entrada.valor = v /\ entrada.de = m
  OBVIOUS
<1> HIDE DEF linha, entrada
<1>4. /\ manut' \in [Manutencoes -> Manutencao] /\ lanc' \in [Lancamentos -> Lancamento]
      /\ manut'[m] = linha /\ \A n \in Manutencoes \ {m} : manut'[n] = manut[n]
      /\ lanc'[f] = entrada /\ \A g \in Lancamentos \ {f} : lanc'[g] = lanc[g]
  BY <1>1, <1>2, LivroFatos
<1>5. f # Nenhum
  BY DespesasConstants
<1>6. \A n \in Manutencoes : manut[n].link \in Lancamentos \cup {Nenhum}
  BY LivroFatos DEF Manutencao
<1>7. \A n \in Manutencoes : EmpenhoOK(n, manut', lanc', perdeu', cruzadas)
  BY <1>1, <1>3, <1>4, <1>5, <1>6, LivroFatos DEF EmpenhoOK, LinkDe
<1>8. \A g \in Lancamentos : EntradaOK(g, manut', lanc', perdeu')
  BY <1>1, <1>3, <1>4, LivroFatos DEF EntradaOK
<1>9. \A t \in SessoesLivro : ls[t].lida.link \in Lancamentos \cup {Nenhum}
  BY LivroFatos DEF Edicao, Manutencao
<1>10. \A t \in SessoesLivro : EdicaoOK(ls[t], manut', lanc', perdeu', cruzadas)
  <2> SUFFICES ASSUME NEW t \in SessoesLivro
               PROVE  EdicaoOK(ls[t], manut', lanc', perdeu', cruzadas)
    OBVIOUS
  <2>1. EdicaoOK(ls[t], manut, lanc, perdeu, cruzadas)
    BY LivroFatos
  <2>2. ls[t].pc # "livre" => /\ ls[t].m # m /\ ls[t].m \in Manutencoes
                              /\ manut'[ls[t].m] = manut[ls[t].m]
                              /\ manut[ls[t].m].link # f
    BY <1>1, <1>4, <1>5, <2>1, LivroFatos DEF EdicaoOK, EmpenhoOK, LinkDe
  <2>3. LinkDe(ls[t].lida.link, ls[t].m, lanc) => LinkDe(ls[t].lida.link, ls[t].m, lanc')
    BY <1>1, <1>4, <1>9 DEF LinkDe
  <2>4. ls[t].pc # "livre" /\ ls[t].m \notin perdeu /\ manut[ls[t].m].st = "viva" =>
          lanc'[manut[ls[t].m].link] = lanc[manut[ls[t].m].link]
    BY <1>4, <1>6, <2>2, LivroFatos DEF EmpenhoOK
  <2> QED BY <1>1, <2>1, <2>2, <2>3, <2>4 DEF EdicaoOK
<1> QED BY <1>1, <1>4, <1>7, <1>8, <1>10, SoLivro, LivroFatos

LEMMA GetManutencaoInv ==
  ASSUME LivroInv, NEW s \in SessoesLivro, NEW m \in Manutencoes, GetManutencao(s, m)
  PROVE  LivroInv'
<1> DEFINE r == [Fechada EXCEPT !.pc = "lida", !.m = m, !.lida = manut[m]]
<1>1. /\ ls[s].pc = "livre" /\ manut[m].st = "viva" /\ ls' = [ls EXCEPT ![s] = r]
      /\ manut' = manut /\ lanc' = lanc /\ perdeu' = perdeu
      /\ cruzadas' = IF \E t \in SessoesLivro : ls[t].m = m
                     THEN cruzadas \cup {m} ELSE cruzadas
  BY DEF GetManutencao
<1>2. /\ r \in Edicao /\ r.pc = "lida" /\ r.m = m /\ r.lida = manut[m]
  BY LivroFatos DEF Edicao, Fechada, NaoHa, Manutencao
<1> HIDE DEF r
<1>3. ls' \in [SessoesLivro -> Edicao] /\ ls'[s] = r
      /\ \A t \in SessoesLivro \ {s} : ls'[t] = ls[t]
  BY <1>1, <1>2, LivroFatos
<1>4. DespesasTypeOK'
  BY <1>1, <1>3, LivroFatos DEF DespesasTypeOK
<1>5. cruzadas \subseteq cruzadas'
  BY <1>1
<1>6. \A n \in Manutencoes : EmpenhoOK(n, manut', lanc', perdeu', cruzadas')
  BY <1>1, <1>5, LivroFatos DEF EmpenhoOK
<1>7. \A f \in Lancamentos : EntradaOK(f, manut', lanc', perdeu')
  BY <1>1, LivroFatos DEF EntradaOK
<1>8. EdicaoOK(r, manut', lanc', perdeu', cruzadas')
  BY <1>1, <1>2, LivroFatos DEF EdicaoOK, EmpenhoOK
<1>9. \A t \in SessoesLivro \ {s} : EdicaoOK(ls[t], manut', lanc', perdeu', cruzadas')
  <2> TAKE t \in SessoesLivro \ {s}
  <2>1. EdicaoOK(ls[t], manut, lanc, perdeu, cruzadas)
    BY LivroFatos
  <2> QED BY <1>1, <1>5, <2>1 DEF EdicaoOK
<1>10. SozinhaNela'
  <2> SUFFICES ASSUME NEW t \in SessoesLivro, NEW u \in SessoesLivro,
                      ls'[t].m = ls'[u].m, ls'[t].m \in Manutencoes \ cruzadas'
               PROVE  t = u
    BY DEF SozinhaNela
  <2>1. CASE t # s /\ u # s
    BY <1>3, <1>5, <2>1 DEF LivroInv, SozinhaNela
  <2>2. CASE t = s /\ u # s
    BY <1>1, <1>2, <1>3, <2>2
  <2>3. CASE u = s /\ t # s
    BY <1>1, <1>2, <1>3, <2>3
  <2> QED BY <2>1, <2>2, <2>3
<1>11. \A t \in SessoesLivro : EdicaoOK(ls'[t], manut', lanc', perdeu', cruzadas')
  BY <1>3, <1>8, <1>9
<1> QED BY <1>4, <1>6, <1>7, <1>10, <1>11 DEF LivroInv

LEMMA SyncDespesaInv ==
  ASSUME LivroInv, NEW s \in SessoesLivro, NEW v \in Valores \cup {Nenhum},
         SyncDespesa(s, v)
  PROVE  LivroInv'
<1> DEFINE q == ls[s]
           val == IF v = Nenhum THEN q.lida.valor ELSE v
           esp == IF Ha(q.lida.link) THEN lanc[q.lida.link].valor ELSE Nenhum
           r == [ls[s] EXCEPT !.pc = "gravar", !.valor = val, !.espelho = esp]
<1>1. /\ q.pc = "lida" /\ ls' = [ls EXCEPT ![s] = r]
      /\ manut' = manut /\ lanc' = lanc /\ perdeu' = perdeu /\ cruzadas' = cruzadas
  BY DEF SyncDespesa
<1>2. /\ q \in Edicao /\ EdicaoOK(q, manut, lanc, perdeu, cruzadas)
      /\ q.lida.link \in Lancamentos \cup {Nenhum}
      /\ q.m \in Manutencoes /\ EmpenhoOK(q.m, manut, lanc, perdeu, cruzadas)
      /\ manut[q.m].link \in Lancamentos \cup {Nenhum}
  BY <1>1, LivroFatos DEF EdicaoOK, Edicao, Manutencao
<1>3. val \in Valores
  BY <1>1, <1>2 DEF EdicaoOK
<1>4. esp \in Valores \cup {Nenhum}
  BY <1>2, LivroFatos DEF EntradaOK, Ha
<1>5. q.m \notin perdeu /\ manut[q.m].st = "viva" =>
        /\ esp = lanc[manut[q.m].link].valor /\ esp # Nenhum
  BY <1>1, <1>2, LivroFatos, DespesasConstants, ZenonT(40) DEF EdicaoOK, EmpenhoOK, Ha, EntradaOK
<1> HIDE DEF val, esp
<1>6. /\ r \in Edicao /\ r.pc = "gravar" /\ r.m = q.m /\ r.lida = q.lida
      /\ r.valor = val /\ r.espelho = esp
  BY <1>2, <1>3, <1>4 DEF Edicao
<1> HIDE DEF r, q
<1>7. ls' \in [SessoesLivro -> Edicao] /\ ls'[s] = r
      /\ \A t \in SessoesLivro \ {s} : ls'[t] = ls[t]
  BY <1>1, <1>6, LivroFatos
<1>8. DespesasTypeOK'
  BY <1>1, <1>7, LivroFatos DEF DespesasTypeOK
<1>9. EdicaoOK(r, manut, lanc, perdeu, cruzadas)
  BY <1>1, <1>2, <1>3, <1>5, <1>6 DEF EdicaoOK
<1>10. SozinhaNela'
  BY <1>1, <1>6, <1>7 DEF SozinhaNela, LivroInv, q
<1>11. \A t \in SessoesLivro : EdicaoOK(ls'[t], manut', lanc', perdeu', cruzadas')
  BY <1>1, <1>7, <1>9, LivroFatos
<1>12. /\ \A n \in Manutencoes : EmpenhoOK(n, manut', lanc', perdeu', cruzadas')
       /\ \A f \in Lancamentos : EntradaOK(f, manut', lanc', perdeu')
  BY <1>1, LivroFatos
<1> QED BY <1>8, <1>10, <1>11, <1>12 DEF LivroInv

(* Other requests do not notice: their maintenance and its mirror keep     *)
(* what they know of them.                                                 *)
LEMMA OutrasEdicoes ==
  ASSUME LivroInv, NEW s \in SessoesLivro, NEW t \in SessoesLivro \ {s},
         NEW M, NEW L, ls[s].m \in Manutencoes,
         \A m \in Manutencoes \ {ls[s].m} :
           /\ M[m] = manut[m]
           /\ m \notin perdeu /\ manut[m].st = "viva" =>
                L[manut[m].link].valor = lanc[manut[m].link].valor,
         /\ M[ls[s].m].st # "livre"
         /\ M[ls[s].m].st = "viva" =>
              /\ manut[ls[s].m].st = "viva"
              /\ ls[s].m \notin perdeu => M[ls[s].m].link = manut[ls[s].m].link,
         \A f \in Lancamentos : lanc[f].st # "livre" =>
           /\ L[f].st # "livre" /\ L[f].categoria = lanc[f].categoria
           /\ L[f].de = lanc[f].de
  PROVE  EdicaoOK(ls[t], M, L, perdeu, cruzadas)
<1>1. EdicaoOK(ls[t], manut, lanc, perdeu, cruzadas)
      /\ ls[t].lida.link \in Lancamentos \cup {Nenhum}
  BY LivroFatos DEF Edicao, Manutencao
<1>2. LinkDe(ls[t].lida.link, ls[t].m, lanc) => LinkDe(ls[t].lida.link, ls[t].m, L)
  BY <1>1 DEF LinkDe
<1>3. CASE ls[t].m = ls[s].m
  <2>1. ls[t].m \in cruzadas
    BY <1>3 DEF LivroInv, SozinhaNela
  <2> QED BY <1>1, <1>2, <1>3, <2>1 DEF EdicaoOK
<1>4. CASE ls[t].m # ls[s].m
  BY <1>1, <1>2, <1>4 DEF EdicaoOK
<1> QED BY <1>3, <1>4

LEMMA CommitUpdateInv ==
  ASSUME LivroInv, NEW s \in SessoesLivro, CommitUpdate(s)
  PROVE  LivroInv'
<1> DEFINE r == ls[s]
           m == r.m
           k == r.lida.link
           linha == [manut[m] EXCEPT !.valor = Grava(r, m)]
           entrada == [lanc[k] EXCEPT !.valor =
                         IF r.valor # r.espelho THEN r.valor ELSE lanc[k].valor]
<1>1. /\ r.pc = "gravar" /\ manut[m].st = "viva" /\ r.espelho # Nenhum
      /\ k # Nenhum /\ lanc[k].st = "viva"
      /\ manut' = [manut EXCEPT ![m] = linha] /\ lanc' = [lanc EXCEPT ![k] = entrada]
      /\ ls' = [ls EXCEPT ![s] = Fechada] /\ UNCHANGED <<perdeu, cruzadas>>
  BY DEF CommitUpdate, Ha
<1>2. /\ EdicaoOK(r, manut, lanc, perdeu, cruzadas) /\ m \in Manutencoes
      /\ k \in Lancamentos /\ r.valor \in Valores
  BY <1>1, LivroFatos DEF EdicaoOK, Edicao, Manutencao
<1>3. /\ lanc[k] \in Lancamento /\ lanc[k].categoria = "manutencao" /\ lanc[k].de = m
      /\ lanc[k].valor \in Valores
      /\ manut[m] \in Manutencao /\ manut[m].valor \in Valores
      /\ EmpenhoOK(m, manut, lanc, perdeu, cruzadas)
  BY <1>1, <1>2, LivroFatos DEF EdicaoOK, LinkDe, EmpenhoOK, EntradaOK
<1>4. /\ linha \in Manutencao /\ linha.st = "viva" /\ linha.link = manut[m].link
      /\ linha.valor = Grava(r, m) /\ linha.valor \in Valores
  BY <1>1, <1>2, <1>3 DEF Manutencao, Grava
<1>5. /\ entrada \in Lancamento /\ entrada.st = "viva" /\ entrada.de = m
      /\ entrada.categoria = "manutencao" /\ entrada.valor \in Valores
      /\ entrada.valor = IF r.valor # r.espelho THEN r.valor ELSE lanc[k].valor
  BY <1>1, <1>2, <1>3 DEF Lancamento
<1>6. m \notin perdeu \cup cruzadas => linha.valor = entrada.valor
  BY <1>1, <1>2, <1>4, <1>5 DEF EdicaoOK, Grava
<1> HIDE DEF r, m, k, linha, entrada
<1>7. /\ manut' \in [Manutencoes -> Manutencao] /\ lanc' \in [Lancamentos -> Lancamento]
      /\ manut'[m] = linha /\ \A n \in Manutencoes \ {m} : manut'[n] = manut[n]
      /\ lanc'[k] = entrada /\ \A g \in Lancamentos \ {k} : lanc'[g] = lanc[g]
  BY <1>1, <1>2, <1>4, <1>5, LivroFatos
<1>8. \A f \in Lancamentos : /\ lanc'[f].st = lanc[f].st /\ lanc'[f].de = lanc[f].de
                             /\ lanc'[f].categoria = lanc[f].categoria
  BY <1>1, <1>3, <1>5, <1>7
<1>9. \A n \in Manutencoes : manut[n].link \in Lancamentos \cup {Nenhum}
  BY LivroFatos DEF Manutencao
<1>10. \A n \in Manutencoes : n # m /\ manut[n].link # Nenhum =>
         manut[n].link # k /\ lanc'[manut[n].link] = lanc[manut[n].link]
  BY <1>3, <1>7, <1>9, LivroFatos DEF EmpenhoOK, LinkDe
<1>11. \A n \in Manutencoes : EmpenhoOK(n, manut', lanc', perdeu, cruzadas)
  <2>1. EmpenhoOK(m, manut', lanc', perdeu, cruzadas)
    <3>1. m \notin perdeu => linha.link = k
      BY <1>1, <1>2, <1>4 DEF EdicaoOK, r, m, k
    <3>2. LinkDe(linha.link, m, lanc')
      BY <1>2, <1>3, <1>4, <1>8, <1>9 DEF EmpenhoOK, LinkDe
    <3> QED BY <1>1, <1>4, <1>5, <1>6, <1>7, <3>1, <3>2 DEF EmpenhoOK
  <2>2. ASSUME NEW n \in Manutencoes \ {m}
        PROVE  EmpenhoOK(n, manut', lanc', perdeu, cruzadas)
    BY <1>7, <1>8, <1>10, LivroFatos DEF EmpenhoOK, LinkDe
  <2> QED BY <2>1, <2>2
<1>12. \A n \in Manutencoes : manut'[n].st = manut[n].st /\ manut'[n].link = manut[n].link
  BY <1>1, <1>4, <1>7
<1>13. \A f \in Lancamentos : EntradaOK(f, manut', lanc', perdeu)
  BY <1>5, <1>7, <1>8, <1>12, LivroFatos DEF EntradaOK
<1>14. \A t \in SessoesLivro \ {s} : EdicaoOK(ls[t], manut', lanc', perdeu, cruzadas)
  <2> TAKE t \in SessoesLivro \ {s}
  <2>1. \A n \in Manutencoes \ {m} :
          /\ manut'[n] = manut[n]
          /\ n \notin perdeu /\ manut[n].st = "viva" =>
               lanc'[manut[n].link].valor = lanc[manut[n].link].valor
    BY <1>7, <1>10, LivroFatos DEF EmpenhoOK
  <2>2. /\ manut'[m].st # "livre" /\ manut[m].st = "viva"
        /\ manut'[m].link = manut[m].link
    BY <1>1, <1>2, <1>12
  <2>3. ls[s].m = m
    BY DEF r, m
  <2> QED BY <1>2, <1>8, <2>1, <2>2, <2>3, OutrasEdicoes
<1> QED BY <1>1, <1>7, <1>11, <1>13, <1>14, FechaLivro

LEMMA CommitRecreateInv ==
  ASSUME LivroInv, NEW s \in SessoesLivro, NEW f \in Lancamentos, CommitRecreate(s, f)
  PROVE  LivroInv'
<1> DEFINE r == ls[s]
           m == r.m
           linha == [manut[m] EXCEPT !.valor = Grava(r, m), !.link = f]
           entrada == [st |-> "viva", categoria |-> "manutencao",
                       valor |-> r.valor, de |-> m]
<1>1. /\ r.pc = "gravar" /\ manut[m].st = "viva" /\ r.espelho = Nenhum
      /\ lanc[f].st = "livre"
      /\ manut' = [manut EXCEPT ![m] = linha] /\ lanc' = [lanc EXCEPT ![f] = entrada]
      /\ ls' = [ls EXCEPT ![s] = Fechada] /\ UNCHANGED <<perdeu, cruzadas>>
  BY DEF CommitRecreate, NovoEspelho
<1>2. /\ EdicaoOK(r, manut, lanc, perdeu, cruzadas) /\ m \in Manutencoes
      /\ r.valor \in Valores /\ manut[m] \in Manutencao /\ manut[m].valor \in Valores
      /\ m \in perdeu
  BY <1>1, LivroFatos DEF EdicaoOK, EmpenhoOK
<1>3. /\ linha \in Manutencao /\ linha.st = "viva" /\ linha.link = f
      /\ linha.valor \in Valores
  BY <1>1, <1>2 DEF Manutencao, Grava
<1>4. /\ entrada \in Lancamento /\ entrada.st = "viva" /\ entrada.de = m
      /\ entrada.categoria = "manutencao" /\ entrada.valor \in Valores
  BY <1>1, <1>2 DEF Lancamento
<1> HIDE DEF r, m, linha, entrada
<1>5. /\ manut' \in [Manutencoes -> Manutencao] /\ lanc' \in [Lancamentos -> Lancamento]
      /\ manut'[m] = linha /\ \A n \in Manutencoes \ {m} : manut'[n] = manut[n]
      /\ lanc'[f] = entrada /\ \A g \in Lancamentos \ {f} : lanc'[g] = lanc[g]
  BY <1>1, <1>2, <1>3, <1>4, LivroFatos
<1>6. \A n \in Manutencoes :
        /\ manut[n].link \in Lancamentos \cup {Nenhum}
        /\ manut[n].link # Nenhum => lanc'[manut[n].link] = lanc[manut[n].link]
  BY <1>1, <1>5, LivroFatos DEF Manutencao, EmpenhoOK, LinkDe
<1>7. \A n \in Manutencoes : EmpenhoOK(n, manut', lanc', perdeu, cruzadas)
  <2>1. EmpenhoOK(m, manut', lanc', perdeu, cruzadas)
    BY <1>2, <1>3, <1>4, <1>5 DEF EmpenhoOK, LinkDe
  <2>2. ASSUME NEW n \in Manutencoes \ {m}
        PROVE  EmpenhoOK(n, manut', lanc', perdeu, cruzadas)
    BY <1>5, <1>6, LivroFatos DEF EmpenhoOK, LinkDe
  <2> QED BY <2>1, <2>2
<1>8. \A g \in Lancamentos : EntradaOK(g, manut', lanc', perdeu)
  BY <1>2, <1>4, <1>5, LivroFatos DEF EntradaOK
<1>9. \A t \in SessoesLivro \ {s} : EdicaoOK(ls[t], manut', lanc', perdeu, cruzadas)
  <2> TAKE t \in SessoesLivro \ {s}
  <2>1. \A n \in Manutencoes \ {m} :
          /\ manut'[n] = manut[n]
          /\ n \notin perdeu /\ manut[n].st = "viva" =>
               lanc'[manut[n].link].valor = lanc[manut[n].link].valor
    BY <1>5, <1>6, LivroFatos DEF EmpenhoOK
  <2>2. manut'[m].st # "livre" /\ manut[m].st = "viva" /\ m \in perdeu
    BY <1>1, <1>2, <1>3, <1>5
  <2>3. \A g \in Lancamentos : lanc[g].st # "livre" =>
          /\ lanc'[g].st # "livre" /\ lanc'[g].categoria = lanc[g].categoria
          /\ lanc'[g].de = lanc[g].de
    BY <1>1, <1>5
  <2>4. ls[s].m = m
    BY DEF r, m
  <2> QED BY <1>2, <2>1, <2>2, <2>3, <2>4, OutrasEdicoes
<1> QED BY <1>1, <1>5, <1>7, <1>8, <1>9, FechaLivro

LEMMA DeleteManutencaoInv ==
  ASSUME LivroInv, NEW s \in SessoesLivro, DeleteManutencao(s)
  PROVE  LivroInv'
<1> DEFINE r == ls[s]
           m == r.m
           k == r.lida.link
           linha == [manut[m] EXCEPT !.st = "excluida", !.link = Nenhum]
<1>1. /\ r.pc = "lida" /\ manut[m].st = "viva"
      /\ manut' = [manut EXCEPT ![m] = linha]
      /\ lanc' = [f \in Lancamentos |->
                    IF f = k /\ f # Nenhum /\ lanc[f].st = "viva"
                    THEN [lanc[f] EXCEPT !.st = "excluida"] ELSE lanc[f]]
      /\ ls' = [ls EXCEPT ![s] = Fechada] /\ UNCHANGED <<perdeu, cruzadas>>
  BY DEF DeleteManutencao, Ha
<1>2. /\ EdicaoOK(r, manut, lanc, perdeu, cruzadas) /\ m \in Manutencoes
      /\ manut[m] \in Manutencao /\ manut[m].valor \in Valores
      /\ k \in Lancamentos \cup {Nenhum} /\ LinkDe(k, m, lanc)
      /\ m \notin perdeu => k = manut[m].link
  BY <1>1, LivroFatos DEF EdicaoOK, EmpenhoOK, Edicao, Manutencao
<1>3. /\ linha \in Manutencao /\ linha.st = "excluida" /\ linha.link = Nenhum
      /\ linha.valor \in Valores
  BY <1>1, <1>2 DEF Manutencao
<1>4. \A f \in Lancamentos :
        /\ lanc'[f] \in Lancamento /\ lanc'[f].categoria = lanc[f].categoria
        /\ lanc'[f].valor = lanc[f].valor /\ lanc'[f].de = lanc[f].de
        /\ f # k => lanc'[f].st = lanc[f].st
        /\ f = k => lanc'[f].st # "viva"
        /\ lanc[f].st # "livre" => lanc'[f].st # "livre"
        /\ lanc'[f].st = "viva" => lanc[f].st = "viva"
        /\ lanc'[f].st # "livre" => lanc[f].st # "livre"
  <2> TAKE f \in Lancamentos
  <2>1. lanc[f] \in Lancamento /\ f # Nenhum
    BY LivroFatos, DespesasConstants
  <2>2. CASE f = k /\ lanc[f].st = "viva"
    <3>1. lanc'[f] = [lanc[f] EXCEPT !.st = "excluida"]
      BY <1>1, <2>1, <2>2
    <3> QED BY <2>1, <2>2, <3>1 DEF Lancamento
  <2>3. CASE ~(f = k /\ lanc[f].st = "viva")
    <3>1. lanc'[f] = lanc[f]
      BY <1>1, <2>1, <2>3
    <3> QED BY <2>1, <2>3, <3>1
  <2> QED BY <2>2, <2>3
<1>5. lanc' \in [Lancamentos -> Lancamento]
  BY <1>1, <1>4
<1> HIDE DEF r, m, k, linha
<1>6. /\ manut' \in [Manutencoes -> Manutencao] /\ manut'[m] = linha
      /\ \A n \in Manutencoes \ {m} : manut'[n] = manut[n]
  BY <1>1, <1>2, <1>3, LivroFatos
<1>7. \A n \in Manutencoes \ {m} : manut[n].link # Nenhum =>
        manut[n].link # k /\ manut[n].link \in Lancamentos
  BY <1>2, LivroFatos DEF EmpenhoOK, LinkDe, Manutencao
<1>8. \A n \in Manutencoes : EmpenhoOK(n, manut', lanc', perdeu, cruzadas)
  <2>1. EmpenhoOK(m, manut', lanc', perdeu, cruzadas)
    BY <1>3, <1>6 DEF EmpenhoOK, LinkDe
  <2>2. ASSUME NEW n \in Manutencoes \ {m}
        PROVE  EmpenhoOK(n, manut', lanc', perdeu, cruzadas)
    BY <1>4, <1>6, <1>7, LivroFatos DEF EmpenhoOK, LinkDe
  <2> QED BY <2>1, <2>2
<1>9. ASSUME NEW f \in Lancamentos PROVE EntradaOK(f, manut', lanc', perdeu)
  <2>1. EntradaOK(f, manut, lanc, perdeu)
    BY LivroFatos
  <2>2. lanc'[f].st = "viva" /\ lanc[f].categoria = "manutencao" /\ lanc[f].de \notin perdeu
          => lanc[f].de # m
    BY <1>2, <1>4, <2>1 DEF EntradaOK
  <2> QED BY <1>4, <1>6, <2>1, <2>2 DEF EntradaOK
<1>10. \A t \in SessoesLivro \ {s} : EdicaoOK(ls[t], manut', lanc', perdeu, cruzadas)
  <2> TAKE t \in SessoesLivro \ {s}
  <2>1. \A n \in Manutencoes \ {m} :
          /\ manut'[n] = manut[n]
          /\ n \notin perdeu /\ manut[n].st = "viva" =>
               lanc'[manut[n].link].valor = lanc[manut[n].link].valor
    BY <1>4, <1>6, <1>7, LivroFatos DEF EmpenhoOK
  <2>2. manut'[m].st = "excluida" /\ ls[s].m = m
    BY <1>3, <1>6 DEF r, m
  <2> QED BY <1>2, <1>4, <2>1, <2>2, OutrasEdicoes
<1> QED BY <1>1, <1>5, <1>6, <1>8, <1>9, <1>10, FechaLivro

LEMMA DesfazInv ==
  ASSUME LivroInv, NEW s \in SessoesLivro, Desfaz(s)
  PROVE  LivroInv'
<1>1. /\ ls' = [ls EXCEPT ![s] = Fechada] /\ manut' = manut /\ lanc' = lanc
      /\ UNCHANGED <<perdeu, cruzadas>>
  BY DEF Desfaz
<1> QED BY <1>1, LivroFatos, FechaLivro

(* Entries by hand, which no link leads to.                                *)
LEMMA ManualInv ==
  ASSUME LivroInv, NEW f \in Lancamentos, NEW entrada \in Lancamento,
         lanc[f].st = "livre" \/ lanc[f].categoria # "manutencao",
         entrada.st # "livre", entrada.categoria # "manutencao",
         entrada.valor \in Valores,
         lanc' = [lanc EXCEPT ![f] = entrada],
         UNCHANGED <<manut, ls, perdeu, cruzadas>>
  PROVE  LivroInv'
<1>1. /\ lanc' \in [Lancamentos -> Lancamento] /\ lanc'[f] = entrada
      /\ \A g \in Lancamentos \ {f} : lanc'[g] = lanc[g]
      /\ \A m, k : LinkDe(k, m, lanc) => k # f
  BY LivroFatos, DespesasConstants DEF LinkDe
<1>2. \A m \in Manutencoes : manut[m].link \in Lancamentos \cup {Nenhum}
  BY LivroFatos DEF Manutencao
<1>3. \A m \in Manutencoes : EmpenhoOK(m, manut', lanc', perdeu', cruzadas)
  BY <1>1, <1>2, LivroFatos DEF EmpenhoOK, LinkDe
<1>4. \A g \in Lancamentos : EntradaOK(g, manut', lanc', perdeu')
  BY <1>1, LivroFatos DEF EntradaOK
<1>5. ASSUME NEW t \in SessoesLivro
      PROVE  EdicaoOK(ls[t], manut', lanc', perdeu', cruzadas)
  <2>1. EdicaoOK(ls[t], manut, lanc, perdeu, cruzadas)
        /\ ls[t].lida.link \in Lancamentos \cup {Nenhum}
    BY LivroFatos DEF Edicao, Manutencao
  <2>2. LinkDe(ls[t].lida.link, ls[t].m, lanc) => LinkDe(ls[t].lida.link, ls[t].m, lanc')
    BY <1>1, <2>1 DEF LinkDe
  <2>3. ls[t].m \in Manutencoes \ perdeu /\ manut[ls[t].m].st = "viva" =>
          lanc'[manut[ls[t].m].link] = lanc[manut[ls[t].m].link]
    BY <1>1, <1>2, LivroFatos DEF EmpenhoOK
  <2> QED BY <2>1, <2>2, <2>3 DEF EdicaoOK
<1> QED BY <1>1, <1>3, <1>4, <1>5, SoLivro, LivroFatos

LEMMA FinanceiroInv ==
  ASSUME LivroInv, NEW f \in Lancamentos,
         \/ \E v \in Valores : CreateFinanceiro(f, v) \/ UpdateFinanceiro(f, v)
         \/ DeleteFinanceiro(f)
  PROVE  LivroInv'
<1>0. lanc[f] \in Lancamento /\ EntradaOK(f, manut, lanc, perdeu)
  BY LivroFatos
<1>1. ASSUME NEW v \in Valores, CreateFinanceiro(f, v) PROVE LivroInv'
  <2> DEFINE e == [st |-> "viva", categoria |-> Nenhum, valor |-> v, de |-> Nenhum]
  <2>1. e \in Lancamento /\ e.st # "livre" /\ e.categoria # "manutencao" /\ e.valor = v
    BY DespesasConstants DEF Lancamento
  <2>2. /\ lanc[f].st = "livre" /\ lanc' = [lanc EXCEPT ![f] = e]
        /\ UNCHANGED <<manut, ls, perdeu, cruzadas>>
    BY <1>1 DEF CreateFinanceiro
  <2> QED BY <2>1, <2>2, ManualInv
<1>2. ASSUME NEW v \in Valores, UpdateFinanceiro(f, v) PROVE LivroInv'
  <2> DEFINE e == [lanc[f] EXCEPT !.valor = v]
  <2>1. /\ lanc[f].st = "viva" /\ lanc[f].categoria # "manutencao"
        /\ lanc' = [lanc EXCEPT ![f] = e] /\ UNCHANGED <<manut, ls, perdeu, cruzadas>>
    BY <1>2 DEF UpdateFinanceiro, RejectIfManutencao
  <2>2. e \in Lancamento /\ e.st # "livre" /\ e.categoria # "manutencao" /\ e.valor = v
    BY <1>0, <2>1 DEF Lancamento
  <2> QED BY <2>1, <2>2, ManualInv
<1>3. ASSUME DeleteFinanceiro(f) PROVE LivroInv'
  <2> DEFINE e == [lanc[f] EXCEPT !.st = "excluida"]
  <2>1. /\ lanc[f].st = "viva" /\ lanc[f].categoria # "manutencao"
        /\ lanc' = [lanc EXCEPT ![f] = e] /\ UNCHANGED <<manut, ls, perdeu, cruzadas>>
    BY <1>3 DEF DeleteFinanceiro, RejectIfManutencao
  <2>2. /\ e \in Lancamento /\ e.st # "livre" /\ e.categoria # "manutencao"
        /\ e.valor = lanc[f].valor /\ lanc[f].valor \in Valores
    BY <1>0, <2>1 DEF Lancamento, EntradaOK
  <2> QED BY <2>1, <2>2, ManualInv
<1> QED BY <1>1, <1>2, <1>3

LEMMA RotinaExternaInv ==
  ASSUME LivroInv, NEW f \in Lancamentos, RotinaExterna(f)
  PROVE  LivroInv'
<1> DEFINE d == lanc[f].de
<1>1. /\ lanc[f].st = "viva" /\ lanc[f].categoria = "manutencao" /\ d \in Manutencoes
      /\ lanc' = [lanc EXCEPT ![f] = [lanc[f] EXCEPT !.st = "excluida"]]
      /\ manut' = [m \in Manutencoes |->
           IF manut[m].link = f THEN [manut[m] EXCEPT !.link = Nenhum] ELSE manut[m]]
      /\ perdeu' = perdeu \cup {d} /\ UNCHANGED <<ls, cruzadas>>
  BY LivroFatos DEF RotinaExterna, Espelho, EntradaOK
<1>2. /\ lanc' \in [Lancamentos -> Lancamento] /\ lanc'[f].st = "excluida"
      /\ \A g \in Lancamentos \ {f} : lanc'[g] = lanc[g]
      /\ \A g \in Lancamentos : /\ lanc'[g].categoria = lanc[g].categoria
                                /\ lanc'[g].valor = lanc[g].valor
                                /\ lanc'[g].de = lanc[g].de
                                /\ (lanc'[g].st # "livre" <=> lanc[g].st # "livre")
                                /\ (lanc'[g].st = "viva" => lanc[g].st = "viva")
  BY <1>1, LivroFatos DEF Lancamento
<1>3. \A m \in Manutencoes :
        /\ manut'[m] \in Manutencao
        /\ manut'[m].st = manut[m].st /\ manut'[m].valor = manut[m].valor
        /\ manut'[m].link \in {manut[m].link, Nenhum}
        /\ manut[m].link # f => manut'[m] = manut[m]
        /\ manut[m].link \in Lancamentos \cup {Nenhum}
  BY <1>1, LivroFatos DEF Manutencao
<1>4. \A m \in Manutencoes : manut[m].link = f => m = d
  BY <1>1, LivroFatos, DespesasConstants DEF EmpenhoOK, LinkDe
<1>5. manut' \in [Manutencoes -> Manutencao] /\ perdeu' \subseteq Manutencoes
  BY <1>1, <1>3, LivroFatos
<1>6. perdeu' = perdeu \cup {d} /\ UNCHANGED <<ls, cruzadas>> /\ lanc[f].st = "viva"
  BY <1>1
<1> HIDE DEF d
<1>7. ASSUME NEW m \in Manutencoes
      PROVE  EmpenhoOK(m, manut', lanc', perdeu', cruzadas)
  <2>1. EmpenhoOK(m, manut, lanc, perdeu, cruzadas)
    BY LivroFatos
  <2>2. LinkDe(manut'[m].link, m, lanc')
    BY <1>2, <1>3, <2>1 DEF EmpenhoOK, LinkDe
  <2>3. m \notin perdeu' => m \notin perdeu /\ manut'[m] = manut[m] /\ manut[m].link # f
    BY <1>3, <1>4, <1>6
  <2> QED BY <1>2, <1>3, <1>6, <2>1, <2>2, <2>3 DEF EmpenhoOK
<1>8. \A g \in Lancamentos : EntradaOK(g, manut', lanc', perdeu')
  BY <1>2, <1>3, <1>6, LivroFatos DEF EntradaOK
<1>9. ASSUME NEW t \in SessoesLivro
      PROVE  EdicaoOK(ls[t], manut', lanc', perdeu', cruzadas)
  <2>1. EdicaoOK(ls[t], manut, lanc, perdeu, cruzadas)
        /\ ls[t].lida.link \in Lancamentos \cup {Nenhum}
    BY LivroFatos DEF Edicao, Manutencao
  <2>2. LinkDe(ls[t].lida.link, ls[t].m, lanc) => LinkDe(ls[t].lida.link, ls[t].m, lanc')
    BY <1>2, <2>1 DEF LinkDe
  <2>3. ls[t].m \in Manutencoes \ perdeu' =>
          ls[t].m \notin perdeu /\ manut'[ls[t].m] = manut[ls[t].m]
    BY <1>3, <1>4, <1>6
  <2>4. ls[t].m \in Manutencoes \ perdeu' /\ manut[ls[t].m].st = "viva" =>
          lanc'[manut[ls[t].m].link].valor = lanc[manut[ls[t].m].link].valor
    BY <1>2, <1>3, <2>3, LivroFatos DEF EmpenhoOK
  <2> QED BY <1>3, <2>1, <2>2, <2>3, <2>4 DEF EdicaoOK
<1> QED BY <1>2, <1>5, <1>6, <1>7, <1>8, <1>9, SoLivro

LEMMA LivroStart == DespesasInit => LivroInv
<1> SUFFICES ASSUME DespesasInit PROVE LivroInv
  OBVIOUS
<1>1. DespesasTypeOK
  BY FechadaType DEF DespesasInit, DespesasTypeOK, Lancamento
<1>2. \A m \in Manutencoes : EmpenhoOK(m, manut, lanc, perdeu, cruzadas)
  BY DEF DespesasInit, EmpenhoOK, LinkDe, NaoHa
<1>3. \A f \in Lancamentos : EntradaOK(f, manut, lanc, perdeu)
  BY DEF DespesasInit, EntradaOK
<1>4. \A s \in SessoesLivro : ls[s] = Fechada
  BY DEF DespesasInit
<1>5. SozinhaNela
  BY <1>4, FechadaType, DespesasConstants DEF SozinhaNela
<1> QED BY <1>1, <1>2, <1>3, <1>4, <1>5, FechadaType DEF LivroInv

LEMMA LivroStep == LivroInv /\ [DespesasNext]_despesasVars => LivroInv'
<1> SUFFICES ASSUME LivroInv, [DespesasNext]_despesasVars PROVE LivroInv'
  OBVIOUS
<1>1. ASSUME NEW s \in SessoesLivro, NEW m \in Manutencoes, GetManutencao(s, m)
      PROVE  LivroInv'
  BY <1>1, GetManutencaoInv
<1>2. ASSUME NEW s \in SessoesLivro, NEW v \in Valores \cup {Nenhum}, SyncDespesa(s, v)
      PROVE  LivroInv'
  BY <1>2, SyncDespesaInv
<1>3. ASSUME NEW s \in SessoesLivro, NEW f \in Lancamentos, CommitRecreate(s, f)
      PROVE  LivroInv'
  BY <1>3, CommitRecreateInv
<1>4. ASSUME NEW s \in SessoesLivro, CommitUpdate(s) \/ DeleteManutencao(s) \/ Desfaz(s)
      PROVE  LivroInv'
  BY <1>4, CommitUpdateInv, DeleteManutencaoInv, DesfazInv
<1>5. ASSUME NEW f \in Lancamentos, NEW m \in Manutencoes, NEW v \in Valores,
             CreateManutencao(m, f, v)
      PROVE  LivroInv'
  BY <1>5, CreateManutencaoInv
<1>6. ASSUME NEW f \in Lancamentos,
             \/ \E v \in Valores : CreateFinanceiro(f, v) \/ UpdateFinanceiro(f, v)
             \/ DeleteFinanceiro(f)
      PROVE  LivroInv'
  BY <1>6, FinanceiroInv
<1>7. ASSUME NEW f \in Lancamentos, RotinaExterna(f) PROVE LivroInv'
  BY <1>7, RotinaExternaInv
<1>8. CASE UNCHANGED despesasVars
  BY <1>8, LivroFatos, SoLivro DEF despesasVars
<1> QED BY <1>1, <1>2, <1>3, <1>4, <1>5, <1>6, <1>7, <1>8 DEF DespesasNext

LEMMA LivroInductive == DespesasSpec => []LivroInv
BY LivroStart, LivroStep, PTL DEF DespesasSpec

(* A mirrored expense is booked once, whatever editions and removals       *)
(* overlap: one expense for a maintenance and one maintenance for it, as   *)
(* long as no outside routine removed it (manutencao_service.py:151).      *)
THEOREM MirrorIsUnique == DespesasSpec => []EspelhoUnico
<1>1. LivroInv => EspelhoUnico
  BY LivroFatos DEF EspelhoUnico, Espelho, Ha, EntradaOK, EmpenhoOK, LinkDe
<1> QED BY <1>1, LivroInductive, PTL

(* The expense of a maintenance that two requests never edited at the same *)
(* time is booked at the value the maintenance shows                       *)
(* (manutencao_service.py:168).                                            *)
ValorIgual ==
  \A m \in Manutencoes \ (perdeu \cup cruzadas) : manut[m].st = "viva" =>
    lanc[manut[m].link].valor = manut[m].valor

THEOREM MirrorHasValue == DespesasSpec => []ValorIgual
<1>1. LivroInv => ValorIgual
  BY LivroFatos DEF ValorIgual, EmpenhoOK
<1> QED BY <1>1, LivroInductive, PTL
-----------------------------------------------------------------------------
(* Totals.  What is added up in the order CHOOSE takes it is the same in   *)
(* any order, and for any set with a one-to-one copy of the values.        *)

Um(T) == CHOOSE x \in T : TRUE

(* g adds up f over the subsets of S.                                      *)
Somas(g, f, S) ==
  g = [T \in SUBSET S |-> IF T = {} THEN 0 ELSE f[Um(T)] + g[T \ {Um(T)}]]

SomaDe(f, S) == CHOOSE g : Somas(g, f, S)

LEMMA SomaDef == ASSUME NEW f, NEW S PROVE Soma(f, S) = SomaDe(f, S)[S]
BY DEF Soma, SomaDe, Somas, Um

LEMMA UmType == ASSUME NEW T, T # {} PROVE Um(T) \in T
BY DEF Um

LEMMA Menos ==
  ASSUME NEW T, IsFiniteSet(T), NEW x \in T
  PROVE  /\ IsFiniteSet(T \ {x}) /\ Cardinality(T \ {x}) \in Nat
         /\ Cardinality(T) = Cardinality(T \ {x}) + 1
<1>1. IsFiniteSet(T \ {x})
  BY FS_Subset
<1>2. Cardinality(T \ {x}) = Cardinality(T) - 1
  BY FS_RemoveElement
<1>3. Cardinality(T) \in Nat /\ Cardinality(T \ {x}) \in Nat
  BY <1>1, FS_CardinalityType
<1> QED BY <1>1, <1>2, <1>3

(* What holds of the number of elements of every finite set.               *)
LEMMA Menor ==
  ASSUME NEW N \in SUBSET Nat, N # {}
  PROVE  \E n \in N : \A m \in N : m >= n
<1>1. \E n \in N : \A m \in N : ~(<<m, n>> \in OpToRel(<, Nat))
  BY NatLessThanWellFounded, WFMin
<1>2. PICK n \in N : \A m \in N : ~(<<m, n>> \in OpToRel(<, Nat))
  BY <1>1
<1>3. \A m \in N : ~(m < n)
  BY <1>2 DEF OpToRel
<1> QED BY <1>3

LEMMA SomaExiste ==
  ASSUME NEW S, IsFiniteSet(S), NEW f, \A x \in S : f[x] \in Nat
  PROVE  \E g : Somas(g, f, S)
<1> DEFINE Ate(n) == {T \in SUBSET S : Cardinality(T) <= n}
           Boa(h, n) == h = [T \in Ate(n) |->
                               IF T = {} THEN 0 ELSE f[Um(T)] + h[T \ {Um(T)}]]
           Falta == {n \in Nat : ~ \E h : Boa(h, n)}
<1>1. \A T \in SUBSET S : IsFiniteSet(T) /\ Cardinality(T) \in Nat
  BY FS_Subset, FS_CardinalityType
<1>2. Falta = {}
  <2> SUFFICES ASSUME Falta # {} PROVE FALSE
    OBVIOUS
  <2>1. PICK n \in Falta : \A m \in Falta : m >= n
    BY Menor
  <2>2. CASE n = 0
    <3>1. \A T \in Ate(0) : T = {}
      BY <1>1, FS_EmptySet
    <3>2. Boa([T \in Ate(0) |-> 0], 0)
      BY <3>1
    <3> QED BY <2>1, <2>2, <3>2
  <2>3. CASE n # 0
    <3>0. n \in Nat
      BY <2>1
    <3>1. n - 1 \in Nat /\ n - 1 \notin Falta
      <4> HIDE DEF Falta
      <4> QED BY <2>1, <2>3, <3>0
    <3>2. PICK h : Boa(h, n - 1)
      BY <3>1
    <3> DEFINE k == [T \in Ate(n) |->
                       IF T = {} THEN 0 ELSE f[Um(T)] + h[T \ {Um(T)}]]
    <3>3. ASSUME NEW T \in Ate(n - 1) PROVE k[T] = h[T]
      <4>1. T \in Ate(n)
        BY <1>1, <3>0
      <4>2. h[T] = IF T = {} THEN 0 ELSE f[Um(T)] + h[T \ {Um(T)}]
        BY <3>2
      <4> QED BY <4>1, <4>2
    <3>4. \A T \in Ate(n) : T # {} => T \ {Um(T)} \in Ate(n - 1)
      BY <1>1, <3>1, Menos, UmType
    <3>5. Boa(k, n)
      BY <3>3, <3>4
    <3> QED BY <2>1, <3>5
  <2> QED BY <2>2, <2>3
<1>3. PICK h : Boa(h, Cardinality(S))
  BY <1>1, <1>2
<1>4. Ate(Cardinality(S)) = SUBSET S
  BY FS_Subset
<1>5. Somas(h, f, S)
  BY <1>3, <1>4 DEF Somas
<1> QED BY <1>5

LEMMA SomaSoma ==
  ASSUME NEW S, IsFiniteSet(S), NEW f, \A x \in S : f[x] \in Nat
  PROVE  /\ Soma(f, S) = SomaDe(f, S)[S]
         /\ \A T \in SUBSET S : SomaDe(f, S)[T] =
              IF T = {} THEN 0 ELSE f[Um(T)] + SomaDe(f, S)[T \ {Um(T)}]
<1>1. Somas(SomaDe(f, S), f, S)
  BY SomaExiste DEF SomaDe
<1> HIDE DEF SomaDe
<1> QED BY <1>1, SomaDef DEF Somas

(* Any element may be added last.                                          *)
LEMMA SomaOrdem ==
  ASSUME NEW S, IsFiniteSet(S), NEW f, \A x \in S : f[x] \in Nat
  PROVE  \A T \in SUBSET S :
           /\ SomaDe(f, S)[T] \in Nat
           /\ \A x \in T : SomaDe(f, S)[T] = f[x] + SomaDe(f, S)[T \ {x}]
<1> DEFINE g == SomaDe(f, S)
           Bom(T) == g[T] \in Nat /\ \A x \in T : g[T] = f[x] + g[T \ {x}]
           Falta == {n \in Nat : \E T \in SUBSET S : Cardinality(T) = n /\ ~Bom(T)}
<1>1. \A T \in SUBSET S : IsFiniteSet(T) /\ Cardinality(T) \in Nat
  BY FS_Subset, FS_CardinalityType
<1>2. \A T \in SUBSET S : g[T] = IF T = {} THEN 0 ELSE f[Um(T)] + g[T \ {Um(T)}]
  BY SomaSoma
<1> HIDE DEF g
<1>3. SUFFICES Falta = {}
  BY <1>1 DEF g
<1>4. SUFFICES ASSUME Falta # {} PROVE FALSE
  OBVIOUS
<1>5. PICK n \in Falta : \A m \in Falta : m >= n
  <2>1. Falta \in SUBSET Nat
    OBVIOUS
  <2> HIDE DEF Falta
  <2> QED BY <1>4, <2>1, Menor
<1>6. PICK T \in SUBSET S : Cardinality(T) = n /\ ~Bom(T)
  BY <1>5
<1>7. ASSUME NEW U \in SUBSET S, NEW x \in U, U \subseteq T PROVE Bom(U \ {x})
  <2>1. U \ {x} \in SUBSET S /\ Cardinality(U) = Cardinality(U \ {x}) + 1
    BY <1>1, Menos
  <2>2. Cardinality(U) <= Cardinality(T)
    BY <1>1, <1>7, FS_Subset
  <2>3. Cardinality(U \ {x}) \in Nat /\ Cardinality(U) \in Nat /\ n \in Nat
    BY <1>1, <1>5, <2>1
  <2>4. Cardinality(U \ {x}) < n
    BY <1>6, <2>1, <2>2, <2>3
  <2> HIDE DEF Bom
  <2> SUFFICES ASSUME ~Bom(U \ {x}) PROVE FALSE
    OBVIOUS
  <2>5. Cardinality(U \ {x}) \in Falta
    BY <2>1, <2>3
  <2> HIDE DEF Falta
  <2> QED BY <1>5, <2>3, <2>4, <2>5
<1>8. CASE T = {}
  <2>1. g[T] = 0
    BY <1>2, <1>8
  <2>2. Bom(T)
    BY <1>8, <2>1
  <2> QED BY <1>6, <2>2
<1>9. CASE T # {}
  <2>1. PICK c : c = Um(T)
    OBVIOUS
  <2>2. c \in T /\ c \in S /\ g[T] = f[c] + g[T \ {c}]
    BY <1>2, <1>9, <2>1, UmType
  <2>3. g[T \ {c}] \in Nat /\ f[c] \in Nat
    BY <1>7, <2>2
  <2>4. ASSUME NEW x \in T PROVE g[T] = f[x] + g[T \ {x}]
    <3>1. CASE x = c
      BY <2>2, <3>1
    <3>2. CASE x # c
      <4>1. x \in T \ {c} /\ c \in T \ {x} /\ f[x] \in Nat
        BY <2>2, <3>2
      <4>2. g[T \ {c}] = f[x] + g[(T \ {c}) \ {x}]
        BY ZenonT(40), <1>7, <2>2, <4>1
      <4>3. Bom(T \ {x})
        BY <1>7
      <4>3a. g[T \ {x}] = f[c] + g[(T \ {x}) \ {c}] /\ g[T \ {x}] \in Nat
        BY <4>1, <4>3
      <4>4. (T \ {c}) \ {x} = (T \ {x}) \ {c}
        OBVIOUS
      <4>5. g[(T \ {x}) \ {c}] \in Nat
        <5>1. T \ {x} \in SUBSET S /\ T \ {x} \subseteq T /\ c \in T \ {x}
          BY <4>1
        <5>2. Bom((T \ {x}) \ {c})
          BY <1>7, <5>1
        <5> QED BY <5>2
      <4>6. \A u, v, w, z, q \in Nat :
              u = v + w /\ z = q + w => q + u = v + z
        OBVIOUS
      <4>7. PICK w : w = g[(T \ {x}) \ {c}]
        OBVIOUS
      <4>8. g[T \ {c}] = f[x] + w /\ w \in Nat
        BY <4>2, <4>4, <4>5, <4>7
      <4>9. g[T \ {x}] = f[c] + w
        BY <4>3a, <4>7
      <4>10. f[c] + g[T \ {c}] = f[x] + g[T \ {x}]
        BY <2>3, <4>1, <4>3a, <4>6, <4>8, <4>9
      <4> QED BY <2>2, <4>10
    <3> QED BY <3>1, <3>2
  <2>5. g[T] \in Nat
    BY <2>2, <2>3
  <2>6. Bom(T)
    BY <2>4, <2>5
  <2> QED BY <1>6, <2>6
<1> QED BY <1>8, <1>9

Aditiva(F, f, S) ==
  /\ F[{}] = 0
  /\ \A T \in SUBSET S : \A x \in T : F[T] = f[x] + F[T \ {x}]

LEMMA SomaAditiva ==
  ASSUME NEW S, IsFiniteSet(S), NEW f, \A x \in S : f[x] \in Nat
  PROVE  Soma(f, S) = SomaDe(f, S)[S] /\ Aditiva(SomaDe(f, S), f, S)
<1> DEFINE g == SomaDe(f, S)
<1>1. \A T \in SUBSET S : g[T] \in Nat /\ \A x \in T : g[T] = f[x] + g[T \ {x}]
  BY SomaOrdem
<1>2. Soma(f, S) = g[S] /\ g[{}] = 0
  BY SomaSoma
<1> HIDE DEF g
<1>3. Aditiva(g, f, S)
  BY <1>1, <1>2 DEF Aditiva
<1> QED BY <1>2, <1>3 DEF g

(* b takes S to R one to one, and values to values.                        *)
LEMMA SomaCopia ==
  ASSUME NEW S, IsFiniteSet(S), NEW f, \A x \in S : f[x] \in Nat,
         NEW R, NEW g, NEW b,
         \A x \in S : b[x] \in R /\ g[b[x]] = f[x],
         \A x, y \in S : b[x] = b[y] => x = y,
         \A z \in R : \E x \in S : z = b[x]
  PROVE  Soma(f, S) = Soma(g, R)
<1> DEFINE Copia(T) == {b[x] : x \in T}
           F == SomaDe(f, S)
           G == SomaDe(g, R)
           Falta == {n \in Nat : \E T \in SUBSET S :
                       Cardinality(T) = n /\ F[T] # G[Copia(T)]}
<1>1. R = Copia(S)
  OBVIOUS
<1>2. IsFiniteSet(R)
  <2> DEFINE h == [x \in S |-> b[x]]
  <2>1. h \in Surjection(S, R)
    BY <1>1 DEF Surjection
  <2> QED BY <2>1, FS_Surjection
<1>3. \A z \in R : g[z] \in Nat
  OBVIOUS
<1>4. \A T \in SUBSET S : IsFiniteSet(T) /\ Cardinality(T) \in Nat
  BY FS_Subset, FS_CardinalityType
<1>5. Soma(f, S) = F[S] /\ Aditiva(F, f, S)
  BY SomaAditiva
<1>6. Soma(g, R) = G[R] /\ Aditiva(G, g, R)
  BY <1>2, <1>3, SomaAditiva
<1> HIDE DEF F, G
<1>7. Falta = {}
  <2> SUFFICES ASSUME Falta # {} PROVE FALSE
    OBVIOUS
  <2>1. PICK n \in Falta : \A m \in Falta : m >= n
    BY Menor
  <2>2. PICK T \in SUBSET S : Cardinality(T) = n /\ F[T] # G[Copia(T)]
    BY <2>1
  <2>3. CASE T = {}
    BY <1>5, <1>6, <2>2, <2>3 DEF Aditiva
  <2>4. ASSUME NEW x \in T PROVE FALSE
    <3>1. Cardinality(T \ {x}) \in Nat /\ Cardinality(T) = Cardinality(T \ {x}) + 1
      BY <1>4, Menos
    <3>2. Cardinality(T \ {x}) \notin Falta
      <4>1. Cardinality(T \ {x}) < n
        BY <2>2, <3>1
      <4>2. n \in Nat
        BY <2>2, <3>1
      <4> HIDE DEF Falta
      <4> QED BY <2>1, <3>1, <4>1, <4>2
    <3>3. F[T \ {x}] = G[Copia(T \ {x})]
      BY <3>1, <3>2
    <3>4. Copia(T \ {x}) = Copia(T) \ {b[x]}
      OBVIOUS
    <3>5. Copia(T) \in SUBSET R /\ b[x] \in Copia(T) /\ b[x] \in R
      OBVIOUS
    <3> HIDE DEF Copia
    <3>6. G[Copia(T)] = g[b[x]] + G[Copia(T) \ {b[x]}]
      BY <1>6, <3>5 DEF Aditiva
    <3>7. F[T] = f[x] + F[T \ {x}] /\ g[b[x]] = f[x]
      BY <1>5 DEF Aditiva
    <3> QED BY <2>2, <3>3, <3>4, <3>6, <3>7
  <2> QED BY <2>3, <2>4
<1>8. F[S] = G[Copia(S)]
  BY <1>4, <1>7
<1> QED BY <1>1, <1>5, <1>6, <1>8
(* The summary of the maintenances and the books tell the same total, and  *)
(* each maintenance has the one expense, unless two requests edited one at *)
(* the same time or an outside routine removed it                          *)
(* (manutencao_service.py:151, :168).                                      *)
THEOREM BooksMatch == DespesasSpec => []EspelhoConfere
<1>1. ASSUME LivroInv, cruzadas = {}, perdeu = {}
      PROVE  ResumoManutencoes = DespesasEspelho
  <2> DEFINE S == {m \in Manutencoes : manut[m].st = "viva"}
             R == {x \in Lancamentos : Espelho(x)}
             f == [m \in Manutencoes |-> manut[m].valor]
             g == [x \in Lancamentos |-> lanc[x].valor]
             b == [m \in Manutencoes |-> manut[m].link]
  <2>1. IsFiniteSet(S)
    BY FS_Subset, DespesasConstants
  <2>2. \A m \in Manutencoes : EmpenhoOK(m, manut, lanc, perdeu, cruzadas)
                               /\ manut[m].link \in Lancamentos \cup {Nenhum}
    BY <1>1, LivroFatos DEF Manutencao
  <2>3. \A x \in S : f[x] \in Nat
    BY <2>2, DespesasConstants DEF EmpenhoOK
  <2>4. \A x \in S : b[x] \in R /\ g[b[x]] = f[x]
    BY <1>1, <2>2 DEF EmpenhoOK, LinkDe, Espelho
  <2>5. \A x, y \in S : b[x] = b[y] => x = y
    BY <1>1, <2>2 DEF EmpenhoOK, LinkDe
  <2>6. \A z \in R : \E x \in S : z = b[x]
    BY <1>1, LivroFatos DEF EntradaOK, Espelho
  <2> HIDE DEF S, R, f, g, b
  <2>7. Soma(f, S) = Soma(g, R)
    BY <2>1, <2>3, <2>4, <2>5, <2>6, SomaCopia
  <2> QED BY <2>7 DEF ResumoManutencoes, DespesasEspelho, S, R, f, g
<1> QED BY <1>1, MirrorIsUnique, LivroInductive, PTL DEF EspelhoConfere, LivroConfere
====

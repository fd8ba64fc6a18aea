----------------------------- MODULE AcessoProofs -----------------------------
(***************************************************************************)
(* Who gets in, for any links, tokens, callers, users and lifetimes.       *)
(*                                                                         *)
(* Links: one that was taken back does not open again; a link is generated *)
(* once, so what a session is about to write is neither spent nor what     *)
(* another one is about to write.  Tokens: a revoked refresh token is      *)
(* refused; no token is stamped beyond the epoch, a revoked one is stamped *)
(* before it, and the epoch's key lives as long as the tokens it revokes.  *)
(* Limits: no window lets more calls through than its limit; the counter   *)
(* has counted every call let through since its key was born.  Scope: the  *)
(* rows that point at each other stay in one operation, since a new row is *)
(* looked up and written in one transaction; owners keep to their own.     *)
(***************************************************************************)
EXTENDS Escopo, Limites, Portal, Sessoes, FiniteSetTheorems, TLAPS

-----------------------------------------------------------------------------
(* Links.                                                                  *)
Escreve(s, t) == ps[s].pc = "gravar" /\ ps[s].suja /\ ps[s].grava = t

LinksType ==
  /\ ps \in [SessoesPortal -> SessaoPortal]
  /\ link \in Links \cup {SemLink} /\ validade \in Nat
  /\ gastos \subseteq Links /\ saidos \subseteq gastos
  /\ link # SemLink => link \in gastos
  /\ link = SemLink => validade = 0

Vigente == validade > 0 => link \notin saidos

(* What a session is about to write is new to the charge and its own.      *)
Inedito ==
  \A s \in SessoesPortal, t \in Links : Escreve(s, t) =>
    /\ t \in gastos \ saidos /\ t # link
    /\ \A u \in SessoesPortal : Escreve(u, t) => u = s

PInv == LinksType /\ Vigente /\ Inedito

LEMMA PortalConsts == VidaLink \in Nat /\ SemLink \notin Links
BY PortalConstants

LEMMA PInit == PortalInit => PInv
BY PortalConsts
   DEF PortalInit, PInv, LinksType, Vigente, Inedito, Escreve, Calma, SessaoPortal

(* A session that loads the charge: it writes nothing, or a new link.      *)
LEMMA LoadP ==
  ASSUME PInv, NEW s \in SessoesPortal, NEW r \in SessaoPortal,
         ps' = [ps EXCEPT ![s] = r], UNCHANGED <<link, validade, saidos>>,
         \/ gastos' = gastos /\ (r.suja => r.grava = SemLink)
         \/ r.grava \in Links \ gastos /\ gastos' = gastos \cup {r.grava}
  PROVE  PInv'
<1>1. /\ ps' \in [SessoesPortal -> SessaoPortal] /\ ps'[s] = r
      /\ \A u \in SessoesPortal \ {s} : ps'[u] = ps[u]
  BY DEF PInv, LinksType
<1>2. LinksType'
  BY <1>1 DEF PInv, LinksType
<1>3. Vigente'
  BY DEF PInv, Vigente
<1>4. ASSUME NEW u \in SessoesPortal, NEW t \in Links, Escreve(u, t)'
      PROVE  /\ t \in gastos' \ saidos' /\ t # link'
             /\ \A v \in SessoesPortal : Escreve(v, t)' => v = u
  <2>1. \A v \in SessoesPortal \ {s} : Escreve(v, t)' => Escreve(v, t)
    BY <1>1 DEF Escreve
  <2>2. Escreve(s, t)' => t \notin gastos /\ t \in gastos' /\ t # link
    BY <1>1, PortalConsts DEF Escreve, PInv, LinksType
  <2>3. \A v \in SessoesPortal : Escreve(v, t) => t \in gastos \ saidos /\ t # link
    BY DEF PInv, Inedito
  <2>4. saidos \subseteq gastos
    BY DEF PInv, LinksType
  <2>5. CASE Escreve(s, t)'
    BY <1>4, <2>1, <2>2, <2>3, <2>4, <2>5
  <2>6. CASE ~Escreve(s, t)'
    <3>1. Escreve(u, t)
      BY <1>4, <2>1, <2>6
    <3>2. \A v \in SessoesPortal : Escreve(v, t)' => v = u
      BY <2>1, <2>6, <3>1 DEF PInv, Inedito
    <3> QED BY <2>3, <3>1, <3>2
  <2> QED BY <2>5, <2>6
<1>5. Inedito'
  BY <1>4 DEF Inedito
<1> QED BY <1>2, <1>3, <1>5 DEF PInv

LEMMA CommitP ==
  ASSUME PInv, NEW s \in SessoesPortal, PortalCommit(s)
  PROVE  PInv'
<1>1. /\ Calma \in SessaoPortal /\ Calma.pc = "livre"
      /\ ps' = [ps EXCEPT ![s] = Calma] /\ gastos' = gastos
  BY DEF PortalCommit, Calma, SessaoPortal
<1>2. /\ ps' \in [SessoesPortal -> SessaoPortal] /\ ps'[s].pc = "livre"
      /\ \A u \in SessoesPortal \ {s} : ps'[u] = ps[u]
  BY <1>1 DEF PInv, LinksType
<1>3. \A u \in SessoesPortal, t \in Links : Escreve(u, t)' => Escreve(u, t) /\ u # s
  BY <1>2 DEF Escreve
<1>4. CASE ~ps[s].suja
  <2>1. UNCHANGED <<link, validade, saidos>>
    BY <1>4 DEF PortalCommit
  <2>2. LinksType' /\ Vigente'
    BY <1>1, <1>2, <2>1 DEF PInv, LinksType, Vigente
  <2>3. Inedito'
    BY <1>1, <1>3, <2>1 DEF PInv, Inedito
  <2> QED BY <2>2, <2>3 DEF PInv
<1>5. CASE ps[s].suja
  <2>1. PICK g : g = ps[s].grava
    OBVIOUS
  <2>2. /\ g \in Links \cup {SemLink} /\ link' = g
        /\ validade' = IF g = SemLink THEN 0 ELSE VidaLink
        /\ saidos' = (saidos \cup {link}) \ {SemLink}
    BY <1>5, <2>1 DEF PortalCommit, PInv, LinksType, SessaoPortal
  <2>3. g \in Links => g \in gastos \ saidos /\ g # link
    BY <1>5, <2>1 DEF PortalCommit, PInv, Inedito, Escreve
  <2>4. LinksType'
    BY <1>1, <1>2, <2>2, <2>3, PortalConsts DEF PInv, LinksType
  <2>5. Vigente'
    BY <2>2, <2>3 DEF Vigente
  <2>6. ASSUME NEW u \in SessoesPortal, NEW t \in Links, Escreve(u, t)'
        PROVE  /\ t \in gastos' \ saidos' /\ t # link'
               /\ \A v \in SessoesPortal : Escreve(v, t)' => v = u
    <3>1. Escreve(u, t) /\ u # s
      BY <1>3, <2>6
    <3>2. /\ t \in gastos \ saidos /\ t # link
          /\ \A v \in SessoesPortal : Escreve(v, t) => v = u
      BY <3>1 DEF PInv, Inedito
    <3>3. t # g
      BY <1>5, <2>1, <3>1, <3>2 DEF PortalCommit, Escreve
    <3> QED BY <1>1, <1>3, <2>2, <3>2, <3>3
  <2>7. Inedito'
    BY <2>6 DEF Inedito
  <2> QED BY <2>4, <2>5, <2>7 DEF PInv
<1> QED BY <1>4, <1>5

LEMMA RollbackP ==
  ASSUME PInv, NEW s \in SessoesPortal, PortalRollback(s)
  PROVE  PInv'
<1>1. Calma \in SessaoPortal /\ ~Calma.suja
  BY DEF Calma, SessaoPortal
<1> QED BY <1>1, LoadP DEF PortalRollback

LEMMA AwayP ==
  ASSUME PInv, UNCHANGED <<link, ps, gastos>>,
         UNCHANGED <<validade, saidos>> \/ Envelhece
  PROVE  PInv'
<1>1. LinksType' /\ Vigente'
  BY DEF PInv, LinksType, Vigente, Envelhece
<1>2. Inedito'
  BY DEF PInv, LinksType, Inedito, Escreve, Envelhece
<1> QED BY <1>1, <1>2 DEF PInv

LEMMA NextP == PInv /\ [PortalNext]_portalVars => PInv'
<1> SUFFICES ASSUME PInv, [PortalNext]_portalVars PROVE PInv'
  OBVIOUS
<1>1. CASE UNCHANGED portalVars
  BY <1>1, AwayP DEF portalVars
<1>2. CASE FechaCobranca \/ Envelhece
  BY <1>2, AwayP DEF FechaCobranca, Envelhece
<1>3. ASSUME NEW s \in SessoesPortal,
             \/ IssuePortalLink(s) \/ RevokePortalLink(s) \/ EnsurePortalUrl(s)
      PROVE  PInv'
  <2>1. /\ \E grava \in Links \cup {SemLink}, suja \in BOOLEAN,
              manda \in Links \cup {SemLink} :
             /\ ps' = [ps EXCEPT ![s] = [pc |-> "gravar", grava |-> grava,
                                         suja |-> suja, manda |-> manda]]
             /\ \/ gastos' = gastos /\ (suja => grava = SemLink)
                \/ grava \in Links \ gastos /\ gastos' = gastos \cup {grava}
        /\ UNCHANGED <<link, validade, saidos>>
    BY <1>3, PortalConsts
       DEF IssuePortalLink, RevokePortalLink, EnsurePortalUrl, Carrega, PInv, LinksType
  <2>2. PICK grava \in Links \cup {SemLink}, suja \in BOOLEAN,
             manda \in Links \cup {SemLink} :
          /\ ps' = [ps EXCEPT ![s] = [pc |-> "gravar", grava |-> grava,
                                      suja |-> suja, manda |-> manda]]
          /\ \/ gastos' = gastos /\ (suja => grava = SemLink)
             \/ grava \in Links \ gastos /\ gastos' = gastos \cup {grava}
    BY <2>1
  <2>3. PICK r : r = [pc |-> "gravar", grava |-> grava, suja |-> suja, manda |-> manda]
    OBVIOUS
  <2>4. r \in SessaoPortal /\ r.grava = grava /\ r.suja = suja
    BY <2>3 DEF SessaoPortal
  <2> QED BY <2>1, <2>2, <2>3, <2>4, LoadP
<1> QED BY <1>1, <1>2, <1>3, CommitP, RollbackP DEF PortalNext

(* A link that was revoked, replaced or that ran out does not open the     *)
(* checkout again, whatever the sessions that loaded the charge before     *)
(* still commit (payer_portal_service.py:105, :114).                       *)
THEOREM RevokedStaysShut == PortalSpec => []RevogadoNaoVolta
<1>1. PInv => RevogadoNaoVolta
  BY DEF PInv, LinksType, Vigente, RevogadoNaoVolta, PublicCheckout,
     CobByPortalToken, PortalExpired
<1> QED BY <1>1, PInit, NextP, PTL DEF PortalSpec

-----------------------------------------------------------------------------
(* Refresh tokens.                                                         *)
Expirando == \E p \in Requisicoes : req[p].pc = "expirar"

Vivo(t) == tokens[t].resta > 0

TokensType ==
  /\ epoca \in [v: Nat, resta: 0..Ttl]
  /\ tokens \in [Tokens -> Token]
  /\ req \in [Requisicoes -> Requisicao]
  /\ revogados \subseteq Tokens
  /\ \A t \in revogados : tokens[t].visto
  /\ \A t \in Tokens : Vivo(t) => tokens[t].visto

(* Nothing is stamped, or about to be, beyond the epoch.                   *)
Carimbos ==
  /\ \A t \in Tokens : Vivo(t) => tokens[t].epoca <= epoca.v
  /\ \A p \in Requisicoes : req[p].pc = "gravar" => req[p].epoca <= epoca.v

(* A revoked token is stamped before the epoch, and does not outlive it.   *)
Revogados ==
  \A t \in revogados : Vivo(t) =>
    /\ tokens[t].epoca < epoca.v
    /\ Expirando \/ epoca.resta >= tokens[t].resta

(* Who read the epoch before a revocation stores while it is still new.    *)
Atrasados ==
  \A p \in Requisicoes : req[p].pc = "gravar" /\ req[p].epoca < epoca.v =>
    Expirando \/ epoca.resta = Ttl

Limpo == ~cortada /\ ~esquecida

TInv == TokensType /\ (Limpo => Carimbos /\ Revogados /\ Atrasados)

LEMMA TConsts ==
  /\ Ttl \in Nat \ {0} /\ 0 \in 0..Ttl /\ Ttl \in 0..Ttl
  /\ SemToken \notin Tokens
BY SessoesConstants

LEMMA TInit == SessoesInit => TInv
BY TConsts
   DEF SessoesInit, TInv, TokensType, Limpo, Carimbos, Revogados, Atrasados,
       Parada, Token, Requisicao, Vivo

LEMMA ParadaT == Parada \in Requisicao /\ Parada.pc = "livre"
BY DEF Parada, Requisicao

LEMMA TFields ==
  ASSUME TInv
  PROVE  /\ epoca.v \in Nat /\ epoca.resta \in 0..Ttl
         /\ \A t \in Tokens : tokens[t] \in Token /\ tokens[t].epoca \in Nat
                              /\ tokens[t].resta \in 0..Ttl
         /\ \A p \in Requisicoes : req[p] \in Requisicao /\ req[p].epoca \in Nat
BY DEF TInv, TokensType, Token, Requisicao

(* A request that goes on, having read the epoch or not; tokens may go.    *)
LEMMA SegueT ==
  ASSUME TInv, NEW p \in Requisicoes, NEW r \in Requisicao,
         req' = [req EXCEPT ![p] = r],
         req[p].pc # "expirar" \/ cortada',
         r.pc = "gravar" => r.epoca = epoca.v,
         tokens' \in [Tokens -> Token],
         \A t \in Tokens :
           \/ tokens'[t] = tokens[t]
           \/ tokens'[t].resta = 0 /\ tokens'[t].visto = tokens[t].visto,
         cortada => cortada', UNCHANGED <<epoca, revogados, esquecida>>
  PROVE  TInv'
<1>1. /\ req' \in [Requisicoes -> Requisicao] /\ req'[p] = r
      /\ \A q \in Requisicoes \ {p} : req'[q] = req[q]
  BY DEF TInv, TokensType
<1>2. TokensType'
  BY <1>1, TFields DEF TInv, TokensType, Vivo
<1>3. ASSUME Limpo'
      PROVE  Carimbos' /\ Revogados' /\ Atrasados'
  <2>1. Limpo /\ Carimbos /\ Revogados /\ Atrasados /\ req[p].pc # "expirar"
    BY <1>3 DEF Limpo, TInv
  <2>2. Expirando => Expirando'
    BY <1>1, <2>1 DEF Expirando
  <2>3. Carimbos'
    BY <1>1, <2>1, TFields DEF Carimbos, Vivo
  <2>4. Revogados'
    BY <2>1, <2>2 DEF Revogados, Vivo, TInv, TokensType
  <2>5. Atrasados'
    BY <1>1, <2>1, <2>2, TFields DEF Atrasados
  <2> QED BY <2>3, <2>4, <2>5
<1> QED BY <1>2, <1>3 DEF TInv

LEMMA CreateT ==
  ASSUME TInv, NEW p \in Requisicoes, NEW t \in Tokens, CreateRefreshToken(p, t)
  PROVE  TInv'
<1>1. PICK e : e = req[p].epoca
  OBVIOUS
<1>2. PICK k : k = [visto |-> TRUE, epoca |-> e, resta |-> Ttl]
  OBVIOUS
<1>3. /\ e \in Nat /\ k \in Token /\ k.epoca = e /\ k.resta = Ttl /\ k.visto
      /\ req[p].pc = "gravar" /\ UNCHANGED <<epoca, cortada, esquecida>>
      /\ tokens' = [tokens EXCEPT ![t] = k]
      /\ req' = [req EXCEPT ![p] = Parada]
      /\ revogados' = IF e < epoca.v THEN revogados \cup {t} ELSE revogados
  BY <1>1, <1>2, TFields, TConsts DEF CreateRefreshToken, Token, Sai
<1>4. /\ req' \in [Requisicoes -> Requisicao] /\ req'[p].pc = "livre"
      /\ \A q \in Requisicoes \ {p} : req'[q] = req[q]
      /\ tokens' \in [Tokens -> Token] /\ tokens'[t] = k
      /\ \A u \in Tokens \ {t} : tokens'[u] = tokens[u]
  BY <1>3, ParadaT DEF TInv, TokensType
<1>5. TokensType' /\ t \notin revogados
  BY <1>3, <1>4 DEF TInv, TokensType, CreateRefreshToken, Vivo
<1>6. ASSUME Limpo'
      PROVE  Carimbos' /\ Revogados' /\ Atrasados'
  <2>1. Limpo /\ Carimbos /\ Revogados /\ Atrasados
    BY <1>3, <1>6 DEF Limpo, TInv
  <2>3. e < epoca.v => Expirando \/ epoca.resta = Ttl
    BY <1>1, <1>3, <2>1 DEF Atrasados
  <2>4. e <= epoca.v
    BY <1>1, <1>3, <2>1 DEF Carimbos
  <2>5. Expirando => Expirando'
    BY <1>3, <1>4 DEF Expirando
  <2>6. Carimbos'
    BY <1>3, <1>4, <2>1, <2>4 DEF Carimbos, Vivo
  <2>7. Revogados'
    <3> SUFFICES ASSUME NEW u \in revogados', Vivo(u)'
                 PROVE  /\ tokens'[u].epoca < epoca'.v
                        /\ Expirando' \/ epoca'.resta >= tokens'[u].resta
      BY DEF Revogados
    <3>1. CASE u = t
      BY <3>1, <1>3, <1>4, <1>5, <2>3, <2>5, TConsts
    <3>2. CASE u # t
      <4>1. u \in revogados /\ u \in Tokens /\ tokens'[u] = tokens[u]
        BY <3>2, <1>3, <1>4 DEF TInv, TokensType
      <4> QED BY <4>1, <1>3, <2>1, <2>5 DEF Revogados, Vivo
    <3> QED BY <3>1, <3>2
  <2>8. Atrasados'
    BY <1>3, <1>4, <2>1, <2>5 DEF Atrasados
  <2> QED BY <2>6, <2>7, <2>8
<1> QED BY <1>5, <1>6 DEF TInv

LEMMA RevokeT ==
  ASSUME TInv, NEW p \in Requisicoes, RevokeAll(p)
  PROVE  TInv'
<1>1. PICK r : r = [pc |-> "expirar", token |-> SemToken, epoca |-> 0]
  OBVIOUS
<1>2. /\ r \in Requisicao /\ r.pc = "expirar" /\ req' = [req EXCEPT ![p] = r]
      /\ req[p].pc = "livre" /\ UNCHANGED <<tokens, cortada, esquecida>>
      /\ epoca' = [epoca EXCEPT !.v = epoca.v + 1]
      /\ revogados' = revogados \cup Guardados
  BY <1>1 DEF RevokeAll, Entra, Requisicao
<1>3. /\ req' \in [Requisicoes -> Requisicao] /\ req'[p] = r
      /\ \A q \in Requisicoes \ {p} : req'[q] = req[q]
      /\ epoca' \in [v: Nat, resta: 0..Ttl] /\ epoca'.v = epoca.v + 1
  BY <1>2 DEF TInv, TokensType
<1>4. Expirando'
  BY <1>2, <1>3 DEF Expirando
<1>5. TokensType'
  BY <1>2, <1>3, TFields DEF TInv, TokensType, Vivo, Guardados
<1>6. ASSUME Limpo'
      PROVE  Carimbos' /\ Revogados' /\ Atrasados'
  <2>1. Limpo /\ Carimbos /\ Revogados
    BY <1>2, <1>6 DEF Limpo, TInv
  <2>2. Carimbos'
    BY <1>2, <1>3, <2>1, TFields DEF Carimbos, Vivo
  <2>3. \A t \in Tokens : Vivo(t) => tokens[t].epoca < epoca'.v
    BY <1>3, <2>1, TFields DEF Carimbos
  <2>4. revogados' \subseteq Tokens
    BY <1>5 DEF TokensType
  <2>5. Revogados'
    BY <1>2, <1>4, <2>3, <2>4 DEF Revogados, Vivo
  <2> QED BY <1>4, <2>2, <2>5 DEF Atrasados
<1> QED BY <1>5, <1>6 DEF TInv

LEMMA ExpireT ==
  ASSUME TInv, NEW p \in Requisicoes, ExpireEpoch(p)
  PROVE  TInv'
<1>1. PICK r : r = [req[p] EXCEPT !.pc = "varrer"]
  OBVIOUS
<1>2. /\ r \in Requisicao /\ r.pc = "varrer" /\ req' = [req EXCEPT ![p] = r]
      /\ UNCHANGED <<tokens, revogados, cortada, esquecida>>
      /\ epoca' = [epoca EXCEPT !.resta = Ttl]
  BY <1>1, TFields DEF ExpireEpoch, Vai, Requisicao, TInv, TokensType
<1>3. /\ req' \in [Requisicoes -> Requisicao] /\ req'[p] = r
      /\ \A q \in Requisicoes \ {p} : req'[q] = req[q]
      /\ epoca' \in [v: Nat, resta: 0..Ttl] /\ epoca'.v = epoca.v /\ epoca'.resta = Ttl
  BY <1>2, TConsts DEF TInv, TokensType
<1>4. TokensType'
  BY <1>2, <1>3 DEF TInv, TokensType, Vivo
<1>5. ASSUME Limpo'
      PROVE  Carimbos' /\ Revogados' /\ Atrasados'
  <2>1. Limpo /\ Carimbos /\ Revogados
    BY <1>2, <1>5 DEF Limpo, TInv
  <2>2. Carimbos'
    BY <1>2, <1>3, <2>1 DEF Carimbos, Vivo
  <2>3. \A t \in revogados : t \in Tokens /\ tokens[t].resta <= Ttl
    BY TFields, TConsts DEF TInv, TokensType
  <2>4. Revogados'
    BY <1>2, <1>3, <2>1, <2>3, TFields, TConsts DEF Revogados, Vivo
  <2>5. Atrasados'
    BY <1>3 DEF Atrasados
  <2> QED BY <2>2, <2>4, <2>5
<1> QED BY <1>4, <1>5 DEF TInv

(* Time passes between requests: a key that is revoked goes first.         *)
LEMMA TempoT ==
  ASSUME TInv, Tempo
  PROVE  TInv'
<1>1. /\ \A p \in Requisicoes : req[p].pc = "livre"
      /\ UNCHANGED <<req, revogados, cortada>>
      /\ esquecida' = (esquecida \/ (epoca.resta = 1 /\
           \E t \in Tokens : tokens[t].resta > 1 /\ tokens[t].epoca > 0))
      /\ epoca' = [v |-> IF epoca.resta = 1 THEN 0 ELSE epoca.v,
                   resta |-> Menos(epoca.resta)]
      /\ tokens' = [t \in Tokens |-> [tokens[t] EXCEPT !.resta = Menos(tokens[t].resta)]]
  BY DEF Tempo
<1>2. \A n \in 0..Ttl : Menos(n) \in 0..Ttl /\ Menos(n) = IF n = 0 THEN 0 ELSE n - 1
  BY TConsts DEF Menos
<1>3. ASSUME NEW t \in Tokens
      PROVE  /\ tokens'[t] \in Token /\ tokens'[t].epoca = tokens[t].epoca
             /\ tokens'[t].visto = tokens[t].visto
             /\ tokens'[t].resta = IF tokens[t].resta = 0 THEN 0 ELSE tokens[t].resta - 1
  BY <1>1, <1>2, TFields DEF Token
<1>4. /\ epoca' \in [v: Nat, resta: 0..Ttl]
      /\ epoca'.v = IF epoca.resta = 1 THEN 0 ELSE epoca.v
      /\ epoca'.resta = IF epoca.resta = 0 THEN 0 ELSE epoca.resta - 1
  BY <1>1, <1>2, TFields
<1>5. tokens' \in [Tokens -> Token]
  BY <1>1, <1>3
<1>6. TokensType'
  BY <1>1, <1>3, <1>4, <1>5, TFields, SMTT(30) DEF TInv, TokensType, Vivo
<1>7. ASSUME Limpo'
      PROVE  Carimbos' /\ Revogados' /\ Atrasados'
  <2>a. /\ Limpo
        /\ ~(epoca.resta = 1 /\
              \E t \in Tokens : tokens[t].resta > 1 /\ tokens[t].epoca > 0)
    BY <1>1, <1>7, Zenon DEF Limpo
  <2>b. epoca.resta = 1 =>
          \A t \in Tokens : tokens[t].resta <= 1 \/ tokens[t].epoca = 0
    BY <2>a, TFields
  <2>1. Limpo /\ Carimbos /\ Revogados /\ ~Expirando
    BY <2>a, <1>1 DEF TInv, Expirando
  <2>2. Carimbos'
    <3>1. ASSUME NEW t \in Tokens, tokens'[t].resta > 0
          PROVE  tokens'[t].epoca <= epoca'.v
      BY <1>3, <1>4, <2>1, <2>b, <3>1, TFields DEF Carimbos, Vivo
    <3> QED BY <1>1, <3>1 DEF Carimbos, Vivo
  <2>3. Revogados'
    <3>1. ASSUME NEW t \in revogados, tokens'[t].resta > 0
          PROVE  tokens'[t].epoca < epoca'.v /\ epoca'.resta >= tokens'[t].resta
      <4>1. t \in Tokens
        BY DEF TInv, TokensType
      <4>2. tokens[t].resta > 1 /\ tokens'[t].resta = tokens[t].resta - 1
        BY <1>3, <3>1, <4>1, TFields
      <4>3. tokens[t].epoca < epoca.v /\ epoca.resta >= tokens[t].resta
        BY <2>1, <4>1, <4>2, TFields DEF Revogados, Vivo
      <4> QED BY <1>3, <1>4, <4>1, <4>2, <4>3, TFields
    <3> QED BY <1>1, <3>1 DEF Revogados, Vivo
  <2>4. Atrasados'
    BY <1>1 DEF Atrasados
  <2> QED BY <2>2, <2>3, <2>4
<1> QED BY <1>6, <1>7 DEF TInv

LEMMA ApagaT ==
  ASSUME TInv, NEW ts \in SUBSET Tokens, Apaga(ts)
  PROVE  /\ tokens' \in [Tokens -> Token]
         /\ \A t \in Tokens :
              \/ tokens'[t] = tokens[t]
              \/ tokens'[t].resta = 0 /\ tokens'[t].visto = tokens[t].visto
BY TFields, TConsts DEF Apaga, Token

LEMMA NextT == TInv /\ [SessoesNext]_sessoesVars => TInv'
<1> SUFFICES ASSUME TInv, [SessoesNext]_sessoesVars PROVE TInv'
  OBVIOUS
<1>0. tokens \in [Tokens -> Token] /\ Guardados \subseteq Tokens
  BY DEF TInv, TokensType, Guardados
<1>1. CASE UNCHANGED sessoesVars
  BY <1>1 DEF sessoesVars, TInv, TokensType, Limpo, Carimbos, Revogados, Atrasados,
     Vivo, Expirando
<1>2. ASSUME NEW p \in Requisicoes,
             \/ IssueTokens(p) \/ ReadEpoch(p) \/ RevokeOld(p)
             \/ ScanDelete(p) \/ Interrompe(p) \/ IncrFails(p) \/ ExpireFails(p)
             \/ \E t \in Tokens : RefreshTokens(p, t)
      PROVE  TInv'
  <2>0. req[p] \in Requisicao /\ epoca.v \in Nat /\ req \in [Requisicoes -> Requisicao]
    BY TFields DEF TInv, TokensType
  <2>1. CASE IssueTokens(p)
    <3>1. PICK r : r = [pc |-> "ler", token |-> SemToken, epoca |-> 0]
      OBVIOUS
    <3> QED BY <2>1, <3>1, <1>0, SegueT DEF IssueTokens, Entra, Requisicao
  <2>2. CASE \E t \in Tokens : RefreshTokens(p, t)
    <3>1. PICK t \in Tokens : RefreshTokens(p, t)
      BY <2>2
    <3>2. PICK r : r = [pc |-> "trocar", token |-> t, epoca |-> 0]
      OBVIOUS
    <3> QED BY <3>1, <3>2, <1>0, SegueT DEF RefreshTokens, Entra, Requisicao
  <2>3. CASE ReadEpoch(p)
    <3>1. PICK r : r = [req[p] EXCEPT !.pc = "gravar", !.epoca = epoca.v]
      OBVIOUS
    <3>2. r \in Requisicao /\ r.epoca = epoca.v /\ req' = [req EXCEPT ![p] = r]
      BY <2>0, <2>3, <3>1 DEF ReadEpoch, Requisicao
    <3> QED BY <2>3, <3>2, <1>0, SegueT DEF ReadEpoch
  <2>4. CASE RevokeOld(p)
    <3>1. PICK r : r = [req[p] EXCEPT !.pc = "ler"]
      OBVIOUS
    <3>2. /\ r \in Requisicao /\ r.pc = "ler" /\ req' = [req EXCEPT ![p] = r]
          /\ req[p].pc = "trocar" /\ UNCHANGED <<epoca, revogados, cortada, esquecida>>
      BY <2>0, <2>4, <3>1 DEF RevokeOld, Vai, Requisicao
    <3>3. CASE UNCHANGED tokens
      BY <3>2, <3>3, <1>0, SegueT
    <3>4. CASE Apaga({req[p].token})
      <4>1. PICK ts : ts = {req[p].token} \cap Tokens
        OBVIOUS
      <4>2. Apaga(ts)
        BY <3>4, <4>1 DEF Apaga
      <4> QED BY <3>2, <4>1, <4>2, ApagaT, SegueT
    <3> QED BY <2>4, <3>3, <3>4 DEF RevokeOld
  <2>5. CASE ScanDelete(p)
    <3>1. PICK ts \in SUBSET Guardados : Apaga(ts)
      BY <2>5 DEF ScanDelete
    <3>2. /\ req' = [req EXCEPT ![p] = Parada] /\ req[p].pc = "varrer"
          /\ UNCHANGED <<epoca, revogados, cortada, esquecida>>
      BY <2>5 DEF ScanDelete, Sai
    <3> QED BY <3>1, <3>2, <1>0, ParadaT, ApagaT, SegueT
  <2>6. CASE Interrompe(p)
    <3>1. /\ req' = [req EXCEPT ![p] = Parada]
          /\ UNCHANGED <<epoca, tokens, revogados, esquecida>>
          /\ cortada => cortada'
          /\ req[p].pc # "expirar" \/ cortada'
      BY <2>6 DEF Interrompe, Sai
    <3> QED BY <3>1, <1>0, ParadaT, SegueT
  <2>7. CASE IncrFails(p)
    <3>1. PICK r : r = [pc |-> "varrer", token |-> SemToken, epoca |-> 0]
      OBVIOUS
    <3> QED BY <2>7, <3>1, <1>0, SegueT DEF IncrFails, Entra, Requisicao
  <2>8. CASE ExpireFails(p)
    <3>1. PICK r : r = [req[p] EXCEPT !.pc = "varrer"]
      OBVIOUS
    <3>2. /\ r \in Requisicao /\ r.pc = "varrer" /\ req' = [req EXCEPT ![p] = r]
          /\ cortada' /\ UNCHANGED <<epoca, tokens, revogados, esquecida>>
      BY <2>0, <2>8, <3>1 DEF ExpireFails, Vai, Requisicao
    <3> QED BY <3>2, <1>0, SegueT
  <2> QED BY <1>2, <2>1, <2>2, <2>3, <2>4, <2>5, <2>6, <2>7, <2>8
<1>3. ASSUME NEW t \in Tokens, Logout(t)
      PROVE  TInv'
  <2>1. /\ Apaga({t}) /\ UNCHANGED <<epoca, req, revogados, cortada, esquecida>>
    BY <1>3 DEF Logout
  <2>2. /\ tokens' \in [Tokens -> Token]
        /\ \A u \in Tokens : \/ tokens'[u] = tokens[u]
                             \/ tokens'[u].resta = 0 /\ tokens'[u].visto = tokens[u].visto
    BY <2>1, ApagaT
  <2> QED BY <2>1, <2>2, TFields DEF TInv, TokensType, Limpo, Carimbos, Revogados,
             Atrasados, Vivo, Expirando
<1> QED BY <1>1, <1>2, <1>3, CreateT, RevokeT, ExpireT, TempoT DEF SessoesNext

(* A token a revocation of all sessions has caught is not accepted again,  *)
(* whichever requests and lost deletions overlap, unless the revocation    *)
(* broke off before EXPIRE or an older epoch expired before its tokens     *)
(* (refresh_tokens.py:39, :106).                                           *)
THEOREM RevokedIsRefused == SessoesSpec => []RevogadoNaoVale
<1>1. TInv => RevogadoNaoVale
  <2> SUFFICES ASSUME TInv, ~cortada, ~esquecida, NEW t \in revogados, Valido(t)
               PROVE  FALSE
    BY DEF RevogadoNaoVale
  <2>1. t \in Tokens /\ Vivo(t)
    BY TFields DEF Valido, Vivo, TInv, TokensType
  <2> QED BY <2>1, TFields DEF TInv, Limpo, Revogados, Valido
<1> QED BY <1>1, TInit, NextT, PTL DEF SessoesSpec
-----------------------------------------------------------------------------
(* Rate limits.  Requests are let in one at a time, each below the limit,  *)
(* and there are never more inside than there are; a counted failure moves *)
(* one from the requests inside to the counter.                            *)

LimitesInv == LimitesTypeOK /\ LimiteExcedido /\ ContadorTemPrazo

LEMMA LimitesConsts ==
  /\ MaxFalhas \in Nat /\ MaxFalhas > 0 /\ Janela \in Nat /\ Janela > 0
  /\ IsFiniteSet(Tentantes) /\ Cardinality(Tentantes) \in Nat
BY LimitesConstants, FS_CardinalityType

LEMMA EntraramFinito ==
  /\ IsFiniteSet(Entraram) /\ Cardinality(Entraram) \in Nat
  /\ Cardinality(Entraram) <= Cardinality(Tentantes)
<1>1. Entraram \subseteq Tentantes
  BY DEF Entraram
<1> QED BY <1>1, LimitesConsts, FS_Subset, FS_CardinalityType

LEMMA EntraramFinitoDepois ==
  /\ IsFiniteSet(Entraram') /\ Cardinality(Entraram') \in Nat
  /\ Cardinality(Entraram') <= Cardinality(Tentantes)
<1>1. Entraram' \subseteq Tentantes
  BY DEF Entraram
<1> QED BY <1>1, LimitesConsts, FS_Subset, FS_CardinalityType

(* A request that leaves makes room for one failure.                       *)
LEMMA Saida ==
  ASSUME LimitesInv, NEW p \in Tentantes, tentante[p] = "dentro",
         NEW pc \in {"fora", "marcar"}, Leva(p, pc),
         semRedis' = semRedis, tentativas' \in 0..tentativas + 1
  PROVE  LimiteExcedido'
<1>1. p \in Entraram /\ Entraram' = Entraram \ {p}
  BY DEF Entraram, Leva, LimitesInv, LimitesTypeOK
<1>2. Cardinality(Entraram') = Cardinality(Entraram) - 1
  BY <1>1, EntraramFinito, FS_RemoveElement
<1> DEFINE antes == Cardinality(Entraram)  depois == Cardinality(Entraram')
           todos == Cardinality(Tentantes)
<1>3. /\ antes \in Nat /\ depois = antes - 1 /\ todos \in Nat
      /\ semRedis = 0 => tentativas + antes <= MaxFalhas - 1 + todos
      /\ tentativas \in Nat
  BY <1>2, EntraramFinito, LimitesConsts
     DEF LimitesInv, LimitesTypeOK, LimiteExcedido
<1> HIDE DEF antes, depois, todos
<1>4. semRedis' = 0 => tentativas' + depois <= MaxFalhas - 1 + todos
  <2>1. \A a, b, c, d, m \in Nat :
          a + b <= m - 1 + c /\ d <= a + 1 => d + (b - 1) <= m - 1 + c
    OBVIOUS
  <2>2. tentativas' \in Nat /\ tentativas' <= tentativas + 1
    BY <1>3
  <2> QED BY <1>3, <2>1, <2>2, LimitesConsts
<1> QED BY <1>4 DEF LimiteExcedido, antes, depois, todos

LEMMA LimitesStep == LimitesInv /\ [LimitesNext]_limitesVars => LimitesInv'
<1> SUFFICES ASSUME LimitesInv, [LimitesNext]_limitesVars PROVE LimitesInv'
  OBVIOUS
<1> USE LimitesConsts
<1>1. /\ tentativas \in Nat /\ prazo \in 0..Janela /\ semRedis \in Nat
      /\ orfa \in BOOLEAN
      /\ tentante \in [Tentantes -> {"fora", "dentro", "marcar"}]
      /\ LimiteExcedido /\ ContadorTemPrazo
  BY DEF LimitesInv, LimitesTypeOK
<1>2. ASSUME NEW p \in Tentantes, AssertNotBlocked(p) PROVE LimitesInv'
  <2>1. LimitesTypeOK'
    BY <1>1, <1>2 DEF AssertNotBlocked, Leva, LimitesTypeOK
  <2>2. LimiteExcedido'
    <3>1. tentativas' <= MaxFalhas - 1 /\ tentativas' \in Nat
      BY <1>1, <1>2 DEF AssertNotBlocked, Leva
    <3>2. \A a, b, c \in Nat : a <= MaxFalhas - 1 /\ b <= c
                                 => a + b <= MaxFalhas - 1 + c
      OBVIOUS
    <3> QED BY <3>1, <3>2, EntraramFinitoDepois DEF LimiteExcedido
  <2>3. ContadorTemPrazo'
    BY <1>1, <1>2 DEF AssertNotBlocked, Leva, ContadorTemPrazo
  <2> QED BY <2>1, <2>2, <2>3 DEF LimitesInv
<1>3. ASSUME NEW p \in Tentantes, FailOpen(p) PROVE LimitesInv'
  BY <1>1, <1>3
     DEF FailOpen, Leva, Some, LimitesInv, LimitesTypeOK, LimiteExcedido, ContadorTemPrazo
<1>4. ASSUME NEW p \in Tentantes, RecordFailure(p) PROVE LimitesInv'
  <2>1. LimitesTypeOK'
    BY <1>1, <1>4 DEF RecordFailure, Leva, LimitesTypeOK
  <2>2. LimiteExcedido'
    <3>1. PICK pc \in {"fora", "marcar"} : Leva(p, pc)
      BY <1>4 DEF RecordFailure
    <3> QED BY <1>1, <1>4, <3>1, Saida DEF RecordFailure
  <2>3. ContadorTemPrazo'
    <3>1. CASE tentativas = 0
      BY <1>1, <1>4, <3>1 DEF RecordFailure, Leva, ContadorTemPrazo
    <3>2. CASE tentativas > 0 /\ prazo = 0 /\ ~orfa
      <4>1. PICK q \in Tentantes : tentante[q] = "marcar"
        BY <1>1, <3>2 DEF ContadorTemPrazo
      <4>2. tentante'[q] = "marcar"
        BY <1>1, <1>4, <4>1 DEF RecordFailure, Leva
      <4> QED BY <4>2 DEF ContadorTemPrazo
    <3>3. CASE prazo # 0 \/ orfa
      BY <1>4, <3>3 DEF RecordFailure, ContadorTemPrazo
    <3> QED BY <1>1, <3>1, <3>2, <3>3
  <2> QED BY <2>1, <2>2, <2>3 DEF LimitesInv
<1>5. ASSUME NEW p \in Tentantes, Expire(p) PROVE LimitesInv'
  <2>1. LimitesTypeOK'
    BY <1>1, <1>5 DEF Expire, Leva, LimitesTypeOK
  <2>2. Entraram' = Entraram
    BY <1>1, <1>5 DEF Expire, Leva, Entraram
  <2>3. LimiteExcedido'
    BY <1>1, <1>5, <2>2 DEF Expire, Leva, LimiteExcedido
  <2>4. ContadorTemPrazo'
    BY <1>1, <1>5 DEF Expire, Leva, ContadorTemPrazo
  <2> QED BY <2>1, <2>3, <2>4 DEF LimitesInv
<1>6. ASSUME NEW p \in Tentantes, ClearAttempts(p) PROVE LimitesInv'
  <2>1. LimitesTypeOK' /\ ContadorTemPrazo'
    BY <1>1, <1>6 DEF ClearAttempts, Leva, LimitesTypeOK, ContadorTemPrazo
  <2>2. LimiteExcedido'
    BY <1>1, <1>6, Saida DEF ClearAttempts
  <2> QED BY <2>1, <2>2 DEF LimitesInv
<1>7. ASSUME NEW p \in Tentantes, Sucesso(p) PROVE LimitesInv'
  <2>1. LimitesTypeOK'
    BY <1>1, <1>7 DEF Sucesso, Leva, LimitesTypeOK
  <2>2. LimiteExcedido'
    BY <1>1, <1>7, Saida DEF Sucesso
  <2>3. \A q \in Tentantes : tentante[q] = "marcar" => tentante'[q] = "marcar"
    BY <1>1, <1>7 DEF Sucesso, Leva
  <2>4. ContadorTemPrazo'
    BY <1>1, <1>7, <2>3 DEF Sucesso, Leva, ContadorTemPrazo
  <2> QED BY <2>1, <2>2, <2>4 DEF LimitesInv
<1>8. ASSUME NEW p \in Tentantes, PerdeConta(p) PROVE LimitesInv'
  <2>1. LimitesTypeOK' /\ LimiteExcedido'
    BY <1>1, <1>8 DEF PerdeConta, Leva, Some, LimitesTypeOK, LimiteExcedido
  <2>2. \A q \in Tentantes : tentante[q] = "marcar" =>
          tentante'[q] = "marcar" \/ orfa'
    BY <1>1, <1>8 DEF PerdeConta, Leva
  <2>3. ContadorTemPrazo'
    BY <1>1, <1>8, <2>2 DEF PerdeConta, Leva, ContadorTemPrazo
  <2> QED BY <2>1, <2>3 DEF LimitesInv
<1>9. CASE PassaTempo
  <2>1. LimitesTypeOK' /\ ContadorTemPrazo'
    BY <1>1, <1>9 DEF PassaTempo, LimitesTypeOK, ContadorTemPrazo
  <2>2. Entraram' = Entraram /\ tentativas' \in 0..tentativas
    BY <1>1, <1>9 DEF PassaTempo, Entraram
  <2>3. LimiteExcedido'
    <3> DEFINE dentro == Cardinality(Entraram)  todos == Cardinality(Tentantes)
    <3>1. /\ dentro \in Nat /\ todos \in Nat
          /\ semRedis = 0 => tentativas + dentro <= MaxFalhas - 1 + todos
      BY <1>1, EntraramFinito DEF LimiteExcedido
    <3> HIDE DEF dentro, todos
    <3>2. semRedis' = 0 => tentativas' + dentro <= MaxFalhas - 1 + todos
      BY <1>1, <1>9, <2>2, <3>1 DEF PassaTempo
    <3> QED BY <2>2, <3>2 DEF LimiteExcedido, dentro, todos
  <2> QED BY <2>1, <2>3 DEF LimitesInv
<1>10. CASE UNCHANGED limitesVars
  BY <1>1, <1>10 DEF limitesVars, LimitesInv, LimitesTypeOK, LimiteExcedido,
     ContadorTemPrazo, Entraram
<1> QED BY <1>2, <1>3, <1>4, <1>5, <1>6, <1>7, <1>8, <1>9, <1>10
       DEF LimitesNext, Termina_

LEMMA LimitesStart == LimitesInit => LimitesInv
<1> SUFFICES ASSUME LimitesInit PROVE LimitesInv
  OBVIOUS
<1>1. 0 \in 0..Janela
  BY LimitesConsts
<1>2. LimitesTypeOK /\ ContadorTemPrazo
  <2>1. /\ tentativas \in Nat /\ semRedis \in Nat /\ orfa \in BOOLEAN
        /\ tentante \in [Tentantes -> {"fora", "dentro", "marcar"}]
    BY DEF LimitesInit
  <2>2. prazo \in 0..Janela /\ ~(tentativas > 0)
    BY <1>1 DEF LimitesInit
  <2> QED BY <2>1, <2>2 DEF LimitesTypeOK, ContadorTemPrazo
<1>3. LimiteExcedido
  <2>1. \A b, c \in Nat : b <= c => 0 + b <= MaxFalhas - 1 + c
    BY LimitesConsts
  <2> QED BY <2>1, LimitesConsts, EntraramFinito DEF LimitesInit, LimiteExcedido
<1> QED BY <1>2, <1>3 DEF LimitesInv

LEMMA LimitesInductive == LimitesSpec => []LimitesInv
BY LimitesStart, LimitesStep, PTL DEF LimitesSpec

(* However many requests check the counter before any of them counts, the  *)
(* limit is passed by less than there are requests, while Redis answers.   *)
THEOREM LimitHolds == LimitesSpec => []LimiteExcedido
<1>1. LimitesInv => LimiteExcedido
  BY DEF LimitesInv
<1> QED BY <1>1, LimitesInductive, PTL

(* A counter without an expiry has a request about to set it, or had one   *)
(* that died: failures, successes and the end of the window overlap.       *)
THEOREM CountersExpire == LimitesSpec => []ContadorTemPrazo
<1>1. LimitesInv => ContadorTemPrazo
  BY DEF LimitesInv
<1> QED BY <1>1, LimitesInductive, PTL
-----------------------------------------------------------------------------
(* Rows and what they refer to.  A request checks, and writes later: what  *)
(* it checked was a row of its operacao, rows never change theirs, and     *)
(* only what is still there is written as a reference.                     *)

(* What session record r waits to write, of rows L.                        *)
Pendente(r, L) ==
  /\ r.pc \in {"inserir", "gravar", "excluir"} => r.alvo \in Linhas
  /\ r.pc = "inserir" => L[r.alvo].st = "nenhuma"
                         /\ \A q \in r.poe : L[q].st # "nenhuma" /\ L[q].op = r.escopo
  /\ r.pc = "gravar" => L[r.alvo].st # "nenhuma"
                        /\ \A q \in r.poe : L[q].st # "nenhuma" /\ L[q].op = L[r.alvo].op
  /\ r.pc = "excluir" => L[r.alvo].st # "nenhuma"

(* What is to be inserted nobody else inserts.                             *)
Reservadas ==
  \A s, t \in SessoesEscopo :
    es[s].pc = "inserir" /\ es[t].pc = "inserir" /\ es[s].alvo = es[t].alvo => s = t

EscopoTipos ==
  /\ usuarios \in [Usuarios -> Usuario]
  /\ linhas \in [Linhas -> Linha_]
  /\ es \in [SessoesEscopo -> Pedido]

EscopoInv ==
  /\ EscopoTipos
  /\ \A s \in SessoesEscopo : Pendente(es[s], linhas)
  /\ Reservadas
  /\ RelacaoNaOperacao

LEMMA EscopoFatos ==
  ASSUME EscopoInv
  PROVE  /\ usuarios \in [Usuarios -> Usuario] /\ linhas \in [Linhas -> Linha_]
         /\ es \in [SessoesEscopo -> Pedido]
         /\ \A i \in Linhas : linhas[i] \in Linha_ /\ linhas[i].refs \subseteq Linhas
         /\ \A s \in SessoesEscopo :
              es[s] \in Pedido /\ es[s].poe \subseteq Linhas /\ Pendente(es[s], linhas)
BY DEF EscopoInv, EscopoTipos, Linha_, Pedido

LEMMA ParadoType ==
  /\ Parado \in Pedido /\ Parado.pc = "livre" /\ Parado.poe = {}
  /\ \A L : Pendente(Parado, L)
BY EscopoConstants DEF Parado, Pedido, Pendente

(* Session s takes on r; no row changes.                                   *)
LEMMA Assume ==
  ASSUME EscopoInv, NEW s \in SessoesEscopo, NEW r \in Pedido,
         es' = [es EXCEPT ![s] = r], Pendente(r, linhas),
         r.pc = "inserir" => \A t \in SessoesEscopo : es[t].alvo # r.alvo,
         linhas' = linhas, usuarios' = usuarios
  PROVE  EscopoInv'
<1>1. es' \in [SessoesEscopo -> Pedido] /\ es'[s] = r
      /\ \A t \in SessoesEscopo \ {s} : es'[t] = es[t]
  BY EscopoFatos
<1>2. EscopoTipos'
  BY <1>1, EscopoFatos DEF EscopoTipos
<1>3. \A t \in SessoesEscopo : Pendente(es'[t], linhas')
  BY <1>1, EscopoFatos
<1>4. Reservadas'
  <2> SUFFICES ASSUME NEW t \in SessoesEscopo, NEW u \in SessoesEscopo,
                      es'[t].pc = "inserir", es'[u].pc = "inserir",
                      es'[t].alvo = es'[u].alvo
               PROVE  t = u
    BY DEF Reservadas
  <2>1. CASE t # s /\ u # s
    BY <1>1, <2>1 DEF EscopoInv, Reservadas
  <2>2. CASE t = s /\ u # s
    BY <1>1, <2>2
  <2>3. CASE u = s /\ t # s
    BY <1>1, <2>3
  <2> QED BY <2>1, <2>2, <2>3
<1>5. RelacaoNaOperacao'
  BY DEF EscopoInv, RelacaoNaOperacao, Viva
<1> QED BY <1>2, <1>3, <1>4, <1>5 DEF EscopoInv

(* Session s has written and is done; nothing but the row it inserts comes *)
(* to be, and no row changes its operacao.                                 *)
LEMMA Escreveu ==
  ASSUME EscopoInv, NEW s \in SessoesEscopo, es[s].alvo \in Linhas,
         es' = [es EXCEPT ![s] = Parado], usuarios' = usuarios,
         linhas' \in [Linhas -> Linha_],
         \A i \in Linhas : linhas[i].st # "nenhuma" =>
           linhas'[i].st # "nenhuma" /\ linhas'[i].op = linhas[i].op,
         \A i \in Linhas : linhas[i].st = "nenhuma" /\ linhas'[i].st # "nenhuma" =>
           es[s].pc = "inserir" /\ i = es[s].alvo,
         RelacaoNaOperacao'
  PROVE  EscopoInv'
<1>1. es' \in [SessoesEscopo -> Pedido] /\ es'[s] = Parado
      /\ \A t \in SessoesEscopo \ {s} : es'[t] = es[t]
  BY EscopoFatos, ParadoType
<1>2. EscopoTipos'
  BY <1>1, EscopoFatos DEF EscopoTipos
<1>3. ASSUME NEW t \in SessoesEscopo \ {s} PROVE Pendente(es[t], linhas')
  <2>1. Pendente(es[t], linhas) /\ es[t].poe \subseteq Linhas
    BY EscopoFatos
  <2>2. es[t].pc = "inserir" => ~(es[s].pc = "inserir" /\ es[t].alvo = es[s].alvo)
    BY DEF EscopoInv, Reservadas
  <2> QED BY <2>1, <2>2 DEF Pendente
<1>4. \A t \in SessoesEscopo : Pendente(es'[t], linhas')
  BY <1>1, <1>3, ParadoType
<1>5. Reservadas'
  BY <1>1, ParadoType DEF EscopoInv, Reservadas
<1> QED BY <1>2, <1>4, <1>5 DEF EscopoInv

LEMMA CommitInsertInv ==
  ASSUME EscopoInv, NEW s \in SessoesEscopo, CommitInsert(s)
  PROVE  EscopoInv'
<1> DEFINE r == es[s]
           i == r.alvo
           nova == [st |-> "viva", op |-> r.escopo, refs |-> r.poe]
<1>1. /\ r.pc = "inserir" /\ \A q \in r.poe : linhas[q].st = "viva"
      /\ linhas' = [linhas EXCEPT ![i] = nova]
      /\ es' = [es EXCEPT ![s] = Parado] /\ usuarios' = usuarios
  BY DEF CommitInsert, Fecha, Viva, contas
<1>2. /\ i \in Linhas /\ linhas[i].st = "nenhuma" /\ r.poe \subseteq Linhas
      /\ \A q \in r.poe : linhas[q].op = r.escopo
      /\ r.escopo \in Operacoes \cup {SemOperacao}
  BY <1>1, EscopoFatos DEF Pendente, Pedido
<1>3. nova \in Linha_ /\ nova.st = "viva" /\ nova.op = r.escopo /\ nova.refs = r.poe
  BY <1>2 DEF Linha_
<1> HIDE DEF nova
<1>4. linhas' \in [Linhas -> Linha_] /\ linhas'[i] = nova
      /\ \A j \in Linhas \ {i} : linhas'[j] = linhas[j]
  BY <1>1, <1>2, <1>3, EscopoFatos
<1>5. RelacaoNaOperacao'
  <2> SUFFICES ASSUME NEW j \in Linhas, linhas'[j].st = "viva", NEW q \in linhas'[j].refs
               PROVE  linhas'[q].st = "viva" /\ linhas'[q].op = linhas'[j].op
    BY DEF RelacaoNaOperacao, Viva
  <2>1. CASE j = i
    BY <1>1, <1>2, <1>3, <1>4, <2>1
  <2>2. CASE j # i
    <3>1. q \in Linhas /\ linhas[q].st = "viva" /\ linhas[q].op = linhas[j].op
      BY <1>4, <2>2, EscopoFatos DEF EscopoInv, RelacaoNaOperacao, Viva
    <3> QED BY <1>2, <1>4, <2>2, <3>1
  <2> QED BY <2>1, <2>2
<1>6. \A j \in Linhas : linhas[j].st # "nenhuma" =>
        linhas'[j].st # "nenhuma" /\ linhas'[j].op = linhas[j].op
  BY <1>2, <1>4
<1>7. \A j \in Linhas : linhas[j].st = "nenhuma" /\ linhas'[j].st # "nenhuma" =>
        es[s].pc = "inserir" /\ j = es[s].alvo
  BY <1>1, <1>4
<1> QED BY <1>1, <1>2, <1>4, <1>5, <1>6, <1>7, Escreveu

LEMMA CommitUpdateRefsInv ==
  ASSUME EscopoInv, NEW s \in SessoesEscopo, CommitUpdate_(s)
  PROVE  EscopoInv'
<1> DEFINE r == es[s]
           i == r.alvo
           ficam == {q \in linhas[i].refs : \A n \in r.poe : TipoDe[n] # TipoDe[q]}
           nova == [linhas[i] EXCEPT !.refs = ficam \cup r.poe]
<1>1. /\ r.pc = "gravar" /\ linhas[i].st = "viva"
      /\ \A q \in r.poe : linhas[q].st = "viva"
      /\ linhas' = [linhas EXCEPT ![i] = nova]
      /\ es' = [es EXCEPT ![s] = Parado] /\ usuarios' = usuarios
  BY DEF CommitUpdate_, Fecha, Viva, contas
<1>2. /\ i \in Linhas /\ r.poe \subseteq Linhas /\ linhas[i] \in Linha_
      /\ \A q \in r.poe : linhas[q].op = linhas[i].op
      /\ ficam \subseteq linhas[i].refs /\ linhas[i].refs \subseteq Linhas
  BY <1>1, EscopoFatos DEF Pendente, Pedido
<1>3. /\ nova \in Linha_ /\ nova.st = "viva" /\ nova.op = linhas[i].op
      /\ nova.refs \subseteq linhas[i].refs \cup r.poe
  BY <1>1, <1>2 DEF Linha_
<1> HIDE DEF nova, ficam
<1>4. linhas' \in [Linhas -> Linha_] /\ linhas'[i] = nova
      /\ \A j \in Linhas \ {i} : linhas'[j] = linhas[j]
  BY <1>1, <1>2, <1>3, EscopoFatos
<1>5. \A j \in Linhas : linhas'[j].st = linhas[j].st /\ linhas'[j].op = linhas[j].op
  BY <1>1, <1>3, <1>4
<1>6. RelacaoNaOperacao'
  <2> SUFFICES ASSUME NEW j \in Linhas, linhas'[j].st = "viva", NEW q \in linhas'[j].refs
               PROVE  linhas'[q].st = "viva" /\ linhas'[q].op = linhas'[j].op
    BY DEF RelacaoNaOperacao, Viva
  <2>1. CASE q \in linhas[j].refs
    <3>1. q \in Linhas /\ linhas[q].st = "viva" /\ linhas[q].op = linhas[j].op
      BY <1>5, <2>1, EscopoFatos DEF EscopoInv, RelacaoNaOperacao, Viva
    <3> QED BY <1>5, <3>1
  <2>2. CASE q \notin linhas[j].refs
    <3>1. j = i /\ q \in r.poe
      BY <1>3, <1>4, <2>2
    <3> QED BY <1>1, <1>2, <1>5, <3>1
  <2> QED BY <2>1, <2>2
<1> QED BY <1>1, <1>2, <1>4, <1>5, <1>6, Escreveu

LEMMA CommitDeleteInv ==
  ASSUME EscopoInv, NEW s \in SessoesEscopo, CommitDelete(s)
  PROVE  EscopoInv'
<1> DEFINE i == es[s].alvo
<1>1. /\ es[s].pc = "excluir"
      /\ linhas' = [j \in Linhas |->
           IF j = i THEN [linhas[i] EXCEPT !.st = "excluida", !.refs = {}]
           ELSE [linhas[j] EXCEPT !.refs = linhas[j].refs \ {i}]]
      /\ es' = [es EXCEPT ![s] = Parado] /\ usuarios' = usuarios
  BY DEF CommitDelete, Fecha, contas
<1>2. i \in Linhas /\ linhas[i].st # "nenhuma"
  BY <1>1, EscopoFatos DEF Pendente
<1> HIDE DEF i
<1>3. ASSUME NEW j \in Linhas
      PROVE  /\ linhas'[j] \in Linha_ /\ linhas'[j].op = linhas[j].op
             /\ j = i => linhas'[j].st = "excluida"
             /\ j # i => linhas'[j].st = linhas[j].st
             /\ j # i => linhas'[j].refs = linhas[j].refs \ {i}
  <2>1. linhas[j] \in Linha_ /\ linhas[j].refs \subseteq Linhas
    BY EscopoFatos
  <2>2. CASE j = i
    <3>1. linhas'[j] = [linhas[j] EXCEPT !.st = "excluida", !.refs = {}]
      BY <1>1, <2>2
    <3> QED BY <2>1, <2>2, <3>1 DEF Linha_
  <2>3. CASE j # i
    <3>1. linhas'[j] = [linhas[j] EXCEPT !.refs = linhas[j].refs \ {i}]
      BY <1>1, <2>3
    <3> QED BY <2>1, <2>3, <3>1 DEF Linha_
  <2> QED BY <2>2, <2>3
<1>4. linhas' \in [Linhas -> Linha_]
  BY <1>1, <1>3
<1>5. RelacaoNaOperacao'
  <2> SUFFICES ASSUME NEW j \in Linhas, linhas'[j].st = "viva", NEW q \in linhas'[j].refs
               PROVE  linhas'[q].st = "viva" /\ linhas'[q].op = linhas'[j].op
    BY DEF RelacaoNaOperacao, Viva
  <2>1. j # i /\ linhas[j].st = "viva" /\ q \in linhas[j].refs /\ q # i
    BY <1>3
  <2>2. q \in Linhas /\ linhas[q].st = "viva" /\ linhas[q].op = linhas[j].op
    BY <2>1, EscopoFatos DEF EscopoInv, RelacaoNaOperacao, Viva
  <2> QED BY <1>3, <2>1, <2>2
<1>6. \A j \in Linhas : /\ linhas[j].st # "nenhuma" =>
                             linhas'[j].st # "nenhuma" /\ linhas'[j].op = linhas[j].op
                        /\ linhas[j].st = "nenhuma" => linhas'[j].st = "nenhuma"
  BY <1>2, <1>3
<1>7. es[s].alvo \in Linhas
  BY <1>2 DEF i
<1> QED BY <1>1, <1>4, <1>5, <1>6, <1>7, Escreveu

(* The handlers: what they check, and what they leave to be written.       *)
LEMMA CriaInv ==
  ASSUME EscopoInv, NEW s \in SessoesEscopo, NEW u \in Usuarios,
         NEW e \in Operacoes \cup {SemOperacao}, NEW i \in Linhas,
         NEW refs \in SUBSET Linhas, Cria(s, u, e, i, refs)
  PROVE  EscopoInv'
<1> DEFINE r == [Parado EXCEPT !.pc = "inserir", !.u = u, !.escopo = e,
                               !.alvo = i, !.poe = refs]
<1>1. /\ linhas[i].st = "nenhuma" /\ \A t \in SessoesEscopo : es[t].alvo # i
      /\ \A q \in refs : linhas[q].st = "viva" /\ linhas[q].op = e
      /\ es' = [es EXCEPT ![s] = r] /\ linhas' = linhas /\ usuarios' = usuarios
  BY DEF Cria, Abre, ValidaRelacoes, Viva, contas
<1>2. /\ r \in Pedido /\ r.pc = "inserir" /\ r.escopo = e /\ r.alvo = i /\ r.poe = refs
  BY EscopoConstants DEF Parado, Pedido
<1> HIDE DEF r
<1>3. Pendente(r, linhas)
  BY <1>1, <1>2 DEF Pendente
<1> QED BY <1>1, <1>2, <1>3, Assume

LEMMA EditaInv ==
  ASSUME EscopoInv, NEW s \in SessoesEscopo, NEW u \in Usuarios,
         NEW e \in Operacoes \cup {SemOperacao}, NEW i \in Linhas,
         NEW refs \in SUBSET Linhas, NEW confere \in SUBSET Linhas,
         \A q \in refs : q \in confere \/ \E k \in confere : q \in linhas[k].refs,
         Edita(s, u, e, i, refs, confere)
  PROVE  EscopoInv'
<1> DEFINE r == [Parado EXCEPT !.pc = "gravar", !.u = u, !.escopo = e,
                               !.alvo = i, !.poe = refs \ linhas[i].refs]
<1>0. \A q \in confere : linhas[q].st = "viva" /\ linhas[q].op = linhas[i].op
  BY DEF Edita, ValidaRelacoes, Viva
<1>1. /\ linhas[i].st = "viva"
      /\ \A q \in refs : linhas[q].st = "viva" /\ linhas[q].op = linhas[i].op
      /\ es' = [es EXCEPT ![s] = r] /\ linhas' = linhas /\ usuarios' = usuarios
  <2>1. \A k \in confere : \A q \in linhas[k].refs :
          linhas[q].st = "viva" /\ linhas[q].op = linhas[k].op
    BY <1>0 DEF EscopoInv, RelacaoNaOperacao, Viva
  <2>2. \A q \in refs : linhas[q].st = "viva" /\ linhas[q].op = linhas[i].op
    BY <1>0, <2>1
  <2> QED BY <2>2 DEF Edita, Abre, Alcanca, Viva, contas
<1>2. /\ r \in Pedido /\ r.pc = "gravar" /\ r.alvo = i /\ r.poe \subseteq refs
  BY EscopoConstants DEF Parado, Pedido
<1> HIDE DEF r
<1>3. Pendente(r, linhas)
  BY <1>1, <1>2 DEF Pendente
<1> QED BY <1>1, <1>2, <1>3, Assume

LEMMA ExcluiInv ==
  ASSUME EscopoInv, NEW s \in SessoesEscopo, NEW u \in Usuarios,
         NEW e \in Operacoes \cup {SemOperacao}, NEW i \in Linhas, Exclui(s, u, e, i)
  PROVE  EscopoInv'
<1> DEFINE r == [Parado EXCEPT !.pc = "excluir", !.u = u, !.escopo = e, !.alvo = i]
<1>1. /\ linhas[i].st = "viva"
      /\ es' = [es EXCEPT ![s] = r] /\ linhas' = linhas /\ usuarios' = usuarios
  BY DEF Exclui, Abre, Alcanca, Viva, contas
<1>2. /\ r \in Pedido /\ r.pc = "excluir" /\ r.alvo = i
  BY EscopoConstants DEF Parado, Pedido
<1> HIDE DEF r
<1>3. Pendente(r, linhas)
  BY <1>1, <1>2 DEF Pendente
<1> QED BY <1>1, <1>2, <1>3, Assume

LEMMA MostraInv ==
  ASSUME EscopoInv, NEW s \in SessoesEscopo, NEW u \in Usuarios,
         NEW e \in Operacoes \cup {SemOperacao}, NEW rows \in SUBSET Linhas,
         Mostra(s, u, e, rows)
  PROVE  EscopoInv'
<1> DEFINE r == [Parado EXCEPT !.u = u, !.escopo = e, !.vistas = rows]
<1>1. es' = [es EXCEPT ![s] = r] /\ linhas' = linhas /\ usuarios' = usuarios
  BY DEF Mostra, Abre, contas
<1>2. r \in Pedido /\ r.pc = "livre"
  BY EscopoConstants DEF Parado, Pedido
<1> HIDE DEF r
<1>3. Pendente(r, linhas)
  BY <1>2 DEF Pendente
<1> QED BY <1>1, <1>2, <1>3, Assume

LEMMA AtendeInv ==
  ASSUME EscopoInv, NEW s \in SessoesEscopo, NEW u \in Usuarios,
         NEW e \in Operacoes \cup {SemOperacao}, Atende(s, u, e)
  PROVE  EscopoInv'
<1>1. \A tipo : /\ Escopado(u, e, Da(tipo)) \in SUBSET Linhas
                /\ Tabela(tipo) \subseteq Linhas
  BY DEF Escopado, Da, Tabela
<1>2. ASSUME NEW i \in Linhas, CreateMoto(s, u, e, i) \/ CreateCliente(s, u, e, i)
      PROVE  EscopoInv'
  BY <1>2, CriaInv DEF CreateMoto, CreateCliente
<1>3. ASSUME NEW i \in Linhas,
             \/ DeleteMoto(s, u, e, i) \/ DeleteCliente(s, u, e, i)
             \/ DeleteContrato_(s, u, e, i) \/ DeleteMulta(s, u, e, i)
             \/ DeleteFinanceiro_(s, u, e, i) \/ DeleteManutencao_(s, u, e, i)
      PROVE  EscopoInv'
  BY <1>3, ExcluiInv DEF DeleteMoto, DeleteCliente, DeleteContrato_, DeleteMulta,
     DeleteFinanceiro_, DeleteManutencao_
<1>4. ASSUME NEW i \in Linhas, NEW refs \in SUBSET Linhas,
             \/ CreateContrato_(s, u, e, i, refs) \/ CreateFinanceiro_(s, u, e, i, refs)
             \/ CreateManutencao_(s, u, e, i, refs)
      PROVE  EscopoInv'
  BY <1>4, CriaInv DEF CreateContrato_, CreateFinanceiro_, CreateManutencao_
<1>5. ASSUME NEW i \in Linhas, NEW refs \in SUBSET Linhas, CreateMulta(s, u, e, i, refs)
      PROVE  EscopoInv'
  <2> DEFINE todas == refs \cup DoContrato(refs)
  <2>1. Cria(s, u, e, i, todas)
    BY <1>5 DEF CreateMulta
  <2>2. todas \in SUBSET Linhas
    BY DEF DoContrato
  <2> HIDE DEF todas
  <2> QED BY <2>1, <2>2, CriaInv
<1>6. ASSUME NEW i \in Linhas, NEW refs \in SUBSET Linhas,
             \/ UpdateMulta(s, u, e, i, refs) \/ UpdateFinanceiro_(s, u, e, i, refs)
             \/ UpdateManutencao(s, u, e, i, refs)
      PROVE  EscopoInv'
  <2> DEFINE efetivas == Efetivas(i, refs)
             todas    == efetivas \cup DoContrato(efetivas)
  <2>1. refs \subseteq efetivas /\ efetivas \in SUBSET Linhas
    BY EscopoFatos DEF Efetivas
  <2>2. CASE UpdateManutencao(s, u, e, i, refs)
    BY <2>2, EditaInv DEF UpdateManutencao
  <2>3. CASE UpdateMulta(s, u, e, i, refs)
    <3>1. Edita(s, u, e, i, todas, efetivas)
      BY <2>3 DEF UpdateMulta
    <3>2. /\ todas \in SUBSET Linhas
          /\ \A q \in todas : q \in efetivas \/ \E k \in efetivas : q \in linhas[k].refs
      BY <2>1 DEF DoContrato
    <3> HIDE DEF efetivas, todas
    <3> QED BY <2>1, <3>1, <3>2, EditaInv
  <2>4. CASE UpdateFinanceiro_(s, u, e, i, refs)
    <3>1. Edita(s, u, e, i, refs, efetivas)
      BY <2>4 DEF UpdateFinanceiro_
    <3> HIDE DEF efetivas
    <3> QED BY <2>1, <3>1, EditaInv
  <2> QED BY <1>6, <2>2, <2>3, <2>4
<1>7. ASSUME NEW tipo, Mostra(s, u, e, Escopado(u, e, Da(tipo))) PROVE EscopoInv'
  BY <1>1, <1>7, MostraInv
<1>8. Relacoes \subseteq SUBSET Linhas
  BY DEF Relacoes
<1>9. CASE Motos(s, u, e) \/ Clientes(s, u, e)
  BY <1>1, <1>2, <1>3, <1>7, <1>9 DEF Motos, Clientes, ListMotos, ListClientes
<1>10. CASE Contratos_(s, u, e)
  BY <1>1, <1>3, <1>4, <1>7, <1>8, <1>10 DEF Contratos_, ListContratos
<1>11. CASE Multas(s, u, e)
  BY <1>1, <1>3, <1>5, <1>6, <1>7, <1>8, <1>11 DEF Multas, ListMultas
<1>12. CASE Financeiro(s, u, e)
  BY <1>1, <1>3, <1>4, <1>6, <1>7, <1>8, <1>12 DEF Financeiro, ListFinanceiro
<1>13. CASE Manutencoes_(s, u, e)
  BY <1>1, <1>3, <1>4, <1>6, <1>7, <1>8, <1>13 DEF Manutencoes_, ListManutencoes
<1> QED BY <1>9, <1>10, <1>11, <1>12, <1>13 DEF Atende

(* Users and their tokens: no row and no request is touched.               *)
LEMMA ContasInv ==
  ASSUME EscopoInv, UsuariosRouter \/ Acessos
  PROVE  EscopoInv'
<1>1. linhas' = linhas /\ es' = es
  BY DEF UsuariosRouter, Acessos, DeleteUsuario, CreateOperacaoUsuario,
     CreateUsuarioAdmin, NovoUsuario, Login, CreateAccessToken, Expira
<1>2. ASSUME NEW n \in Usuarios, NEW papel \in {"admin", "dono"},
             NEW op \in Operacoes \cup {SemOperacao}, NovoUsuario(n, papel, op)
      PROVE  usuarios' \in [Usuarios -> Usuario]
  <2>1. [st |-> "vivo", papel |-> papel, op |-> op] \in Usuario
    BY DEF Usuario
  <2> QED BY <1>2, <2>1, EscopoFatos DEF NovoUsuario
<1>3. usuarios' \in [Usuarios -> Usuario]
  <2>1. ASSUME NEW u \in Usuarios, NEW n \in Usuarios, DeleteUsuario(u, n)
        PROVE  usuarios' \in [Usuarios -> Usuario]
    BY <2>1, EscopoFatos DEF DeleteUsuario, Usuario
  <2>2. ASSUME NEW u \in Usuarios, NEW n \in Usuarios,
               NEW op \in Operacoes \cup {SemOperacao}, CreateOperacaoUsuario(u, n, op)
        PROVE  usuarios' \in [Usuarios -> Usuario]
    BY <1>2, <2>2 DEF CreateOperacaoUsuario
  <2>3. ASSUME NEW u \in Usuarios, NEW n \in Usuarios, NEW papel \in {"admin", "dono"},
               NEW op \in Operacoes \cup {SemOperacao}, CreateUsuarioAdmin(u, n, papel, op)
        PROVE  usuarios' \in [Usuarios -> Usuario]
    BY <1>2, <2>3 DEF CreateUsuarioAdmin
  <2>4. ASSUME Acessos PROVE usuarios' = usuarios
    BY <2>4 DEF Acessos, Login, CreateAccessToken, Expira
  <2> QED BY <2>1, <2>2, <2>3, <2>4, EscopoFatos DEF UsuariosRouter
<1> QED BY <1>1, <1>3
    DEF EscopoInv, EscopoTipos, Reservadas, RelacaoNaOperacao, Viva

LEMMA EscopoStart == EscopoInit => EscopoInv
<1> SUFFICES ASSUME EscopoInit PROVE EscopoInv
  OBVIOUS
<1>1. EscopoTipos
  <2>1. usuarios \in [Usuarios -> Usuario]
    BY DEF EscopoInit, Usuario
  <2>2. linhas \in [Linhas -> Linha_]
    BY DEF EscopoInit, Linha_
  <2>3. es \in [SessoesEscopo -> Pedido]
    BY ParadoType DEF EscopoInit
  <2> QED BY <2>1, <2>2, <2>3 DEF EscopoTipos
<1>2. \A s \in SessoesEscopo : es[s] = Parado
  BY DEF EscopoInit
<1>3. RelacaoNaOperacao
  BY DEF EscopoInit, RelacaoNaOperacao, Viva
<1> QED BY <1>1, <1>2, <1>3, ParadoType DEF EscopoInv, Reservadas

LEMMA EscopoStep == EscopoInv /\ [EscopoNext]_escopoVars => EscopoInv'
<1> SUFFICES ASSUME EscopoInv, [EscopoNext]_escopoVars PROVE EscopoInv'
  OBVIOUS
<1>1. ASSUME NEW s \in SessoesEscopo, NEW u \in Usuarios, NEW e \in ResolveOperacao(u),
             Atende(s, u, e)
      PROVE  EscopoInv'
  <2>1. e \in Operacoes \cup {SemOperacao}
    BY EscopoFatos DEF ResolveOperacao, Usuario
  <2> QED BY <1>1, <2>1, AtendeInv
<1>2. ASSUME NEW s \in SessoesEscopo,
             CommitInsert(s) \/ CommitUpdate_(s) \/ CommitDelete(s)
      PROVE  EscopoInv'
  BY <1>2, CommitInsertInv, CommitUpdateRefsInv, CommitDeleteInv
<1>3. ASSUME NEW s \in SessoesEscopo, Termina(s) PROVE EscopoInv'
  <2>1. es' = [es EXCEPT ![s] = Parado] /\ linhas' = linhas /\ usuarios' = usuarios
    BY <1>3 DEF Termina, Fecha, contas
  <2> QED BY <2>1, ParadoType, Assume
<1>4. CASE UsuariosRouter \/ Acessos
  BY <1>4, ContasInv
<1>5. CASE UNCHANGED escopoVars
  BY <1>5 DEF escopoVars, EscopoInv, EscopoTipos, Reservadas, RelacaoNaOperacao, Viva
<1> QED BY <1>1, <1>2, <1>3, <1>4, <1>5 DEF EscopoNext

(* A row refers to rows of its own operacao that exist, however long ago   *)
(* they were checked (fleet_service.py:191, multa_service.py:108,          *)
(* finance_service.py:96).                                                 *)
THEOREM RelationsStayInside == EscopoSpec => []RelacaoNaOperacao
<1>1. EscopoSpec => []EscopoInv
  BY EscopoStart, EscopoStep, PTL DEF EscopoSpec
<1>2. EscopoInv => RelacaoNaOperacao
  BY DEF EscopoInv
<1> QED BY <1>1, <1>2, PTL

-----------------------------------------------------------------------------
(* Owners keep to their operacao.  What a request is about was settled     *)
(* from its user when it was checked; users do not change sides, and what  *)
(* refers to a row is of the operacao of that row.                         *)

(* What session record r is about, of users U and rows L: its user is      *)
(* known, and an owner's request is about rows of the own operacao.        *)
DonoOK(r, U, L) ==
  LET dono == U[r.u].papel = "dono" IN
  /\ r.pc # "livre" \/ r.vistas # {} => U[r.u].st # "nenhum"
  /\ r.pc = "inserir" /\ dono => r.escopo = U[r.u].op
  /\ r.pc \in {"gravar", "excluir"} /\ dono => L[r.alvo].op = U[r.u].op
  /\ \A i \in r.vistas :
       /\ L[i].st # "nenhuma"
       /\ dono => L[i].op = U[r.u].op
       /\ U[r.u].papel = "admin" /\ r.escopo # SemOperacao => L[i].op = r.escopo

DonoInv ==
  /\ acesso \in [Usuarios -> BOOLEAN] /\ entrando \in [Usuarios -> BOOLEAN]
  /\ \A u \in Usuarios : acesso[u] \/ entrando[u] => usuarios[u].st # "nenhum"
  /\ \A i \in Linhas : linhas[i].st # "viva" => linhas[i].refs = {}
  /\ \A s \in SessoesEscopo : DonoOK(es[s], usuarios, linhas)

LEMMA DonoFatos ==
  ASSUME DonoInv
  PROVE  /\ acesso \in [Usuarios -> BOOLEAN] /\ entrando \in [Usuarios -> BOOLEAN]
         /\ \A u \in Usuarios : acesso[u] \/ entrando[u] => usuarios[u].st # "nenhum"
         /\ \A i \in Linhas : linhas[i].st # "viva" => linhas[i].refs = {}
         /\ \A s \in SessoesEscopo : DonoOK(es[s], usuarios, linhas)
BY DEF DonoInv

LEMMA ParadoDono == \A U, L : DonoOK(Parado, U, L)
BY DEF DonoOK, Parado

(* A request of session s is taken on as r.                                *)
LEMMA AssumeDono ==
  ASSUME EscopoInv, DonoInv, NEW s \in SessoesEscopo, NEW r \in Pedido,
         es' = [es EXCEPT ![s] = r], DonoOK(r, usuarios, linhas),
         linhas' = linhas, UNCHANGED contas
  PROVE  DonoInv'
<1>1. es'[s] = r /\ \A t \in SessoesEscopo \ {s} : es'[t] = es[t]
  BY EscopoFatos
<1>2. \A t \in SessoesEscopo : DonoOK(es'[t], usuarios, linhas)
  BY <1>1, DonoFatos
<1>3. usuarios' = usuarios /\ acesso' = acesso /\ entrando' = entrando
  BY DEF contas
<1> QED BY <1>2, <1>3, DonoFatos DEF DonoInv

(* Rows keep their operacao.                                               *)
LEMMA EscreveuDono ==
  ASSUME EscopoInv, DonoInv, NEW s \in SessoesEscopo,
         es' = [es EXCEPT ![s] = Parado], UNCHANGED contas,
         \A i \in Linhas : linhas[i].st # "nenhuma" =>
           linhas'[i].st # "nenhuma" /\ linhas'[i].op = linhas[i].op,
         \A i \in Linhas : linhas'[i].st # "viva" => linhas'[i].refs = {}
  PROVE  DonoInv'
<1>1. es'[s] = Parado /\ \A t \in SessoesEscopo \ {s} : es'[t] = es[t]
  BY EscopoFatos
<1>2. ASSUME NEW t \in SessoesEscopo PROVE DonoOK(es[t], usuarios, linhas')
  <2>1. DonoOK(es[t], usuarios, linhas) /\ Pendente(es[t], linhas)
        /\ es[t].vistas \subseteq Linhas
    BY DonoFatos, EscopoFatos DEF Pedido
  <2> QED BY <2>1 DEF DonoOK, Pendente
<1>3. \A t \in SessoesEscopo : DonoOK(es'[t], usuarios, linhas')
  BY <1>1, <1>2, ParadoDono
<1>4. usuarios' = usuarios /\ acesso' = acesso /\ entrando' = entrando
  BY DEF contas
<1> QED BY <1>3, <1>4, DonoFatos DEF DonoInv

LEMMA CommitDono ==
  ASSUME EscopoInv, DonoInv, NEW s \in SessoesEscopo,
         CommitInsert(s) \/ CommitUpdate_(s) \/ CommitDelete(s) \/ Termina(s)
  PROVE  DonoInv'
<1>1. es' = [es EXCEPT ![s] = Parado] /\ UNCHANGED contas
  BY DEF CommitInsert, CommitUpdate_, CommitDelete, Termina, Fecha
<1>2. Pendente(es[s], linhas)
  BY EscopoFatos
<1>3. CASE CommitInsert(s)
  <2> DEFINE i == es[s].alvo
             nova == [st |-> "viva", op |-> es[s].escopo, refs |-> es[s].poe]
  <2>1. i \in Linhas /\ linhas[i].st = "nenhuma" /\ linhas' = [linhas EXCEPT ![i] = nova]
    BY <1>2, <1>3 DEF CommitInsert, Pendente
  <2>2. linhas'[i].st = "viva" /\ \A j \in Linhas \ {i} : linhas'[j] = linhas[j]
    BY <2>1, EscopoFatos
  <2> QED BY <1>1, <2>1, <2>2, DonoFatos, EscreveuDono
<1>4. CASE CommitUpdate_(s)
  <2> DEFINE i == es[s].alvo
             nova == [linhas[i] EXCEPT !.refs =
               {q \in linhas[i].refs : \A n \in es[s].poe : TipoDe[n] # TipoDe[q]}
                 \cup es[s].poe]
  <2>1. i \in Linhas /\ linhas[i].st = "viva" /\ linhas' = [linhas EXCEPT ![i] = nova]
    BY <1>2, <1>4 DEF CommitUpdate_, Pendente, Viva
  <2>2. linhas[i] \in Linha_ /\ nova.st = "viva" /\ nova.op = linhas[i].op
    BY <2>1, EscopoFatos DEF Linha_
  <2>3. linhas'[i] = nova /\ \A j \in Linhas \ {i} : linhas'[j] = linhas[j]
    BY <2>1, EscopoFatos
  <2> HIDE DEF i, nova
  <2>4. \A j \in Linhas : linhas[j].st # "nenhuma" =>
          linhas'[j].st # "nenhuma" /\ linhas'[j].op = linhas[j].op
    BY <2>1, <2>2, <2>3
  <2>5. \A j \in Linhas : linhas'[j].st # "viva" => linhas'[j].refs = {}
    BY <2>2, <2>3, DonoFatos
  <2> QED BY <1>1, <2>4, <2>5, EscreveuDono
<1>5. CASE CommitDelete(s)
  <2> DEFINE i == es[s].alvo
  <2>1. i \in Linhas /\ linhas[i].st # "nenhuma"
        /\ linhas' = [j \in Linhas |->
             IF j = i THEN [linhas[i] EXCEPT !.st = "excluida", !.refs = {}]
             ELSE [linhas[j] EXCEPT !.refs = linhas[j].refs \ {i}]]
    BY <1>2, <1>5 DEF CommitDelete, Pendente
  <2> HIDE DEF i
  <2>2. ASSUME NEW j \in Linhas
        PROVE  /\ linhas'[j].op = linhas[j].op
               /\ linhas[j].st # "nenhuma" => linhas'[j].st # "nenhuma"
               /\ linhas'[j].st # "viva" => linhas'[j].refs = {}
    <3>1. linhas[j] \in Linha_ /\ (linhas[j].st # "viva" => linhas[j].refs = {})
      BY EscopoFatos, DonoFatos
    <3>2. CASE j = i
      <4>1. linhas'[j] = [linhas[j] EXCEPT !.st = "excluida", !.refs = {}]
        BY <2>1, <3>2
      <4> QED BY <3>1, <4>1 DEF Linha_
    <3>3. CASE j # i
      <4>1. linhas'[j] = [linhas[j] EXCEPT !.refs = linhas[j].refs \ {i}]
        BY <2>1, <3>3
      <4> QED BY <3>1, <4>1 DEF Linha_
    <3> QED BY <3>2, <3>3
  <2> QED BY <1>1, <2>2, EscreveuDono
<1>6. CASE Termina(s)
  <2>1. linhas' = linhas
    BY <1>6 DEF Termina
  <2> QED BY <1>1, <2>1, DonoFatos, EscreveuDono
<1> QED BY <1>3, <1>4, <1>5, <1>6

(* What a handler checks of an owner's request.                            *)
LEMMA AtendeDono ==
  ASSUME EscopoInv, DonoInv, NEW s \in SessoesEscopo, NEW u \in Usuarios,
         NEW e \in ResolveOperacao(u), Atende(s, u, e)
  PROVE  DonoInv'
<1>1. /\ usuarios[u].st # "nenhum"
      /\ usuarios[u].papel = "dono" => e = usuarios[u].op
      /\ e \in Operacoes \cup {SemOperacao}
      /\ usuarios[u] \in Usuario
  BY DonoFatos, EscopoFatos DEF Atende, RequireOperacional, ResolveOperacao, Usuario
<1>2. \A tipo : Tabela(tipo) \subseteq Linhas /\ Da(tipo) \subseteq Linhas
  BY DEF Da, Tabela
<1>3. Relacoes \subseteq SUBSET Linhas
  BY DEF Relacoes
<1>4. ASSUME NEW i \in Linhas, NEW refs, refs \subseteq Linhas, Cria(s, u, e, i, refs)
      PROVE  DonoInv'
  <2> DEFINE r == [Parado EXCEPT !.pc = "inserir", !.u = u, !.escopo = e,
                                 !.alvo = i, !.poe = refs]
  <2>1. es' = [es EXCEPT ![s] = r] /\ linhas' = linhas /\ UNCHANGED contas
    BY <1>4 DEF Cria, Abre
  <2>2. /\ r \in Pedido /\ r.pc = "inserir" /\ r.u = u /\ r.escopo = e
        /\ r.vistas = {}
    BY <1>1, <1>4, EscopoConstants DEF Parado, Pedido
  <2> HIDE DEF r
  <2>3. DonoOK(r, usuarios, linhas)
    BY <1>1, <2>2 DEF DonoOK
  <2> QED BY <2>1, <2>2, <2>3, AssumeDono
<1>5. ASSUME NEW i \in Linhas, NEW refs, refs \subseteq Linhas, NEW confere,
             Edita(s, u, e, i, refs, confere)
      PROVE  DonoInv'
  <2> DEFINE r == [Parado EXCEPT !.pc = "gravar", !.u = u, !.escopo = e,
                                 !.alvo = i, !.poe = refs \ linhas[i].refs]
  <2>1. /\ es' = [es EXCEPT ![s] = r] /\ linhas' = linhas /\ UNCHANGED contas
        /\ usuarios[u].papel = "dono" => linhas[i].op = usuarios[u].op
    BY <1>5 DEF Edita, Abre, Alcanca
  <2>2. /\ r \in Pedido /\ r.pc = "gravar" /\ r.u = u /\ r.alvo = i
        /\ r.vistas = {}
    BY <1>1, <1>5, EscopoConstants DEF Parado, Pedido
  <2> HIDE DEF r
  <2>3. DonoOK(r, usuarios, linhas)
    BY <1>1, <2>1, <2>2 DEF DonoOK
  <2> QED BY <2>1, <2>2, <2>3, AssumeDono
<1>6. ASSUME NEW i \in Linhas, Exclui(s, u, e, i) PROVE DonoInv'
  <2> DEFINE r == [Parado EXCEPT !.pc = "excluir", !.u = u, !.escopo = e, !.alvo = i]
  <2>1. /\ es' = [es EXCEPT ![s] = r] /\ linhas' = linhas /\ UNCHANGED contas
        /\ usuarios[u].papel = "dono" => linhas[i].op = usuarios[u].op
    BY <1>6 DEF Exclui, Abre, Alcanca
  <2>2. /\ r \in Pedido /\ r.pc = "excluir" /\ r.u = u /\ r.alvo = i
        /\ r.vistas = {}
    BY <1>1, EscopoConstants DEF Parado, Pedido
  <2> HIDE DEF r
  <2>3. DonoOK(r, usuarios, linhas)
    BY <1>1, <2>1, <2>2 DEF DonoOK
  <2> QED BY <2>1, <2>2, <2>3, AssumeDono
<1>7. ASSUME NEW tipo, Mostra(s, u, e, Escopado(u, e, Da(tipo))) PROVE DonoInv'
  <2> DEFINE rows == Escopado(u, e, Da(tipo))
             r == [Parado EXCEPT !.u = u, !.escopo = e, !.vistas = rows]
  <2>1. es' = [es EXCEPT ![s] = r] /\ linhas' = linhas /\ UNCHANGED contas
    BY <1>7 DEF Mostra, Abre
  <2>2. \A i \in rows :
          /\ i \in Linhas /\ linhas[i].st = "viva"
          /\ usuarios[u].papel = "dono" => linhas[i].op = usuarios[u].op
          /\ usuarios[u].papel = "admin" /\ e # SemOperacao => linhas[i].op = e
    BY DEF Escopado, Da, Tabela, Viva
  <2> HIDE DEF rows
  <2>3. /\ r \in Pedido /\ r.pc = "livre" /\ r.u = u /\ r.escopo = e
        /\ r.vistas = rows
    BY <1>1, <2>2, EscopoConstants DEF Parado, Pedido
  <2> HIDE DEF r
  <2>4. DonoOK(r, usuarios, linhas)
    BY <1>1, <2>2, <2>3 DEF DonoOK
  <2> QED BY <2>1, <2>3, <2>4, AssumeDono
<1>8. ASSUME NEW i \in Linhas, CreateMoto(s, u, e, i) \/ CreateCliente(s, u, e, i)
      PROVE  DonoInv'
  BY <1>4, <1>8 DEF CreateMoto, CreateCliente
<1>9. ASSUME NEW i \in Linhas,
             \/ DeleteMoto(s, u, e, i) \/ DeleteCliente(s, u, e, i)
             \/ DeleteContrato_(s, u, e, i) \/ DeleteMulta(s, u, e, i)
             \/ DeleteFinanceiro_(s, u, e, i) \/ DeleteManutencao_(s, u, e, i)
      PROVE  DonoInv'
  BY <1>6, <1>9 DEF DeleteMoto, DeleteCliente, DeleteContrato_, DeleteMulta,
     DeleteFinanceiro_, DeleteManutencao_
<1>10. ASSUME NEW i \in Linhas, NEW refs \in SUBSET Linhas,
              \/ CreateContrato_(s, u, e, i, refs) \/ CreateFinanceiro_(s, u, e, i, refs)
              \/ CreateManutencao_(s, u, e, i, refs)
       PROVE  DonoInv'
  BY <1>4, <1>10 DEF CreateContrato_, CreateFinanceiro_, CreateManutencao_
<1>11. ASSUME NEW i \in Linhas, NEW refs \in SUBSET Linhas, CreateMulta(s, u, e, i, refs)
       PROVE  DonoInv'
  <2> DEFINE todas == refs \cup DoContrato(refs)
  <2>1. Cria(s, u, e, i, todas)
    BY <1>11 DEF CreateMulta
  <2>2. todas \subseteq Linhas
    BY DEF DoContrato
  <2> HIDE DEF todas
  <2> QED BY <1>4, <2>1, <2>2
<1>12. ASSUME NEW i \in Linhas, NEW refs \in SUBSET Linhas,
              \/ UpdateMulta(s, u, e, i, refs) \/ UpdateFinanceiro_(s, u, e, i, refs)
              \/ UpdateManutencao(s, u, e, i, refs)
       PROVE  DonoInv'
  <2>1. /\ Efetivas(i, refs) \subseteq Linhas
        /\ DoContrato(Efetivas(i, refs)) \subseteq Linhas
    BY EscopoFatos DEF Efetivas, DoContrato
  <2> QED BY <1>5, <1>12, <2>1 DEF UpdateMulta, UpdateFinanceiro_, UpdateManutencao
<1>13. CASE Motos(s, u, e) \/ Clientes(s, u, e)
  BY <1>2, <1>7, <1>8, <1>9, <1>13 DEF Motos, Clientes, ListMotos, ListClientes
<1>14. CASE Contratos_(s, u, e)
  BY <1>2, <1>3, <1>7, <1>9, <1>10, <1>14 DEF Contratos_, ListContratos
<1>15. CASE Multas(s, u, e)
  BY <1>2, <1>3, <1>7, <1>9, <1>11, <1>12, <1>15 DEF Multas, ListMultas
<1>16. CASE Financeiro(s, u, e)
  BY <1>2, <1>3, <1>7, <1>9, <1>10, <1>12, <1>16 DEF Financeiro, ListFinanceiro
<1>17. CASE Manutencoes_(s, u, e)
  BY <1>2, <1>3, <1>7, <1>9, <1>10, <1>12, <1>17 DEF Manutencoes_, ListManutencoes
<1> QED BY <1>13, <1>14, <1>15, <1>16, <1>17 DEF Atende

(* A user known to a request keeps role and operacao; who enters is known. *)
LEMMA ContasDono ==
  ASSUME EscopoInv, DonoInv, UsuariosRouter \/ Acessos
  PROVE  DonoInv'
<1>1. linhas' = linhas /\ es' = es
  BY DEF UsuariosRouter, Acessos, DeleteUsuario, CreateOperacaoUsuario,
     CreateUsuarioAdmin, NovoUsuario, Login, CreateAccessToken, Expira
<1>2. ASSUME UNCHANGED <<acesso, entrando>>,
             \A n \in Usuarios : usuarios[n].st # "nenhum" =>
               /\ usuarios'[n].st # "nenhum" /\ usuarios'[n].papel = usuarios[n].papel
               /\ usuarios'[n].op = usuarios[n].op
      PROVE  DonoInv'
  <2>1. ASSUME NEW t \in SessoesEscopo PROVE DonoOK(es[t], usuarios', linhas)
    <3>1. DonoOK(es[t], usuarios, linhas) /\ es[t].u \in Usuarios
      BY DonoFatos, EscopoFatos DEF Pedido
    <3> QED BY <1>2, <3>1 DEF DonoOK
  <2> QED BY <1>1, <1>2, <2>1, DonoFatos DEF DonoInv
<1>3. ASSUME NEW n \in Usuarios, NEW papel, NEW op, NovoUsuario(n, papel, op)
      PROVE  DonoInv'
  BY <1>2, <1>3, EscopoFatos DEF NovoUsuario
<1>4. ASSUME NEW u \in Usuarios, NEW n \in Usuarios, DeleteUsuario(u, n)
      PROVE  DonoInv'
  <2>1. /\ usuarios[n].st = "vivo" /\ usuarios[n] \in Usuario
        /\ usuarios' = [usuarios EXCEPT ![n] = [usuarios[n] EXCEPT !.st = "excluido"]]
        /\ UNCHANGED <<acesso, entrando>>
    BY <1>4, EscopoFatos DEF DeleteUsuario
  <2>2. /\ usuarios'[n].st = "excluido" /\ usuarios'[n].papel = usuarios[n].papel
        /\ usuarios'[n].op = usuarios[n].op
        /\ \A m \in Usuarios \ {n} : usuarios'[m] = usuarios[m]
    BY <2>1, EscopoFatos DEF Usuario
  <2> QED BY <1>2, <2>1, <2>2
<1>5. ASSUME usuarios' = usuarios, acesso' \in [Usuarios -> BOOLEAN],
             entrando' \in [Usuarios -> BOOLEAN],
             \A u \in Usuarios : acesso'[u] \/ entrando'[u] => usuarios[u].st # "nenhum"
      PROVE  DonoInv'
  BY <1>1, <1>5, DonoFatos DEF DonoInv
<1>6. ASSUME NEW u \in Usuarios, Login(u) \/ CreateAccessToken(u) \/ Expira(u)
      PROVE  DonoInv'
  <2>1. CASE Login(u)
    <3>1. /\ usuarios[u].st = "vivo" /\ entrando' = [entrando EXCEPT ![u] = TRUE]
          /\ usuarios' = usuarios /\ acesso' = acesso
      BY <2>1 DEF Login
    <3>2. entrando' \in [Usuarios -> BOOLEAN]
      BY <3>1, DonoFatos
    <3>3. \A n \in Usuarios \ {u} : entrando'[n] = entrando[n]
      BY <3>1, DonoFatos
    <3>4. \A n \in Usuarios : acesso'[n] \/ entrando'[n] => usuarios[n].st # "nenhum"
      BY <3>1, <3>3, DonoFatos
    <3> QED BY <1>5, <3>1, <3>2, <3>4, DonoFatos
  <2>2. CASE CreateAccessToken(u)
    <3>1. /\ entrando[u] /\ entrando' = [entrando EXCEPT ![u] = FALSE]
          /\ acesso' = [acesso EXCEPT ![u] = TRUE] /\ usuarios' = usuarios
      BY <2>2 DEF CreateAccessToken
    <3>2. entrando' \in [Usuarios -> BOOLEAN] /\ acesso' \in [Usuarios -> BOOLEAN]
      BY <3>1, DonoFatos
    <3>3. \A n \in Usuarios \ {u} : entrando'[n] = entrando[n] /\ acesso'[n] = acesso[n]
      BY <3>1, DonoFatos
    <3>4. usuarios[u].st # "nenhum"
      BY <3>1, DonoFatos
    <3>5. \A n \in Usuarios : acesso'[n] \/ entrando'[n] => usuarios[n].st # "nenhum"
      BY <3>3, <3>4, DonoFatos
    <3> QED BY <1>5, <3>1, <3>2, <3>5
  <2>3. CASE Expira(u)
    <3>1. acesso[u] /\ acesso' = [acesso EXCEPT ![u] = FALSE]
          /\ usuarios' = usuarios /\ entrando' = entrando
      BY <2>3 DEF Expira
    <3>2. acesso' \in [Usuarios -> BOOLEAN]
      BY <3>1, DonoFatos
    <3>3. \A n \in Usuarios \ {u} : acesso'[n] = acesso[n]
      BY <3>1, DonoFatos
    <3>4. usuarios[u].st # "nenhum"
      BY <3>1, DonoFatos
    <3>5. \A n \in Usuarios : acesso'[n] \/ entrando'[n] => usuarios[n].st # "nenhum"
      BY <3>1, <3>3, <3>4, DonoFatos
    <3> QED BY <1>5, <3>1, <3>2, <3>5, DonoFatos
  <2> QED BY <1>6, <2>1, <2>2, <2>3
<1> QED BY <1>3, <1>4, <1>6
    DEF UsuariosRouter, Acessos, CreateOperacaoUsuario, CreateUsuarioAdmin

LEMMA DonoStart == EscopoInit => DonoInv
<1> SUFFICES ASSUME EscopoInit PROVE DonoInv
  OBVIOUS
<1>1. acesso = [u \in Usuarios |-> FALSE] /\ entrando = [u \in Usuarios |-> FALSE]
  BY DEF EscopoInit
<1>2. acesso \in [Usuarios -> BOOLEAN] /\ entrando \in [Usuarios -> BOOLEAN]
  BY <1>1
<1>3. \A u \in Usuarios : ~(acesso[u] \/ entrando[u])
  BY <1>1
<1>4. /\ \A i \in Linhas : linhas[i].refs = {}
      /\ \A s \in SessoesEscopo : es[s] = Parado
  BY DEF EscopoInit
<1> QED BY <1>2, <1>3, <1>4, ParadoDono DEF DonoInv

LEMMA DonoStep == EscopoInv /\ DonoInv /\ [EscopoNext]_escopoVars => DonoInv'
<1> SUFFICES ASSUME EscopoInv, DonoInv, [EscopoNext]_escopoVars PROVE DonoInv'
  OBVIOUS
<1>1. CASE UNCHANGED escopoVars
  BY <1>1 DEF escopoVars, DonoInv
<1> QED BY <1>1, AtendeDono, CommitDono, ContasDono DEF EscopoNext

(* A change of session s and of row i by an owner's request is a change of *)
(* a row of the own operacao.                                              *)
MudaAPropria ==
  \A s \in SessoesEscopo, i \in Linhas :
    /\ es[s] # es'[s] /\ linhas[i] # linhas'[i]
    /\ usuarios[es[s].u].papel = "dono"
    => linhas'[i].op = usuarios[es[s].u].op

LEMMA MudaPropria ==
  EscopoInv /\ DonoInv /\ [EscopoNext]_escopoVars => MudaAPropria
<1> SUFFICES ASSUME EscopoInv, DonoInv, [EscopoNext]_escopoVars,
                    NEW s \in SessoesEscopo, NEW i \in Linhas,
                    es[s] # es'[s], linhas[i] # linhas'[i],
                    usuarios[es[s].u].papel = "dono"
             PROVE  linhas'[i].op = usuarios[es[s].u].op
  BY DEF MudaAPropria
<1>1. ASSUME NEW t \in SessoesEscopo, NEW u \in Usuarios, NEW e \in ResolveOperacao(u),
             Atende(t, u, e)
      PROVE  linhas' = linhas
  BY <1>1 DEF Atende, Motos, Clientes, Contratos_, Multas, Financeiro, Manutencoes_,
     Mostra, CreateMoto, CreateCliente, CreateContrato_, CreateMulta,
     CreateFinanceiro_, CreateManutencao_, Cria, UpdateMulta, UpdateFinanceiro_,
     UpdateManutencao, Edita, DeleteMoto, DeleteCliente, DeleteContrato_,
     DeleteMulta, DeleteFinanceiro_, DeleteManutencao_, Exclui
<1>2. ASSUME UsuariosRouter \/ Acessos PROVE linhas' = linhas
  BY <1>2 DEF UsuariosRouter, Acessos, DeleteUsuario, CreateOperacaoUsuario,
     CreateUsuarioAdmin, NovoUsuario, Login, CreateAccessToken, Expira
<1>3. PICK t \in SessoesEscopo : CommitInsert(t) \/ CommitUpdate_(t) \/ CommitDelete(t)
  BY <1>1, <1>2 DEF EscopoNext, escopoVars, Termina
<1>4. t = s /\ es' = [es EXCEPT ![t] = Parado]
  BY <1>3, EscopoFatos DEF CommitInsert, CommitUpdate_, CommitDelete, Fecha
<1>5. DonoOK(es[s], usuarios, linhas) /\ Pendente(es[s], linhas)
  BY DonoFatos, EscopoFatos
<1>6. CASE CommitInsert(s)
  <2>1. /\ es[s].pc = "inserir"
        /\ linhas' = [linhas EXCEPT ![es[s].alvo] =
             [st |-> "viva", op |-> es[s].escopo, refs |-> es[s].poe]]
    BY <1>6 DEF CommitInsert
  <2>2. i = es[s].alvo /\ linhas'[i].op = es[s].escopo
    BY <2>1, EscopoFatos
  <2> QED BY <1>5, <2>1, <2>2 DEF DonoOK
<1>7. CASE CommitUpdate_(s)
  <2> DEFINE nova == {q \in linhas[es[s].alvo].refs :
                        \A n \in es[s].poe : TipoDe[n] # TipoDe[q]} \cup es[s].poe
  <2>1. /\ es[s].pc = "gravar"
        /\ linhas' = [linhas EXCEPT ![es[s].alvo] =
             [linhas[es[s].alvo] EXCEPT !.refs = nova]]
    BY <1>7 DEF CommitUpdate_
  <2> HIDE DEF nova
  <2>2. i = es[s].alvo /\ linhas[i] \in Linha_
    BY <2>1, EscopoFatos
  <2>3. linhas'[i] = [linhas[i] EXCEPT !.refs = nova]
    BY <2>1, <2>2, EscopoFatos
  <2>4. linhas'[i].op = linhas[i].op
    BY <2>2, <2>3 DEF Linha_
  <2> QED BY <1>5, <2>1, <2>2, <2>4 DEF DonoOK
<1>8. CASE CommitDelete(s)
  <2> DEFINE a == es[s].alvo
  <2>1. /\ es[s].pc = "excluir" /\ a \in Linhas
        /\ linhas' = [j \in Linhas |->
             IF j = a THEN [linhas[a] EXCEPT !.st = "excluida", !.refs = {}]
             ELSE [linhas[j] EXCEPT !.refs = linhas[j].refs \ {a}]]
    BY <1>5, <1>8 DEF CommitDelete, Pendente
  <2>2. linhas[a].op = usuarios[es[s].u].op
    BY <1>5, <2>1 DEF DonoOK
  <2> HIDE DEF a
  <2>3. linhas[i] \in Linha_ /\ linhas[i].refs \subseteq Linhas
    BY EscopoFatos
  <2>4. CASE i = a
    <3>1. linhas'[i] = [linhas[i] EXCEPT !.st = "excluida", !.refs = {}]
      BY <2>1, <2>4
    <3> QED BY <2>2, <2>3, <2>4, <3>1 DEF Linha_
  <2>5. CASE i # a
    <3>1. linhas'[i] = [linhas[i] EXCEPT !.refs = linhas[i].refs \ {a}]
      BY <2>1, <2>5
    <3>2. a \in linhas[i].refs
      BY <2>3, <3>1 DEF Linha_
    <3>3. linhas[i].st = "viva"
      BY <3>2, DonoFatos
    <3>4. linhas[a].op = linhas[i].op
      BY <3>2, <3>3 DEF EscopoInv, RelacaoNaOperacao, Viva
    <3> QED BY <2>2, <2>3, <3>1, <3>4 DEF Linha_
  <2> QED BY <2>4, <2>5
<1> QED BY <1>3, <1>4, <1>6, <1>7, <1>8

(* An owner keeps to the own operacao: what is listed may be opened as     *)
(* long as it exists, and a change reaches rows of it only, those a        *)
(* deletion unlinks included, however long ago the row was checked         *)
(* (fleet_service.py:34, :72, :191).                                       *)
THEOREM OwnersKeepToTheirOwn == EscopoSpec => SoNaPropria
<1>1. EscopoSpec => [](EscopoInv /\ DonoInv)
  BY EscopoStart, EscopoStep, DonoStart, DonoStep, PTL DEF EscopoSpec
<1>2. EscopoInv /\ DonoInv => ListadaAbre
  BY DonoFatos, EscopoFatos DEF ListadaAbre, Alcanca, DonoOK, Viva, Pedido
<1>3. EscopoInv /\ DonoInv /\ [EscopoNext]_escopoVars =>
        [\A s \in SessoesEscopo, i \in Linhas :
           /\ es[s] # es'[s] /\ linhas[i] # linhas'[i]
           /\ usuarios[es[s].u].papel = "dono"
           => linhas'[i].op = usuarios[es[s].u].op]_escopoVars
  BY MudaPropria DEF MudaAPropria
<1> QED BY <1>1, <1>2, <1>3, PTL DEF EscopoSpec, SoNaPropria
=============================================================================

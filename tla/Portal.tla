-------------------------------- MODULE Portal --------------------------------
(***************************************************************************)
(* The payment link of a charge (payer_portal_service.py): the owner       *)
(* issues and revokes it, the bot and the daily pass make sure there is    *)
(* one for their messages, and the payer opens it (public_pay.py).         *)
(*                                                                         *)
(* Each of them loads the charge and commits later; an UPDATE writes only  *)
(* the columns the session changed.                                        *)
(***************************************************************************)
EXTENDS Naturals

CONSTANTS
  Links,          \* what secrets.token_urlsafe may return
  SessoesPortal,
  VidaLink,       \* payer_portal_token_ttl_days
  SemLink

ASSUME PortalConstants == VidaLink \in Nat \ {0} /\ SemLink \notin Links

VARIABLES
  link,        \* payment_portal_token
  validade,    \* what is left until payment_portal_expires_at
  situacao,    \* the charge: open, paid or neither
  ps,          \* the sessions
  gastos,      \* history: links that were generated
  saidos,      \* history: links that ran out, were revoked or replaced
  mensagens    \* links that were sent

portalVars == <<link, validade, situacao, ps, gastos, saidos, mensagens>>

SessaoPortal ==
  [pc: {"livre", "gravar"},
   grava: Links \cup {SemLink},
   suja: BOOLEAN,                    \* the link is a changed column
   manda: Links \cup {SemLink}]      \* the link of the message

Calma == [pc |-> "livre", grava |-> SemLink, suja |-> FALSE, manda |-> SemLink]

PortalExpired == link = SemLink \/ validade = 0

Carrega(s, grava, suja, manda) ==
  /\ ps[s].pc = "livre"
  /\ ps' = [ps EXCEPT ![s] =
       [pc |-> "gravar", grava |-> grava, suja |-> suja, manda |-> manda]]
  /\ UNCHANGED <<link, validade, situacao, saidos, mensagens>>

-----------------------------------------------------------------------------
(* issue_portal_link: always a new one.                                    *)
IssuePortalLink(s) ==
  /\ situacao = "aberta"
  /\ \E t \in Links \ gastos :
       gastos' = gastos \cup {t} /\ Carrega(s, t, TRUE, t)

(* revoke_portal_link, whatever the charge's status.                       *)
RevokePortalLink(s) ==
  Carrega(s, SemLink, link # SemLink, SemLink) /\ UNCHANGED gastos

(* ensure_portal_url_for_cobranca: the one there is, while it is good.     *)
EnsureRegrava(s) ==                \* mutant: writes the link it loaded
  /\ situacao = "aberta"
  /\ IF PortalExpired
     THEN \E t \in Links \ gastos :
            gastos' = gastos \cup {t} /\ Carrega(s, t, TRUE, t)
     ELSE Carrega(s, link, TRUE, link) /\ UNCHANGED gastos

EnsurePortalUrl(s) ==
  /\ situacao = "aberta"
  /\ IF PortalExpired
     THEN \E t \in Links \ gastos :
            gastos' = gastos \cup {t} /\ Carrega(s, t, TRUE, t)
     ELSE Carrega(s, SemLink, FALSE, link) /\ UNCHANGED gastos

PortalCommit(s) ==
  LET r == ps[s] IN
  /\ r.pc = "gravar"
  /\ IF r.suja
     THEN /\ link' = r.grava
          /\ validade' = IF r.grava = SemLink THEN 0 ELSE VidaLink
          /\ saidos' = (saidos \cup {link}) \ {SemLink}
     ELSE UNCHANGED <<link, validade, saidos>>
  /\ mensagens' = (mensagens \cup {r.manda}) \ {SemLink}
  /\ ps' = [ps EXCEPT ![s] = Calma]
  /\ UNCHANGED <<situacao, gastos>>

PortalRollback(s) ==
  /\ ps[s].pc = "gravar"
  /\ ps' = [ps EXCEPT ![s] = Calma]
  /\ UNCHANGED <<link, validade, situacao, gastos, saidos, mensagens>>

(* The charge is paid, cancelled or refunded; the link stays on it.        *)
FechaCobranca ==
  /\ situacao = "aberta"
  /\ situacao' \in {"recebida", "cancelada"}
  /\ UNCHANGED <<link, validade, ps, gastos, saidos, mensagens>>

Envelhece ==
  /\ validade > 0 /\ validade' = validade - 1
  /\ saidos' = IF validade = 1 THEN saidos \cup {link} ELSE saidos
  /\ UNCHANGED <<link, situacao, ps, gastos, mensagens>>

-----------------------------------------------------------------------------
(* What a link opens: _cob_by_portal_token, the checkout page.             *)
CobByPortalToken(t) == link = t /\ ~PortalExpired

PublicCheckout(t) == CobByPortalToken(t) /\ situacao # "cancelada"

-----------------------------------------------------------------------------
PortalInit ==
  /\ link = SemLink /\ validade = 0 /\ situacao = "aberta"
  /\ ps = [s \in SessoesPortal |-> Calma]
  /\ gastos = {} /\ saidos = {} /\ mensagens = {}

PortalNext ==
  \/ \E s \in SessoesPortal :
       \/ IssuePortalLink(s) \/ RevokePortalLink(s) \/ EnsurePortalUrl(s)
       \/ PortalCommit(s) \/ PortalRollback(s)
  \/ FechaCobranca \/ Envelhece

PortalSpec == PortalInit /\ [][PortalNext]_portalVars

-----------------------------------------------------------------------------
PortalTypeOK ==
  /\ link \in Links \cup {SemLink} /\ validade \in 0..VidaLink
  /\ situacao \in {"aberta", "recebida", "cancelada"}
  /\ ps \in [SessoesPortal -> SessaoPortal]
  /\ gastos \subseteq Links /\ saidos \subseteq Links /\ mensagens \subseteq Links

(* A link that was revoked, replaced or that ran out never opens the       *)
(* checkout again, whatever a session that loaded the charge before still  *)
(* commits (payer_portal_service.py:105, :114).                             *)
RevogadoNaoVolta == \A t \in saidos : ~PublicCheckout(t)

(* A link that was sent opens its charge until it runs out or the owner    *)
(* takes it back.  It does not: of two sessions that find no link each     *)
(* makes one, and the later commit buries the other's                      *)
(* (payer_portal_service.py:117).                                          *)
EnviadoAbre ==
  \A t \in mensagens : situacao = "aberta" /\ validade > 0 => CobByPortalToken(t)
=============================================================================

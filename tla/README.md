# Verification of motopay

motopay is a back office for motorcycle rental operators: a FastAPI server, a
Celery worker with a beat schedule, Postgres, Redis, a Telegram bot and a React
application. It bills contracts through Mercado Pago (PIX, cards,
subscriptions) and keeps the operator's books. This directory holds TLA+
models of the parts where money can go wrong, TLC configurations that check
them on small instances, and proofs for instances of every size that TLAPS
checks.

    tlc -workers 2 -config MCLocking.cfg MCLocked      # one run
    tlapm BillingProofs.tla                            # one module's proofs

Names follow the source (`_finalize_payment`, `get_open_cobranca_locked`,
`valor_estornado`); `billing_service.py` etc. are under `motopay/services/`
unless a longer path is given.

## 1. The system

### 1.1 What runs at the same time

Every API request, portal request, webhook delivery and Celery task opens one
SQLAlchemy session, which is one Postgres transaction at READ COMMITTED and one
identity map (`infrastructure/db/session.py`: `autocommit=False`,
`autoflush=False`, expire on commit). Four rules decide almost everything
below:

1. a row that is already in the identity map is *not* refreshed by a later
   SELECT, not even by `SELECT ... FOR UPDATE` (nothing sets
   `populate_existing`);
2. an UPDATE writes only the attributes that differ from the loaded version,
   and waits for the row lock;
3. COMMIT expires the identity map and frees the locks;
4. a handler may commit where nobody wrote a commit: each call to Mercado Pago
   first asks `ensure_valid_mp_token` for the access token, and within five
   minutes of its expiry that function renews it and commits the *caller's*
   session (`mercadopago_token_service.py:136`, `:58` when the renewal is
   refused).

The identity map is weak: a row nobody refers to any more is forgotten and the
next SELECT loads it anew. So the webhook, whose look-up of the operacao drops
the charge before the handler locks it, gets fresh data, while the
reconciliation job, `ensure_pix_for_cobranca`, card payments and refunds keep
the row in a variable and get the old copy.

Mercado Pago is called in the middle of most transactions; what it did stays
done when the transaction rolls back. It redelivers each notification until it
is answered 200, in any order, also twice at the same time.

### 1.2 Components

| component | state | operations | interacts with | what makes it correct |
|---|---|---|---|---|
| Payment confirmation (`billing_service.py`, `routers/webhooks.py`) | `cobrancas`, `contratos.proximo_vencimento`, `inadimplente`, RECEITA rows of `financeiro` | order, payment and subscription notifications; `_finalize_payment` | all below; emits a domain event | each charge credited once, status and receipt together, the due date never ahead of the receipts |
| PIX issue (`billing_service.py`) | order and payment ids, total and status of a charge | `create_pix_charge_for_contract`, `ensure_pix_for_cobranca` | bot, dashboard, payer portal, Mercado Pago | the stored code can be paid, a received charge is not re-opened while its lock lasts |
| Reconciliation (`mp_reconciliation.py`) | none of its own | open charges, expired orders, refunds and chargebacks of the 50 newest | the same handlers, in one session | repairs what webhooks lost, does nothing twice |
| Delinquency pass (`messaging/tasks.py`) | contract flags, late codes | `daily_automation_tick` | PIX issue, Mercado Pago, events | marks late contracts, renews their codes |
| Card payments (`card_payment_service.py`) | ids and status of a charge | `pay_cobranca_with_card` | Mercado Pago, `_finalize_payment` | a received charge has a receipt and a payment |
| Refunds and chargebacks (`billing_service.py`) | `valor_estornado`, dispute status, DESPESA rows | API refund, two notifications, two passes | Mercado Pago, books | books and refunds agree, a dispute is booked once |
| Domain events (`messaging/`) | `eventos_dominio`, Celery messages, `dlq:tasks` | emit, enqueue, `handle_domain_event`, operator's retry and discard | Redis, Telegram | no event marked done that was not told, nothing told after, tasks end |
| OAuth tokens (`mercadopago_token_service.py`, `mercadopago_oauth_service.py`) | token pair of an operacao | refresh on use, daily refresh, OAuth callback, disconnect | every call to Mercado Pago | a connected operacao can renew its tokens |
| Reminders (`messaging/tasks.py`) | day's Redis lock, date of the last message | the runs of the tick, d3, d0, d1, the workers' messages | Celery, Telegram | one run a day, one reminder a day |
| Fleet (`fleet_service.py`, the expiry pass of `messaging/tasks.py`) | vehicles, contracts, subscriptions at Mercado Pago | create, patch, delete, end; subscribe, cancel | charges, events, Mercado Pago | a rented vehicle has a contract, an expired one ends |
| Scope (`deps.py`, `operacao_service.py` and the services with rows) | users, their access tokens, rows with an operacao and references | list, open, create, edit, delete | every request | rows refer to rows of their operacao, a deleted user is out |
| Maintenance (`manutencao_service.py`) | rows and their mirror expense | create, patch, delete | `financeiro` | one expense per maintenance, of its value |
| Attachments, photos (`anexo_service.py`, `moto_media_service.py`) | rows and blobs | upload, delete, delete with the entity | S3 or disk | no blob without a row, what a page shows opens |
| Payer portal (`payer_portal_service.py`) | link of a charge | issue, revoke, ensure, open | PIX issue, cards, bot | a revoked link stays shut |
| Refresh tokens (`refresh_tokens.py`, `routers/auth.py`) | tokens and epochs in Redis | login, refresh, logout, logout of all | every client | a revoked token is refused |
| Rate limits (`rate_limit.py`) | counters in Redis | check, count, clear | login, webhooks, portal | bounded excess, nobody stays locked out |
| Redis and its stand-in (`redis_client.py`) | keys with a time to live | get, set NX EX, incr, expire, delete, scan | all of the above | the dict behaves as Redis |
| Circuit breaker (`redis_circuit_breaker.py`) | three Redis keys | `call` | every Telegram send | opens, and closes again |
| Saved cards (`card_payment_service.py`) | rows, customer record and cards at Mercado Pago | save, list, choose, delete | card payments | a card on the list can be paid with |
| Dead letter queue (`celery_observability.py`) | list and details in Redis | append and trim, retry, discard | domain events, operators | what is listed opens, the list has a limit |
| Telegram bot (`telegram/`) | none of its own; menus and customers in the database | messages, buttons, commands | owners, language model | each message answered, each request for a human announced once |

Also in the repository, and without state worth a model: late fee, score and
due date arithmetic, analytics (reads), contract PDFs, the Mercado Pago HTTP
client, realtime notices, settings, encryption, metrics, health, migrations,
scripts, deployment, and the web application.

### 1.3 What is hard

Statements of several sessions interleave; data read before a call to Mercado
Pago is used after it; notifications are lost, repeated and reordered; a crash
may fall between the call and the commit; a token that is renewed frees a lock
in the middle of a handler; tasks are retried from the start; a
one-time token may be used up by an answer nobody received. `PROJECT.json`
lists the hazards one by one with their lines and the properties that cover
them.

## 2. Modules

| module | models | proved in |
|---|---|---|
| `BillingDb` | tables, row locks, sessions with their identity map, flush of dirty attributes, `_finalize_payment`, customers and Mercado Pago, the calendar | |
| `WebhookConfirm` | the three confirmations | |
| `PixIssue` | `create_pix_charge_for_contract`, `ensure_pix_for_cobranca` | |
| `MpReconcile` | the two passes over open charges | |
| `Delinquency` | the delinquency pass for one late contract | |
| `CardPayment` | `pay_cobranca_with_card` | |
| `PaymentLedger` | the abstract promise: each charge credited once, unless it was let go of before | |
| `Billing` | the composition, its fairness and properties | `BillingProofs` |
| `LockedBilling` | what the row locks are worth, and which charges lost theirs | `BillingProofs` |
| `Refunds` | everything that happens to one received charge | `RefundsProofs` |
| `Outbox` | events, tasks, dead letters | `OutboxProofs` |
| `MpToken` | the OAuth tokens of one operacao | `MpTokenProofs` |
| `Lembretes` | the runs of the daily tick under the day's lock, and the reminders | `LembretesProofs` |
| `Frota` | vehicles, contracts, their end, their subscriptions | `FrotaProofs` |
| `Escopo` | users and access tokens, the rows of operacoes and their references | `AcessoProofs` |
| `Despesas` | maintenances and their mirror expense | `FrotaProofs` |
| `Anexos` | attachments and photos against the blob store | `FrotaProofs` |
| `Portal` | the payment link of a charge | `AcessoProofs` |
| `Sessoes` | refresh tokens and epochs of one user | `AcessoProofs` |
| `Limites` | the attempt counter of one address | `AcessoProofs` |
| `RedisTtl` | abstract: what the code asks of Redis | |
| `RedisMemoria` | the dict that stands in for it, an implementation of `RedisTtl` | `OutboxProofs` |
| `Disjuntor` | the circuit breaker, command by command | `OutboxProofs` |
| `Cartoes` | the saved cards of one customer | `CartoesProofs` |
| `FilaMorta` | the dead letter queue at its limit | `LembretesProofs` |
| `Bot` | one user of the Telegram bot | `LembretesProofs` |
| `MCBilling`, `MCLocked`, `MCRefunds`, `MCOutbox`, `MCMpToken`, `MCRetaguarda`, `MCPlataforma` | symmetry sets, sub-systems and worlds for TLC | |

### 2.1 Billing

An action is a stretch of a handler between two points where another session
can get in: a SELECT, a call to Mercado Pago, a COMMIT. `ses[s]` is a session:
which handler it runs (`via`), where (`pc`), its locals, and its identity map
`mapa`. `View(s, i)` is rule 1, `Flush` rule 2, `Close` and `Credit` rule 3.
`Lockable`/`Locking` are FOR UPDATE: it waits for the rows the query matched,
then evaluates the WHERE again (`Matching`, `StillOpen`), and locks nothing when
nothing matches (`NoneOpen`, `SubscriptionInsert`). `Abort` is every exception
before the commit, a deadlock victim and a crash included.

`LockingSpec` holds the handlers that reach the charge through FOR UPDATE on a
row they have not loaded: the webhooks and `create_pix_charge_for_contract`.
`Spec` adds the others.

Rule 4 gives each handler that calls Mercado Pago a second way through.
`RenovaCreatePix` drops the lock and the identity map before the call;
`CreateOrderReload` then takes the row and its old order as they are once Mercado
Pago has answered, unlocked and whatever the status, and `CommitPix` writes the
open status and the new order over it. So a charge that a webhook credited in
between is open again, and the customer may pay it a second time.
`RenovaEnsurePix`, `CreateOrderBlind` and `OverwritePix` are the same for a
handler that does not read the row again: it sets attributes of an expired
object, which are all written. `RenovaCard`, `RenovaDelinquency`,
`RenovaReconcile` and `RenovaExpired` commit what the card request, the daily
pass and the reconciliation have written so far and let them go on with fresh
rows.

`LockedBilling` says what is left of the promise of the locks. It adds to
`LockingSpec` the history variable `soltas`: the charges a `create_pix` request
held when its lock was lost. For every other charge there is one receipt, final,
as `PaymentLedger` has it; a charge only joins `soltas` while it is open; and even
a re-opened one is never credited twice for one order (`PagamentoUnico`), since
it carries the new order and a late notification of the old one finds no row.
To see a charge credited twice, drop `\/ receitas[j].cobranca \in soltas` from
`UmaReceitaPorCobranca` (section 5).
 The reconciliation confirms by order or by payment
(`ByOrder`): it calls the order handler for a paid order and the payment handler
otherwise, which decides both the row looked up and the receipt's external id.

Abstractions. All contracts are `ativo`. Amounts are the number of late days
they were computed with, the only part of a total that changes. An order and its
payment share one token, held in two columns. The read of a contract and the
SELECT of its open charge are one step (nothing between them is written by
another handler that the later steps tell apart). Each contract of the daily
pass is a session of its own; the code uses savepoints and one commit at the
end, which only makes the time between cancel and commit longer. The
customer's score, the portal link and the text of events are left out.

### 2.2 Refunds

One charge that has been received, its amount `Valor` in cents. `StartRefund`,
`MpRefund`, `BookRefund` are the API refund: the read, the call with the
idempotency key made of charge and amount, and the commit. `RecvRefund`,
`ReadCharge`, `StartReconcile`, `FetchPayment`, `SyncRefund` are the
notification and the pass, which share the handler. Each pass visits the 50
newest charges (`ORDER BY id DESC LIMIT 50`, `mp_reconciliation.py:94`, `:126`):
`recentes` says of which passes this one is within reach, `Envelhecer` takes it
out (newer charges were received) and `Voltar` back in (newer ones left the
pass's query). A token renewal at `MpRefund` or `FetchPayment` (`Renew`) expires
the session's copy, which is then read anew. The chargeback actions split at the query for an existing expense. `Confirm` is one step since its row
stays locked. `EstornoPainel` and `Disputar` are the owner and the customer at
Mercado Pago; a dispute is lost at most once. That Mercado Pago replays the
answer for a known key is taken from how the client uses keys.

### 2.3 Outbox

`evento` is the table, `emissor` the request after its commit, `tarefa` the
Celery messages, `dlq` the list. A worker acknowledges before running (`Take`;
`acks_late` is not set), so `TaskDies` loses the message. `SendTransient` is
flood control, 5xx, a timeout whose message may have arrived, or an open
breaker: the task goes back with its count raised and starts over.
`SoftTimeLimit` ends it in the dead letter queue. `DlqRetry` leaves the item in
the list, as the code does. `SystemSpec` is the system without the operator,
`Spec` with.

### 2.4 MpToken

Pairs are numbered in the order Mercado Pago issues them. `Load`, `UseToken`,
`LockRow`, `ExchangeOk`/`ExchangeRefused`/`ExchangeError`, `Persist`, `Fail` are
`ensure_valid_mp_token`; `ExchangeCode`, `Connect` the OAuth callback;
`Disconnect` the owner. `ligada` is the connection status, which is what the
daily job selects by; `Persist` writes the tokens and leaves it alone, so a pair
stored over a disconnection lies there unused until the operacao connects again.
`LockRow` keeps the loaded copy (rule 1). Any HTTP
status of 400 or more, a 5xx too, disconnects; a transport error only rolls
back. Not modelled: tokens typed by hand without a refresh token, the OAuth
state key, answers without `expires_in`.

### 2.5 The rows behind the counter

`Frota`, `Escopo`, `Despesas`, `Anexos`, `Cartoes` and `Portal` share one form:
an action loads rows into a session's record, others are its calls to Mercado
Pago or the blob store, the last is its commit, and between any two of them
another session may commit. The commit follows rules 1 and 2 of section 1.1: it
writes what the session changed relative to what it loaded, and an UPDATE of a
row that is gone is a `StaleDataError` that rolls everything back, while a
DELETE of one only warns.

- **Frota**: `CreateContrato`, `UpdateContrato`, `DeleteContrato`,
  `ProcessContractExpiry` load; `End` treats one contract of the session
  (`CancelSubscription`, then the vehicle); `CommitEnd` or `StaleData` ends it.
  The session's record carries the contracts still to do (`resta`), the
  vehicles it will set free (`livra`) and the subscriptions it saw. `EndRenewing`
  is `CancelSubscription` with a token renewal, which commits the contracts the
  session has ended so far (`escritas`); a crash after it leaves an ended
  contract whose subscription nobody cancels. Nor does a failed cancellation
  have to be noticed: the notice to the owner is silent without a chat or with
  notices off, and its own failures are swallowed (`owner_notify.py:109`). So
  nothing is promised about the subscription of an ended contract. Left out:
  the contract number (maximum plus one), the odometer, the amount synchronized
  with Mercado Pago, the deletion of charges, the second commit with the event.
- **Escopo**: a user exists or was deleted, and an access token only says who
  the user was. A row has an operacao and references; the checks of each service
  are `Escopado`, `Alcanca` and `ValidaRelacoes`, the foreign keys of the
  database what a deletion unlinks or is refused for. A fine without a customer
  takes its contract's, when created and when changed (`DoContrato`).
- **Despesas**: the maintenance and the expense are read at two moments; an
  attribute that keeps its loaded value is not written (`Grava`). The totals
  are `Soma`, a recursive function, which can be reasoned about.
- **Anexos**: the store is not part of the transaction and may fail at each
  call; an attachment has its own key, the photo one per extension. Requests for
  the photo of one vehicle may overlap (`fotografo`): one removes the old file
  after its commit, and by then another may have saved a file under that key
  (`moto_media_service.py:67`, `:101`). `intacta` remembers that two overlapped,
  until one has run alone from its start to its commit.
- **Cartoes**: the customer's record and its cards at Mercado Pago, the row per
  card here. Mercado Pago makes a token only for a card of the record named. A renewal of the access token in
  the middle commits nothing of these handlers and only makes what they read
  next fresher.
- **Portal**: the link, its remaining life, and sessions that load the charge
  and commit later. Opening the link is an operator (`PublicCheckout`).

### 2.6 Redis, workers and the bot

- **Lembretes**: `DailyAutomationTick` is SET NX EX; runs die by their time
  limit (`Passa`). A reminder is `Mensagens` messages; `MarkTelegramSent` notes
  the day after the last. `repetivel` remembers the two ways out of the
  promise: a reminder cut off after its first message, two workers with one
  contract.
- **Sessoes**: every Redis command is a step. INCR or EXPIRE may fail and the
  walk over the keys goes on (`IncrFails`, `ExpireFails`), or the request ends
  anywhere (`Interrompe`). Both expiries are counted down in one `Tempo`.
- **Limites**, **Disjuntor**, **FilaMorta**: Redis commands of several
  processes, one at a time, with deaths in between.
- **RedisMemoria**: the dict with lazily dropped items; the refinement maps an
  expired item to an absent one. `MemoriaScanSpec` adds the walk over the keys.
- **Bot**: a message is found, looked up in a menu, answered and announced in
  up to four database sessions. Texts are the labels and words the handlers
  tell apart. What the language model answers is a choice (an answer or an
  error, then the fixed text). The effect of a promise to pay is left out.

## 3. Runs

Every CONSTANT of a cfg is a bound; the modules name the others where they are
declared. `MCRetaguarda` and `MCPlataforma` check parts that share no state:
the initial state picks a world (`mundo`), only the part of that world moves,
and the numbers of states add up instead of multiplying.

| run | configuration | shows |
|---|---|---|
| `locking` | `MCLocking.cfg` | `UmaReceitaPorCobranca`, `RecebidaTemReceita`, `RecebidaImutavel` and the refinement `LedgerSpec` for the charges that kept their lock; `CodigoVivo` and `PagamentoUnico` for all; of `LockedSpec` |
| `full` | `MCFull.cfg` | `RecebidaComprovada`, `ReceitaTemPagamento`, `VencimentoPago`: what is left when the unlocked handlers join |
| `liveness` | `Liveness.cfg` | `PagaERecebida`: a paid order an open charge carries is booked |
| `refunds_concurrent` | `RefundsConcurrent.cfg` | `DespesaCobreEstorno`, `EstornoRefletido`, `DisputaRefletida` |
| `refunds_sequential` | `RefundsSequential.cfg` | `LivroExato`, `CanceladaEsgotada`, `ChargebackUnico`: one handler at a time, with crashes |
| `outbox` | `MCOutbox.cfg` | `ProcessadoEntregue`, `NadaAposProcessado`, `TarefaTermina`, with an operator |
| `mp_token` | `TokenConcurrent.cfg` | `ConectadaRenovavel`, `PerdidoSai` |
| `retaguarda` | `MCRetaguarda.cfg` | eleven worlds: vehicles `AlugadaTemContrato`; attachments and photos `SemLixo`, `ArquivoAbre`; maintenance `EspelhoConfere`; rows `RelacaoNaOperacao`; reminders `TickUnico`, `LembreteUnico`; link `RevogadoNaoVolta`; refresh tokens `RevogadoNaoVale`; bot `SemRespostaSoSe`, `PedidoAvisado`; dead letters `FilaConfere`; cards `CartaoPagavel` |
| `plataforma` | `MCPlataforma.cfg` | five worlds: breaker `AbertoReabre`; the refinement `ComoRedis`; counters `LimiteExcedido`, `Desbloqueia`; contracts and subscriptions `VencidoTermina`; accounts `ExcluidoSai` |
| `reconcile_double` | `ReconcileDouble.cfg` | `SemDuploAvanco` fails |
| `refund_key` | `RefundKey.cfg` | `EstornoLastreado` fails |
| `mp_token_twice` | `TokenTwice.cfg` | `TrocaUnica` fails |

### 3.1 Bounds, and why they are enough

- Billing: two sessions are enough for every race of the handlers, which meet
  on one row (a webhook against a PIX request, a pass against a webhook). One
  contract, since handlers of different contracts share no row; two charges, so
  that a closed one is followed by another; three Mercado Pago resources in
  `locking`, so that a code is superseded while a subscription is debited, two
  in `full`; two late days with a cycle of one.
- Refunds: five cents in the sequential run leave room for two equal partial
  refunds, a refund of all but one cent, and a total one; three cents in the
  concurrent run for a partial refund between the read and the write of
  another.
- Outbox: one event, two task ids (the second for the operator's retry), two
  messages (a retry after the first differs from one before it), two retries
  where the code has five: the count only has to be reached. The proofs cover
  any number of each.
- MpToken: two sessions and three pairs, one of which may be lost and one
  obtained by a new connection.
- `retaguarda`: two sessions in every world (for the photo too: one removes what
  the other saved), three links, blobs and entries
  where the third is what a second session makes; two contracts for one vehicle
  (the old and the new), six kinds of row in two operacoes of which three exist
  at once (`PoucasLinhas`), two runs, two workers, two messages and two days;
  a dead letter queue of one with three tasks. `PoucosVeiculos` leaves Mercado
  Pago, deaths and maintenance out of the world of vehicles; the proof of
  `AlugadaTemContrato` has them all.
- `plataforma`: two workers and a threshold of two failures for the breaker, so
  that one's success meets the other's failure; three attempts against a limit
  of three; one contract with a subscription, one request beside the daily pass
  and one death; an administrator and a user.

### 3.2 Fairness, and why the code justifies it

Each fair specification states its assumptions in one definition.

- Billing (`FairLockingSpec`): a session takes its next statement (WF: threads
  are scheduled, calls to Mercado Pago have timeouts). A row lock that is free
  again and again is granted (SF: Postgres queues waiters). Mercado Pago
  redelivers until one delivery is processed (SF). `Estavel`: crashes end some
  day, failures of Mercado Pago itself need not.
- Refunds (`FairSpec`): the beat starts both passes for ever, and a pass visits
  this charge again and again while it is among the 50 newest (SF on a start
  that is enabled only then; `EstornoRefletido` and `DisputaRefletida` promise
  nothing of a charge that does not stay there), the pass gets the refunded total at last (SF), chargebacks are
  redelivered until answered (SF), sessions move (WF), crashes end.
- Outbox: workers run what they took (WF), take what the broker offers
  whenever it is up (SF), requests end (WF), Redis is provisioned some day (WF)
  and the broker comes back each time it goes (SF). Nothing is assumed of
  failures: `TarefaTermina` holds although sends fail for ever.
- MpToken: time passes, the daily job runs, a free row lock is granted (SF),
  Mercado Pago answers.

- Breaker: a clock (WF) and workers that go on with a call they began (WF).
  `AbertoReabre` says nothing once a worker died between two writes.
- Counters: requests end (WF) and time passes (WF).
- Contracts: the beat starts the pass again (WF) and the pass goes on (WF);
  neither Mercado Pago nor the other requests are asked for anything.
- Accounts: a login goes on to its answer (WF), a token expires (WF).

Symmetry is used in safety runs only. `CHECK_DEADLOCK FALSE` is in the two runs
with worlds, where a part may be over: a bounded number of deaths, links, tokens
or contracts is used up.

## 4. Proofs

A proofs module extends one or more components and proves theorems for every
value of the constants. Each component has one named assumption
(`BillingConstants`, `RefundsConstants`, `BotConstants` and so on), which TLC
evaluates in the runs: bounds are numbers; `None`, `Nenhum`, `SemOperacao` and
the like are not values; there are finitely many of what is counted or summed
(`Tentantes`, `Trabalhos`, `Manutencoes`); the reminders' lock lives longer than
the time limit; the bot's default menu is a valid one.

An invariant the runs check is seldom inductive: what a session writes depends
on what it read a while ago. The strengthening is the content of each proof; it
is stated as a named conjunction before its lemmas, one lemma per action follows,
and the theorems come last.

### 4.1 Billing (`BillingProofs`)

**The locking part** (`LockedSpec`): `LockingTypeCorrect`,
`OneReceiptPerCharge`, `ReceivedIffBooked`, `ReceivedIsFinal`,
`ImplementsLedger`. Each says what is true with the renewals of rule 4 in the
model: of every charge outside `soltas`, for ever, and of one inside only what
its lost lock leaves (a received charge has a receipt). `IInv` adds the fact that
makes the locks work: a row in a session's identity map that is not in `soltas`
is locked by that session, so it still equals the stored row (`SesOK`). Every
step then has one of four effects on charges and books: none, a new code for an
open charge, a charge of `soltas` overwritten, or one charge received with one
receipt (`Effect`); and a charge is let go of only while open (`Desprende`), because the
session that loses the lock had found it open under that lock. The theorems
follow from the two.

**The whole composition** (`Spec`): `TypeCorrect`, `ReceivedIsBooked`,
`ReceiptsArePaid`, `DueDateIsPaid`. `SesOK` is false of the unlocked handlers,
which is what `reconcile_double` shows, so the argument is another one (`FInv`).
A copy may be old, but it was true once, and what counts never goes back
(`Cresce`): a row once there stays and keeps its contract, an approved payment
stays approved, a receipt is not removed. A session about to confirm holds an id
that is approved at Mercado Pago (`Cobra`); the payment id of
a row is that of its order or of a debit that was approved (`RowFull`); an order belongs to one row only, in the table,
in every session's copy, and in the hands of the one session that just made it
(`Lugares`); the due date in a session's copy of a contract is covered by the
receipts of now (`SesFullInv`), so writing it back does not lead them. Reaching
this proof corrected the model: `Lookup` and the receipt's id decided apart by
which handler the reconciliation confirms, and now share `ByOrder`.

**Live codes**: `CodesStayAlive` proves `CodigoVivo` of `SemTickSpec`, all of
`Spec` but the daily pass, `LockingCodesStayAlive` of `LockedSpec`. An order
that was cancelled, or that a session has made up its mind to cancel, is on no
row and no session will write it to one (`Fora`, `CodInv`); it cannot come back
since Mercado Pago never gives an id twice. The pass cancels first and writes
later: it is the one handler of which this is false (`TickCancelsFirst.cfg`).

### 4.2 Refunds (`RefundsProofs`)

`RefundsTypeCorrect`, `RefundsAreBooked` (`Spec`). Not only the stored total but
each total any session has *seen* is covered by the expenses. A session that
writes a stale total books the difference from what it saw, so the sum never
falls behind.

`BooksAreExact`, `CancelledWhenRefunded`, `ChargebackBookedOnce`, `OneReceipt`
(`SeqSpec`). `SeqSpec` allows the steps of `Spec` after which one session at
most is between its statements (`Sozinho`); handlers still crash anywhere, lose
answers, and Mercado Pago and its panel move in between. What is in that
session's hands is up to date (`Atual`), and then the books are equal and not
merely sufficient. `OneWorkerIsSequential` shows that `Spec` with one session is
`SeqSpec`; the run `refunds_sequential` checks that case.

### 4.3 Events, the breaker, Redis (`OutboxProofs`)

`OutboxTypeCorrect`, `ProcessedIsDelivered`, `NothingAfterProcessed`. The second
needs the progress of each running task (the messages of its current attempt
are among those delivered). The third needs that the right to work on an event
is in one place at a time, the emitter or one live task, and that nobody has it
once the event is processed.

`OpenKnowsSince`: `AbertoTemHora`, the safety half of `AbertoReabre`, is
inductive with the types. The key that tells since when is deleted by a worker
that will close the breaker, and missing after one that will write it.

`ImplementsRedis`: `MemoriaSpec` implements `RedisTtl` under the mapping of an
expired item to an absent one, by one lemma per command: what a command drops
was not seen (`LargaVista`), what it writes is (`GuardaVista`), and time ends
both at the same moment (`MTempoPasso`). The walk over the keys in the presence
of expired ones is outside, as Redis has no such failure.

### 4.4 Tokens, cards

`MpTokenTypeCorrect`, `ConnectedCanRenew` (`MpTokenProofs`): a pair that was
issued and not yet stored is known to one session only, and it is good; so
whatever order sessions write in, what they write was not used up. It is said of
an operacao whose status is connected (`ligada`): what lies in the columns of a
disconnected one may be used up.

`CardPayable` (`CartoesProofs`): every record of the customer anybody knows was
created for it, so with a single one the card's record is the payment's; a card
about to get a row is at Mercado Pago or was taken away there.

### 4.5 Reminders, the bot, dead letters (`LembretesProofs`)

`OneRunADay`: whoever runs has set its day's key, and the key outlives the run
by what its expiry is longer than the time limit (`Sobrevive`); so whoever finds
no key finds no run. `OneReminderADay`: of a contract outside `repetivel`, one
worker at most has it, a worker that has sent nothing finds nothing sent for its
day, and what was sent for a day is marked or in the hands of that worker
(`Lembrada`).

`EveryMessageAnswered`, `RequestAnnounced`: at each stage of a message, what was
read of it is what the current menus and owners say, as long as nobody changed
them (`Coerente`); replies and notices are zero up to the stage that makes them
(`Percurso`, `Avisado`).

`DeadLettersOpen`: the details of an item are written before its id and removed
after it. So what has to be shown is that nobody removes the details of an id
another one is about to push (`Chegando`), or pushes one that is being removed
(`Partindo`): a task dies once, and operators see only what was listed. The list
is at most its limit plus the workers that are trimming plus the deaths
(`NoLimite`). `Sem`, the removal from the list, is a function of positions, which
can be reasoned about.

### 4.6 Fleet, files, expenses (`FrotaProofs`)

`RentedHasContract`: a rented vehicle has a contract that *keeps* it; a session
that is deleting the contract has not come to the vehicle yet, or will set it
free (`Guarda`). A token renewal commits contracts and vehicles at different
moments, in an order that keeps this true.

`NoLitter`, `FilesOpen`: each upload has one session (`Subindo`), and what a
session still has to remove it has on its list as long as nothing failed
(`EmDia`). `FilesOpen` has two halves. Of attachments, an action property: no
step takes the file of a row that stays, but those of the deletion of a whole
entity. Of the photo, an invariant over overlapping requests: the file is there
unless two requests overlapped and none has run alone since; a request that has
been alone so far knows the path that is stored and what it will remove
(`FotosInv`).

`MirrorIsUnique`, `MirrorHasValue`, `BooksMatch`: a link leads to an expense made
for that maintenance (`EmpenhoOK`), the way back leads to where it came from
(`EntradaOK`), and a request that has a maintenance to itself knows both values
(`EdicaoOK`). `BooksMatch` includes the equality of the two totals, over any
number of maintenances: links are a bijection between the maintenances and the
mirror expenses of a period that keeps the values, and `Soma` over sets related
so is equal, by well-founded induction on the size of the set.

### 4.7 Access (`AcessoProofs`)

`RevokedStaysShut`: what a session is about to write to a link is new to the
charge, was never spent, and is that session's own (`Inedito`).
`RevokedIsRefused`: nothing is stamped beyond the epoch, what is revoked is
stamped before it and does not outlive the epoch's key, and who read the epoch
before a revocation stores while that key is still new (`Atrasados`).

`LimitHolds`, `CountersExpire`: requests are let in one at a time, each below the
limit; a counted failure moves one from the requests inside to the counter.

`RelationsStayInside`: a row waiting to be written refers to rows of its
operacao (`Pendente`), and no other request inserts the same (`Reservadas`);
rows never change operacao. `OwnersKeepToTheirOwn`, an action property: what a
request is about was settled from its user when it was checked, users do not
change sides, and a row that refers to another is of the same operacao, so that
what a deletion unlinks is the owner's too (`DonoOK`).

### 4.8 What stays with TLC

All liveness properties (`PagaERecebida`, `EstornoRefletido`, `DisputaRefletida`,
`TarefaTermina`, `PerdidoSai`, `AbertoReabre`, `Desbloqueia`, `VencidoTermina`,
`ExcluidoSai`), since neither fairness nor ENABLED is in the prover's reach, and
the counterexamples of the three violation runs. Every invariant and every
action property of a passing run has a theorem but `PagamentoUnico`, and so have
both refinements.
`CodigoVivo` has none for the daily pass, of which it is false. The sequential
refund properties are false of overlapping handlers (section 5): `Sozinho`
is a condition on the deployment that the code does not enforce. That each world of `MCRetaguarda` and `MCPlataforma` restricts
its component (`PoucosVeiculos`, `PoucasLinhas`) concerns the runs only; the
theorems are about the unrestricted specifications.

## 5. Disagreements found

Listed in `PROJECT.json`, each with a run: the reconciliation job credits a
charge twice (`reconcile_double`), equal partial refunds share an idempotency
key (`refund_key`), the double-checked refresh of a token does not check
(`mp_token_twice`).

More of the same kind have a configuration to run by hand:

| configuration | property that fails | case |
|---|---|---|
| `DuplicateOpen.cfg` (MCBilling) | `UmaCobrancaAberta` | two PIX requests, no open charge: FOR UPDATE locks nothing, both insert |
| `DuplicateOpen.cfg` (MCBilling) | `UmaReceitaPorPagamento` in place of its invariant | two deliveries of one subscription payment at the same time |
| `TickCancelsFirst.cfg` (MCBilling) | `CodigoVivo` | the daily pass cancels the old order before it commits the new one |
| `SupersededPix.cfg` (MCBilling) | `PagamentoConfirmado` | a code is paid while it is being replaced |
| `ChargebackTwice.cfg` (MCRefunds) | `ChargebackUnico` | two overlapping deliveries of a lost dispute |
| `ChargebackTwice.cfg` (MCRefunds) | `UmaReceita` in place of its invariant | a confirmation validated before a total refund, handled after |
| `OutboxDlq.cfg` (MCOutbox) | `PersistidoEProcessado` as PROPERTY of `CalmSpec` in place of its invariant, `MaxRetries = 1` | an event emitted without Redis is never looked for |
| `OutboxDlq.cfg` (MCOutbox) | `EsgotadaNaDlq` | a task that used up its retries is not queued as dead |

One more needs a change of the property: with
`\/ receitas[j].cobranca \in soltas` removed from `UmaReceitaPorCobranca`,
`MCLocking.cfg` (MCLocked) shows a charge that is credited while a PIX request
renews its token, is re-opened by that request (`billing_service.py:442`) and
credited again through its new order. The properties of `LockedBilling` keep the
excuse so that they say what holds.

Others are stated in the modules and were checked by hand with the constants of
`MCRetaguarda.cfg` or `MCPlataforma.cfg`:

| property (module) | verdict | case |
|---|---|---|
| `RevogacaoAtomica` (`Sessoes`) | fails | an old epoch expires while a token with its stamp, made later, lives on: its successor starts again from 1 (`refresh_tokens.py:105`) |
| `SemOrfaos` (`Anexos`) | fails | the files of an entity are removed before its deletion commits, and the database refuses it: the rows come back, their files do not (`anexo_service.py:148`) |
| `ScanCompleta` (`RedisMemoria`, `MemoriaScanSpec`) | fails | the walk over the dict drops an expired key from the dict it walks over, which raises (`redis_client.py:106`) |
| `EspelhoReflete` (`Despesas`) | fails | two crossed editions, one of which keeps a value it loaded (`manutencao_service.py:144`) |
| `EnviadoAbre` (`Portal`) | fails | two sessions each make a link, the later commit buries the one that was sent (`payer_portal_service.py:117`) |
| `SemDetalhesSoltos` (`FilaMorta`) | fails | a retry writes its status after a discard (`celery_observability.py:167`) |
| `UmPadrao` (`Cartoes`) | fails | two first cards saved at once, or two choices of the default |
| `SoNaPropria` (`Escopo`) | holds, proved (`OwnersKeepToTheirOwn`) | an owner lists, opens and changes rows of the own operacao only |

## 6. Plan

What is next, in order; each module is written so that it can be proved about
(constants with one named assumption, one action per operation, no RECURSIVE
operator).

1. Proofs: `PagamentoUnico`, which needs the argument of `Lugares` for the
   locking part with lost locks; then consequences across components, such as that a charge whose books are
   exact and whose due date is paid (`BooksAreExact`, `DueDateIsPaid`) is never
   both received and refunded beyond its amount, and the type invariants of the
   parts that have them inside larger invariants only.
2. The deletion of a contract with its charges, as an action of `Billing`:
   what a payment in flight meets.
3. `Disjuntor` composed with `Outbox`, whose retries together are shorter than
   the time the breaker stays open.
4. The status notifications of subscriptions in the composition of `Billing`,
   with `Frota`'s view of them.
5. Late fee, score and `add_cycle` as operators against reference definitions
   over bounded inputs.

## 7. Not modelled

Passwords, JWT and webhook signatures are library calls, and notifications in
the models are authentic. HTTP payloads, message texts, PDFs, metrics, health
checks, migrations, scripts and the user interface keep no state the properties
depend on. `PROJECT.json` gives the reason for each component.

Known hazards without a model: the contract number is the maximum plus one, read
without a lock (`fleet_service.py:449`); monthly cycles are added one to the
last due date, so a contract that starts on the 31st drifts to the 28th
(`billing_service.py:77`); a score of 0 counts as missing and is taken for 50
(`scoring_service.py:27`); the daily pass may write `inadimplente` over a
payment that committed meanwhile, which the next pass or payment overwrites
(`tasks.py:464`, modelled in `Delinquency` without a property, as no text says
what must hold); a vehicle's event is committed after the vehicle, in a second
transaction (`fleet_service.py:142`).

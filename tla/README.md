# Radar dos Leilões: specification and verification

Radar dos Leilões gathers the lots of some hundreds of Brazilian auction sites, shows them in one
catalogue with live bids and alerts, and sells access through an invitation, a hosted checkout and a
recurring subscription. This directory holds TLA+ models of its stateful protocols, TLC
configurations that check them, and TLAPS proofs about them. Paths below are relative to the
repository; `RP` stands for `src/infra/database/repositories`, `BL` for
`src/application/services/billing`, `OB` for `src/application/services/onboarding`.

## 1. Inventory

Every process is a Node program: one thread, concurrency only at an `await`. What makes it hard is
that there are several of them. Each API replica polls its own onboarding workers (every 5 s, guarded
by `inFlight`/`stopping` flags that are local to the replica), several BullMQ workers collect, refresh
and verify, and they meet only in PostgreSQL rows, Redis locks and the services of third parties.

| Component | State | Operations | Talks to | What is hard | What makes it correct |
|---|---|---|---|---|---|
| Checkout dispatch (`BL/onboarding-checkout-dispatcher.ts`, `RP/onboarding-checkout.repository.ts`) | `onboarding_checkout_attempts.state`, link, `updated_at` | invite, consume (queues), claim, create at provider, record created/rejected/unknown, recover stale | payment provider | no answer is not a refusal; recovery races a slow worker | one checkout per registration; verdicts stand; every queued attempt settles |
| E-mail outbox (`OB/onboarding-email-dispatcher.ts`, `RP/onboarding-email.repository.ts`) | `onboarding_email_outbox` rows: attempts, lease, token cipher | claim a batch, check lease, send, mark sent, retry, clear, pause | SMTP | leases lapse inside a batch; the number of attempts doubles as the fencing token | exclusive leases, bounded copies, the token kept as long as needed and no longer |
| Payments (`BL/onboarding-payment-*.ts`, `BL/onboarding-paid-payment-coordinator.ts`, `RP/onboarding-payment*.ts`, `RP/onboarding-paid-access.repository.ts`) | webhook inbox, `onboarding_initial_payments` with a lease, `onboarding_paid_access` ledger, activation invitation | record webhook, take batch, read provider, claim/commit/release reconciliation, record payment, finish | payment provider, outbox | repeated and reordered events, stale snapshots, two transactions that must both happen | paid access only for confirmed payments; one activation; reviews have a cause and stand; nothing paid is forgotten |
| Paid periods (`src/domain/billing/paid-access-period.ts`) | none (pure) | interval of a payment, union of intervals | payments | month ends, gaps | intervals chain without gap or overlap |
| Checkout payment e-mail (`BL/onboarding-checkout-email-dispatcher.ts`) | columns of the attempt row | claim, send, mark | SMTP | a crash leaves no error, so the claim counter is not the only bound | bounded copies, only for created checkouts |
| Activation and admission (`OB/onboarding-activation.service.ts`, `RP/onboarding-activation.repository.ts`, `RP/onboarding-admission.repository.ts`) | activation intents, accounts, bindings | start, claim callback, exchange, bind, fail, admit | identity provider, browser | requests minutes apart; rivals for one identity; a commit that is answered with an error | an intent and its binding agree; an identity is bound once; an intent that was claimed is settled |
| Collection (`src/application/services/collection/collection.service.ts`, `RP/lots.repository.ts`, `src/infra/queue/job-ownership.ts`) | runs, lots, bid history, Redis job lock | start run, collect, upsert batch, finish, cancel, drain | auction sites, Redis | a worker that lost its job still holds a transaction | batches are all or nothing; a dispossessed worker never overwrites its successor; current bids have a history; every execution comes to its commit or an end |
| Schedule (`src/queue/*.ts`, `src/connectors/tenant-scheduler.ts`) | BullMQ queues, rotation cursors, the gate's chain of promises | schedule, rotate, take, refresh batch, daily run | collection | a source that hangs or throws must not stop the rest; a browser that outlives its run | one operation in the gate; every job ends; every tenant gets its turn |
| Brake and tenant attempts (`src/domain/collection/*.ts`) | outcomes of past runs | decide, register | schedule | callers that ask while others run | a failing source rests and comes back |
| Closure (`src/application/services/closure/lot-closure.service.ts`, `RP/lot-closure.repository.ts`) | status, start and end of lots | close by deadline, by absence, apply verdicts, correct the end | auction sites | verdict is older than the row it is applied to; a site that hides the end, or reuses the id | a lot that is gone closes, one that is listed is open, an end is of its auction |
| Live bids (`src/application/services/live-bids/live-bids.service.ts`) | current bid of lots | cycle | auction sites, realtime | writes the rows collection writes | history has every change |
| Alerts (`src/application/services/notifications/notification.service.ts`, `RP/alerts.repository.ts`, `src/application/services/collection/post-collection.ts`) | hits, delivery marks, devices | evaluate, limit, push, e-mail, mark | push service, SMTP | overlapping executions, windows, failures between a notice and its marks | a hit is told at most once on a channel, and silence has a cause |
| Realtime, WebSocket admission (`src/application/security/ws-protection.ts`, `src/infra/websocket/*.ts`) | connection counters | upgrade, admit, close | browsers | a close between check and count | counters match open sockets |
| Anti-bot and limits (`src/application/security/*.ts`) | scores, challenges, slots | score, challenge, acquire, release | every request | bounded maps, decay | a slot taken is given back |
| Sessions and OIDC (`src/infra/auth/*.ts`) | signed cookies | issue, verify | identity provider | clocks | - |
| Accounts, catalogue, search, images, pages, discovery | rows, caches | single-statement reads and writes | browsers | - | - |
| Normalisation (`src/domain/lots/*.ts`), connectors (`src/connectors/*.ts`) | none | text to lots | auction sites | parsing | - |

The hazards of each component, at their lines, are in `PROJECT.json` under `hazards`.

## 2. Modules

| Module | Models | State | Actions |
|---|---|---|---|
| `CheckoutPromise` | what the dispatcher promises, without workers or time | `verdict`, `orders` by registration | `Order`, `Confirm`, `Refuse`, `Doubt` |
| `CheckoutDispatch` | invitation to checkout at the provider | the attempt row (`attempt`, `errorCode`, `linked`, `overdue`), the provider's `orders`, each worker's place, job and answer | one per awaited statement of `dispatchOnce`: `Recover`, `Claim` / `FindNothing`, `CreateCheckout`, `StoreCreated` / `StoreRejected` / `StoreUnknown`; `Invite`, `Consume`, `Expire`; `Age` (the clock); `FailToStoreCreated`, `Abandon` (faults) |
| `CheckoutMail` | the mail with the payment link, on the same row and in the same loop as `CheckoutDispatch`, which it extends | the row's `tries`, `lease`, `trouble`, `due`, `sent`; `paid`; the leases under which the transport was given a mail (`sends`); each worker's `stage`, place and lease | every action of `CheckoutDispatch` in its stage (`CheckoutStage`, `CheckoutFault`, `RegistrationStep`); `ClaimMail` / `FindNoMail`, `PauseUndeliverable`, `CheckLease`, `SendMail`, `MarkSent`, `StoreRefusal`; `Pay`, `Lapse`, `ComesDue`; `Overrun`, `AbandonMail` (faults) |
| `MailPromise` | what the outbox promises about one mail, without replicas, leases or retries in time | `standing`, deliveries `begun`, `copies`, what `reached` somebody | `Pass`, `Copy`, `Confirm`, `Pause`, `Change` |
| `EmailOutbox` | the outbox of onboarding mails | the row (`sent`, `token`, `attempts`, `lease`, `due`), the invitation, what the transport took, each worker's batch | `ClaimPending`, `TakeExpired` / `TakeRefused` / `Take`, `GiveUpDecrypting`, `SendMail`, `Acknowledge`, `FinishBatch`; `Lapse`, `ComesDue`, `Expire`, `Consume`, `Revoke`; `Abandon` |
| `AccessPromise` | what payments promise to a subscriber, without webhooks, queues, leases or snapshots | what was `confirmed` and `complained` of, `owner`, `standing`, `invited`, `granted` | `Say`, `Bind`, `Reject`, `Withdraw`, `Grant` |
| `PaymentReconciliation` | webhooks to paid access, for one subscriber | `inbox`, the initial payment, activation `invitations`, `ledger`, reconciliation `lease` and its `holder`, the provider's `evidence`, each worker's place, event and snapshot | `Receive`, `TakeBatch`, `Retrieve`, `FindOwner`, `ClaimReconciliation`, one `Commit...` per outcome of `commitReconciliation`, one `Record...` per outcome of `recordCanonicalPayment`, `FinishReconciled`, `FinishReview`; `Turn` (the provider), `Lapse`, `Stall`, `RetrieveFails`, `Abandon` |
| `LotCollection` | collections of one site and the live reader writing the same lots | the jobs' `lock`, each execution's place, run, page and open batch (`prev`, `wrote`, `noted`, `novos`), the table (`row`, `history`), `alert`, `live` | `Take`, `StartRun`, `Collect`, `Begin`, `ReadPrev`, `Upsert`, `Authorize`, `Commit`, `PostCollect`, `FinishRun`, `FailRun`; `Lapse`; `Deadline`, `Cancel`, `Refused`, `WaitTooLong`, `Dispossessed`, `CommitUnheard`, `ObserverFails`, `LeaveOpen`, `Crash`; `UpdateLive`, `RecordLive`, `AbandonLive` |
| `LotClosure` | the status, start and end of a lot, with its five writers | the `site`, the `page` a collection has read, the row (`status`, `start`, `end`, `endOf`), sweeps that `missed` it, `verdict` and `live` in hand | `Read` / `Miss`, `Upsert`, `CloseOutOfScope`, `SweepMissed`; `EncerrarPorPrazo`, `EncerrarPorAusencia`; `Answer` / `NoAnswer`, `AplicarVereditos`, `CorrigirPrazo`, `AbandonVerification`; `ReadLive`, `RecordLive`; `Change` (the site), `Tick` |
| `GatePromise` | what the gate promises to the operations it is given, without the chain, slots or runs | `stage` of each, those `ahead` of it | `Ask`, `Admit`, `Leave`, `Restart` |
| `CollectionQueue` | jobs that share the gate, the brake and the worker's slots | each job's place, its connector (`busy`), its operation in the chain (`gate`, `ticket`, `tail`), its run as the brake reads it (`ok`, `at`, `nth`) | `Take`, `Enter` / `Refuse`, `ConsultaFreio` / `Freado`, `StartRun`, `OpenBrowser`, `Settle`, `Abandon`, `Breaks`; `Crash`, `Tick` |
| `NoticePromise` | what the alerts promise to a subscriber, without executions, devices or the order of the channels | `since` when a match is known; copies `told`, and what is `marked`, `leftOut` or `lost`, by channel | `Pass`, `Find`, `Notice`, `MarkTold`, `LeaveOut`, `Lose` |
| `AlertDelivery` | evaluation of alerts and delivery of their hits | `alert_hits` (`created`, `notified`), `device`s, each execution's place, `fired` hits, channels found `shut`, and the notice in hand; history of `copies`, `deferred`, `givenUp` | `Start`, `Evaluate`, `Evaluated`, `Ask`, `List`, `BeginPush`, `Push` / `PushGone` / `PushFails`, `EndPush`, `Pushed`, `Mail` / `MailFails`, `MailMarkFails`, `Mark`, `Mailed`, `Break`; `Subscribe`, `Tick` |
| `ActivationPromise` | what an activation promises, without browsers, clocks or transactions | `trial` and `owner` of a registration, `account`s, what is `paid` | `Try`, `Bind`, `Fail`, `Suspend`, `Enter` |
| `AccountActivation` | a paid registration becomes the account of an identity | `intent`, `expired`, `paid`, `account`s, `binding`s, each callback's place and `principal`, and what `cut` it off | `StartAtomic`, `ClaimCallback`, `Exchange`, `BindLook`, `BindCommit`, `BindThrows`, `FailAtomic`; `Review`, `Expire`, `GarantirUsuario` (the rest of the system); `FailUnrecorded`, `Die` |

How the code is read:

- A step is what happens between two awaits. A transaction is one step where nothing else can be seen
  from inside it; `LotCollection` takes the batch apart, because its SELECT and its upsert see other
  transactions' commits, and row locks are what its correctness rests on.
- A clock is reduced to the comparison the code makes of it: `overdue`, `lease = "lapsed"`, `due`.
- A fault is a crash, a statement that throws, a statement that is committed and then throws, or a
  call that times out. In the billing models `MaxFaults` (for the checkout mails `MaxMailFaults`) bounds them, in
  `CollectionQueue` `MaxCrashes`; in `LotCollection`, `AlertDelivery` and `AccountActivation` every
  execution, or callback, may fail wherever the code can, and it is these that are finite; in `LotClosure` nothing bounds them.
- A name such as `Claimable_Unlimited` is the definition before the underscore with a plausible mistake in
  it. No behaviour uses it. Substituted for the original, it makes the property it is listed with
  in `PROJECT.json` fail: so each property is known to notice something.

How the modules fit together. `CheckoutDispatch` instantiates `CheckoutPromise` with what its rows and the
provider's orders show (`Promise == INSTANCE CheckoutPromise WITH ...`) and is checked and proved to
implement it. In the same way `EmailOutbox` instantiates `MailPromise`, `PaymentReconciliation` `AccessPromise`, `CollectionQueue`
`GatePromise`, `AlertDelivery` `NoticePromise` and `AccountActivation` `ActivationPromise`, each under the name `Promise`: the promise speaks of mails, payments, operations, matches
and registrations, and knows nothing of who works on them. `CheckoutMail` composes the dispatcher of checkouts with that of their mails: two stages of one loop, over one row. Every step
of it is a step of `CheckoutDispatch` or leaves its variables alone (`DispatchInside`). The others share a boundary rather than variables. The novos of `LotCollection` are the sets `Start`
hands to `AlertDelivery`: any set, for the batches' own properties say which lots they may hold. A `Collect` of
`LotCollection` is a job `CollectionQueue` has let in, and `Settle` or `Abandon` there is the end of an execution here.
`LotClosure` sees a batch as one write of a lot, and `LotCollection` sees only the bids of it. A registration
enters `AccountActivation` where `PaymentReconciliation` has made its activation; `Review` is the commit of that module that
puts a payment under review.

`map` in `PROJECT.json` has the lines each definition stands for.

## 3. What is checked

| Run | Properties | Instance | Distinct states |
|---|---|---|---|
| `checkout_dispatch` | `AtMostOneOrder`, `CreatedIsPayable`, `LateAnswerIsKept`, `KeepsPromise`, `CopiesAreBounded`, `MailedIsPayable`, `PauseHasCause`, `EveryAttemptIsTold` | `CheckoutMail`: 2 workers, 3 registrations (one off the allowlist, one that cannot be mailed), 2 attempts, 2 faults and 1 in the mails' stage | 530 308 |
| `email_outbox` | `LeasesAreExclusive`, `SendsAreBounded`, `TokenRetention`, `KeepsMailPromise`, `DeadTokenErased`, `EveryMailEnds` | 2 workers, 2 rows (one defective), batch of 2, 2 attempts, 1 fault | 502 208 |
| `payment_reconciliation` | `LedgerIsPaid`, `OneActivation`, `ReconciledIsBacked`, `ReviewHasCause`, `DecisionsStand`, `KeepsAccessPromise` | 2 workers, 3 events of 2 payments, 1 fault, symmetry | 2 542 665 |
| `payment_recovery` | `BoundPaymentIsRecorded`, `PendingIsDecided` | 2 workers, 2 events of 1 payment, 2 faults | 248 502 |
| `lot_collection` | `CurrentBidRecorded`, `RunTellsTruth`, `NewLotsAreAnnounced`, `SuccessorWins` | 2 executions, 2 jobs, 2 lots, bids 0 and 1, symmetry | 2 937 547 |
| `lot_runs_end` | `EveryRunEnds` | the same without bids, no symmetry | 259 056 |
| `lot_history` | `BatchChangeIsRecorded`, violated | 2 executions, 1 lot, bids 0 to 2 | - |
| `lot_closure` | `CollectedEndIsOfAuction`, `GoneLotsClose`, `ListedLotsReopen` | 1 lot, 3 kinds of source with absence off or on, starts and ends up to 1, clock to 2 | 347 040 |
| `collection_queue` | `GateIsExclusive`, `BrakeBoundsFailures`, `KeepsGatePromise`, `EveryJobEnds` | 2 collections (one hangs), 1 refresh, 1 daily browser; serial and parallel; 1 crash | 503 992 |
| `alert_delivery` | `ToldOnce`, `SilenceHasCause`, `KeepsNoticePromise` | 2 executions, 1 alert, 2 lots, 2 channels, 1 device, windows of 1 and 2 | 1 563 890 |
| `alert_window` | `NextNoticeJoinsDeferred`, violated | 3 daily executions one after the other, 1 alert, 3 lots, e-mail only | - |
| `account_activation` | `BindingsAgree`, `NoneStranded`, `KeepsActivationPromise` | 2 registrations, 2 identities, 3 e-mails, symmetry | 87 320 |

Types are not checked on a run of their own: every module's type invariant is proved (section 6). What the runs show:

- **Checkout.** A registration gets at most one checkout, although the provider's silence is
  ambiguous, workers die with an attempt in hand and recovery closes attempts under slow workers.
  Recovery never queues an attempt again, and the late answer of a slow worker is kept. The
  dispatcher implements `CheckoutPromise` (`KeepsPromise`).
- **Checkout mails.** What is mailed can be paid, also when a late answer made it so. A claim clears the error of the last
  one and the query's bound on attempts reads the error, so a claim that ended in nothing can be repeated past the limit; it is the check in
  `deliver` that keeps the number of copies within it, and the next claim ends in a pause. Such a pause may be recorded
  while a mail of an earlier lease still goes out. Every attempt comes to a refusal, a doubt, a mail, a payment or a pause.
- **Outbox.** The number of attempts is a fencing token: a lease is in one pair of hands, and a
  person gets at most as many copies as there are attempts. Secrets do not outlive their use.
  The outbox implements `MailPromise`: whatever the replicas believe, only the copy of the latest delivery confirms a mail, a
  confirmed, erased or paused mail is not begun again, and no delivery is begun for an invitation that is over or stopped when its batch is claimed.
  `Copy` allows for a late one: a mail claimed in time may go out after it was erased.
- **Payments.** Duplicated, late and concurrent webhooks make one activation; only payments that were
  confirmed give access; what a replica that died left half done is done by another one. The implementation of
  `AccessPromise` says it without the machinery: bound once and to a confirmed payment of the checkout, nothing granted that is under review when it is written, no way back from a review. The
  promise cannot ask that a payment *is* confirmed when it is bound or granted, only that it was: the replica read it before an await.
- **Collection.** The source says of its commit that it "is not fenced". It need not be: a worker asks
  for its job's lock with all its rows locked in the database, so a successor of the job cannot have
  written one of them before, and if the successor comes after, it is the one who overwrites. Bids
  that are current are in the history; the exception is a live reader that dies between its two
  statements.
- **Closure.** An end that a source withholds while an auction is live is kept, and forgotten when the id comes back
  with another auction. A lot that left the site closes as long as something can close it: a clock of its own, absence
  (off by default), or a verifier, however many sweeps and verifications fail. A stale verdict or
  deadline closes a listed lot only until the next sweep. `HasWayOut` is not always true: a lot that was relisted
  without an end, closes by a timer and has no verifier stays open when it disappears. And `Reader` in
  `CollectedEndIsOfAuction` is a real exception: `corrigirPrazo` and the live reader update by id, so an end they read before a
  relisting is written on the new auction.
- **Queues.** Whatever throws, hangs or is cancelled, in the chain or in a run, the next operation has its
  turn, and never before its time. A source that only fails gets no more attempts than the brake allows and as many as there are
  callers at once. In parallel mode the "sonda" may so be several. `EveryJobEnds` needs daily connectors with a
  browser to settle: one that ignores its signal keeps the gate closed, which is what `GateIsExclusive` demands of it. The gate
  implements `GatePromise`, although an operation knows only the one before it: nobody is overtaken, in whatever way the others left. In serial mode
  the opposite holds: an abandoned collection leaves the gate at once, while its own browser may still be open.
- **Alerts.** The unique row per alert and lot makes executions tell disjoint hits, so nobody hears of a lot twice on
  a channel. A hit that nobody heard of has one of four causes: its execution broke off (although a comment says the
  notice can be processed again, nothing does), its channel was closed by a recent notice on that
  same channel, no device was there to take it or was seen to, or the transport or a mark threw. The comment on the service says that
  channels fail in isolation; a statement that throws in `enviarPush` takes the e-mails of the execution with it.
  `NoticePromise` tells it match by match: found once, told only while nothing is known of it on the channel,
  left out only while an earlier notice closes the channel. What is left out or lost is so for good: no later notice brings it,
  and a mark that comes late does not undo it.
- **Activation.** An intent is bound exactly when its registration is, also when the commit is answered with
  an error and the service then records a failure. Rivals for an identity end as conflicts. A lost answer, an expired or
  a failed intent cannot be tried again: the invitation is consumed and the intent is unique per registration. What strands
  an intent in exchange, where no callback can claim it and nothing sweeps it, is one of three things that happened to its own callback
  (`NoneStranded`): its process died, its failure could not be recorded, or its claim was committed and answered with an error. The last needs
  no crash: `complete` answers an error of `claimCallback` with a temporary failure (`OB/onboarding-activation.service.ts:103-104`) and records
  nothing, for it has not seen the intent's id. Every other end of a callback settles the intent. `ActivationPromise`
  adds what takes two transactions to see: a registration is bound only while its payment is in order, because the row of the payment stays locked
  from the look for a rival to the commit, and a review has to wait.

### Disagreements with the source's own words

`lot_history`: the comment on `upsertLots` (`RP/lots.repository.ts:47`) says "Quando o lance muda,
grava histórico e devolve a mudança". The previous bid is read by a SELECT that does not lock (line
78). A live reading or another batch that comes between this SELECT and the upsert is overwritten by
the older bid of the page, and since that bid equals the one the SELECT saw, neither the history nor
the list of changes gets a row. `CurrentBidRecorded` is what remains true: the bid that is current is
somewhere in the history, though not as the last entry.

`alert_window`: the comment on the limits (`src/src/application/services/notifications/notification.service.ts:29-30`, and
again `src/src/queue/daily-worker.ts:93`) says "o aviso seguinte junta tudo o que entrou no meio". A hit deferred by a
closed window has its row already, so the evaluation never returns it again, and nothing reads rows that are not marked. The next
notice has only the lots of its own execution. `SilenceHasCause` is what remains true: whoever was not told was
left out by a notice on the same channel, no older than the window.

## 4. Bounds

Two workers are enough for every hazard listed: each needs one that was overtaken and one that
overtook. A third would repeat the role of the second; the proofs, which hold for any number, confirm that the
safety properties do not depend on it.

- *Checkout*: two allowed registrations, so that recovery can close several attempts in one
  statement and both can be in dispatch; a third is not allowed and stays queued. Two faults, so that a worker
  dies after a write that was committed and not heard of.
  For the mails two attempts and one fault (a claim that ends in nothing) lead past the limit; one registration cannot be mailed.
- *Outbox*: a batch of two, because the hazard is the tail of a batch whose lease lapses while its head is
  being sent. Two attempts reach the limit with a lease that was taken over. The code's limit of eight
  differs in length only. One row whose mail cannot go out, one that can.
- *Payments*: two events of the first payment race for one binding; the event of the second payment conflicts
  with them. For liveness one payment and two faults, so that the replica that recovers may fail too.
- *Collection*: two jobs and two executions give both a successor at the same job and a rival with
  another. Two lots let batches lock rows crosswise. Bids of 0 (no bid) and 1 distinguish known and
  unknown bids for safety; the history run needs two bids that differ. A bid the site quotes as a literal zero
  is taken for no bid, and amounts are exact in cents.
- *Closure*: lots do not interact, so one will do. Two auctions are told apart by their start (none and 1), and ends at 0
  and 1 with a clock to 2 put a deadline before, at and after each. One sweep is enough for absence, since the count of sweeps matters only by
  its limit. Pages are those that differ to some writer.
- *Queues*: three jobs in the chain have a first, a middle and a last; a fourth of another kind needs the browser. One failure
  closes the brake and an hour opens it, where the code has five and six: the callers that ask at once are what matters,
  and they are as many as in the code. One crash gives the jobs to another process or fails them.
- *Alerts*: two executions overlap on two lots, so that each may insert what the other found, and both lots may be in one notice. Alerts do not
  interact but through the devices of their owner. Push opens again at 1 and e-mail does not. A device dies at the second failure (the code: the fifth).
- *Activation*: two registrations and two identities, so that each can be bound across; a third e-mail is the account of somebody else.
  A registration has one intent, and an intent one callback that claims it, so faults need no bound.

Deadlock is checked for the checkout and the payments, where polling never stops. It is not for
the outbox, which is at rest when every mail has ended, nor for collections,
jobs, alerts and activations, which happen once each, nor for closure, where a lot may be left with nothing to do.

## 5. Fairness

Fairness is assumed of code that runs by itself, and only of it:

- The dispatch loops reschedule themselves after every pass, failed or not (`BL/onboarding-dispatch.worker.ts:48-65`),
  and each call they make has a timeout: weak fairness of the loop's two stages together
  (`CheckoutStage`, `MailStage`), of `Dispatch` in the outbox, and of `Process`. Crashes and faults are not fair, and there
  are finitely many.
- Clocks advance: weak fairness of `Lapse` and `ComesDue`, and of `Clock`, which also ages dispatches.
- The payment queue is served by the age of the last attempt, so an event is not passed over for ever:
  strong fairness of `TakeBatch` by event.
- A collection's own steps, its deadline (`comPrazo`, a race that holds even if a connector never returns) and the end the database puts to
  a wait (deadlock detection, the 300 s of the transaction) are weakly fair. `Collect` is not: sites
  need not answer. `PostCollect` is not: it waits for a push service that is given no deadline. `EveryRunEnds`
  therefore ends at that point and starts again after it.
- Sweeps, the minute's closure and verification are repeated for ever by timers and the queue (`src/src/queue/worker.ts:575-581`). Of
  sweeps and verifiers no more is assumed than that they succeed now and then: strong fairness of `Read`, of `Answer`, and of
  applying a verdict that finds a lot gone.
- Queued jobs are taken, promises and timers go on: weak fairness of `Take`, `RunCollect`, `OpenBrowser` and `Abandon`. A connector settles
  (`Settle`) unless it is one of those that hang.
- Nothing is assumed of people, of the payment provider's decisions, or of locks lapsing.

`BoundPaymentIsRecorded` and `PendingIsDecided` are conditional: they speak of behaviours in which the provider,
from some point on, confirms every payment.

## 6. What is proved

Theorems hold for every value of the constants that satisfies the modules' `ASSUME`s: these say that the
null values are no members of the sets they stand apart from, that subsets are subsets, and that
bounds are natural numbers. Every proof has the same shape: `Init => IInv`, one lemma per
action (or per group of actions that do the same to the invariant) for `IInv /\ Next => IInv'`,
and `Invariance == Spec => []IInv`, from which the properties follow. Where a module implements a promise, there is one more lemma for each
group of actions: from a state of the invariant it is a step of the promise or a stutter (`Step...`), and the theorem on the behaviours
(`...KeepsPromise`) combines them. The primed values of the refinement mapping are spelled out point by point, because the prover does not look into
functions by itself.

| Module | Theorems | The argument |
|---|---|---|
| `CheckoutDispatchProofs` | `TypeCorrect`, `OneOrder`, `CreatedPayable`, `RejectedSafe`, `SettledFinal`, `LateAnswerKept`, `StepKeepsPromise`, `Implementation` | `AtMostOneOrder` alone is not inductive: a claimed attempt could already have an order. `QueuedIsUntouched` says it has none, `ClaimsAreExclusive` that one worker has it, `HeldIsOpen` that what the worker believes of the provider is true. From these, every step is a step of `CheckoutPromise` or a stutter. |
| `CheckoutDispatchProofs`, of `CheckoutMail` | `DispatchInside`, `MailInvariance`, `MailTypeCorrect`, `CopiesBounded`, `MailedPayable`, `PauseExplained` | `LeasesAreNumbered`: leases are numbered by the attempts and each is one worker's; `UnsentLeases`: a lease not yet served has sent nothing. `MailedIsCreated` follows from what is proved of the dispatcher, since a created attempt stays created. |
| `EmailOutboxProofs` | `TypeCorrect`, `ExclusiveLeases`, `BoundedSends`, `TokensRetained`, `StepKeepsMailPromise`, `OutboxKeepsPromise` | Numbers of leases only grow (`LeasesAreNumbered`), so a lease taken over is another one; a lease not yet served has sent nothing (`UnsentLeases`). For the promise a second invariant, `PromiseInv`: `ServedLeases`, a lease that has its answer is counted among the copies, so that who passes the fence confirms the latest delivery; `DefectsStand`, a mail is paused only if it is defective. |
| `PaymentReconciliationProofs` | `TypeCorrect`, `LedgerPaid`, `ActivationOnce`, `ReconciledBacked`, `ReviewCaused`, `DecisionsAreFinal`, `StepKeepsAccessPromise`, `PaymentsKeepPromise` | A snapshot is stale as soon as it is read; what stays true is history: `EvidenceIsHistory`, `BindingIsWhole`, and for each worker that what it saw once was so (`WorkerOK`). The promise remembers what was ever confirmed or complained of; so each of the seven commits and the ledger's insert is one of its steps although the provider has changed its mind. |
| `LotCollectionProofs` | `TypeCorrect`, `SuccessorPrevails`, `BidsStayRecorded`, `RunsTellTruth`, `LotsAreAnnounced` | `JobsAreHeld`: who holds a job has no successor. `RowsAreLocked`: rows of open batches are disjoint, and what a worker about to commit has locked was not last written by its successor. `BidsAreRecorded`: not only the row's bid but also the one a batch *saw*, and the one it is about to write, are in the history or will be, and history is never taken away. `NovosAreNew`: a lot not taken for new has a row, for rows are not deleted. |
| `LotClosureProofs` | `TypeCorrect`, `EndsFollowTheAuction` | `CollectedEndIsOfAuction` is inductive with the types; the only step with something to show is the upsert, which keeps an end only where the start is the same. |
| `CollectionQueueProofs` | `InductiveInvariant`, `TypeCorrect`, `GateExcludes`, `SlotsAreKept`, `BrakeInvariant`, `FailuresAreBounded`, `StepKeepsGatePromise`, `GateKeepsPromise` | `ChainInOrder`: tickets are numbered without gaps, and an operation that is in, or was, has only settled ones before it. `JobsInGate`: where a job stands says where its operation stands, so that a browser at work is one in the gate. `BrakeBoundsFailures` is not inductive: it must count what is still to fail. `BrakeInv` adds the tries that are *pending* (asked and not over) to the failures since the last success that have not rested, and bounds the sum; a caller is let through only below the limit, callers at once are bounded by the slots (`SlotsAreKept`, from which `EngagedBound`), and no other step adds to the sum (`TriesShrink`). |
| `AlertDeliveryProofs` | `ToldInvariant`, `TypeCorrect`, `NobodyIsToldTwice`, `SilenceIsExplained`, `StepKeepsNoticePromise`, `AlertsKeepPromise` | `HitsOwned`: a hit is of the one execution that inserted it. `CopiesCounted`: what an execution has still to tell was not told, what it has still to mark was told once. For silence, `PassedHasCause`: what an execution has passed is notified, deferred or given up, and none of the three is ever forgotten; `DeferredByNotice`: what is shut was shut by a notice that is later than the hit less the window. For the promise, `FatesKept`: a hit left out has its channel shut for the execution that holds it, one given up is not among those still to tell or to mark; and a step changes the fate of its own execution's hits only, because hits are owned. |
| `AccountActivationProofs` | `InductiveInvariant`, `TypeCorrect`, `BindingsAlwaysAgree`, `NoIntentStranded`, `StepKeepsActivationPromise`, `ActivationKeepsPromise` | `ClaimsHold`: a callback between its claim and its end has an intent in exchange, which nobody else moves. So the row it binds has no binding, and a failure recorded late finds no intent to fail; and a callback gives up its claim only by settling it or by being `cut` off, which stays on record. `OpenIsPaid`: a callback between its look and its commit has a payment in order, since `Review` waits for the row it has locked. |

Only model-checked, since the prover does not reach it: liveness (`EveryAttemptIsTold`, `DeadTokenErased`,
`EveryMailEnds`, `BoundPaymentIsRecorded`, `PendingIsDecided`, `EveryRunEnds`, `GoneLotsClose`, `ListedLotsReopen`, `EveryJobEnds`), anything
that needs `ENABLED`, and what recursive definitions compute (induction over data). No module has a
RECURSIVE operator. `SettledFinal` (no step changes a settled attempt, but for
the late answer of a recovered one) and `RejectedIsSafeToRetry` (a rejected attempt has no checkout and no worker that could still
make one; theorem `RejectedSafe`) are proved without a run of their own; `KeepsPromise` checks what they say of the promise.

## 7. What is not modelled

The components without a module are listed in `PROJECT.json` with the reason. Within the modelled
ones:

- *Checkout, outbox, checkout mails*: texts, templates, ciphers, back-off durations, request bodies, the checks of link, name and address. Leases are set by the
  clock of the process and, where a mail failed, compared with the database's: the two are taken for one. An address that changes while its mail is leased.
- *Payments*: the webhook's secret, several subscribers (they share no row), dates of periods, events of other kinds.
- *Collection*: the columns other than the bid, lots out of scope, a lot named twice by one page, events
  published to browsers (after the run is closed, and their errors are swallowed), `drain`, and the
  other sites of a refresh job: an execution is one site's share of it.
- *Closure*: how a page is read, batches per host, the back-off between verifications, and the reasons recorded.
- *Queues*: what the schedulers queue and when, rotation and attempts of tenants, the choice of hot sources; the brake reads the
  whole history of a source, where the code reads the latest 20 runs.
- *Alerts*: which lots match, the event for open pages, texts, and alerts edited or deleted while they are told.
- *Activation*: ciphers, tokens and OIDC exchanges, the admission of sessions, accounts without e-mail, a change of the configuration.
  The branch of `bindAtomic` for an intent already bound has no caller in the service.
- Connectors and the normalisation of lots are some forty parsers without shared state; pages and
  frontends present what the rows say.

The map covers about a twentieth of the lines. Most of the rest is text: some forty parsers of auction sites and the rules that normalise their lots
(`src/src/connectors`, `src/src/domain/lots`), a table of tenants (`src/src/queue/daily-coverage.ts`, data but for its last lines),
page rendering and HTTP routing (`src/src/legacy-host.ts`, `src/app-busca`). Regular expressions over HTML have no states to explore; a model of them would
be a copy of them.

## 8. Plan

Done: `CheckoutDispatch`, `CheckoutMail`, `EmailOutbox`, `PaymentReconciliation`, `LotCollection`, `LotClosure`, `CollectionQueue`,
`AlertDelivery`, `AccountActivation`, all with proofs, six of them with a promise they are proved to implement. Next, in this order:

1. `WsAdmission` and the resource limits: counters and slots against sockets that close between check and count.
2. Rotation of tenants: every tenant gets its turn although some fail.
3. Pure algorithms against reference definitions: `paid-access-period`, bounds on requests.

Theorems to follow: the safety of 1, and a promise for closure.

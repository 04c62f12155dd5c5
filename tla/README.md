# FieldForge: verification

TLA+ models of the FieldForge back end and of the applications in front of it, the TLC
configurations that check them on small instances, and proofs of the main results for
every instance.
All paths are relative to the root of the repository.

FieldForge is a multi-tenant ERP for field services: one Go API over PostgreSQL
(row-level security, one schema), built from a core and thirteen plugins, plus
three Next.js front ends. It has no consensus and no replication of its own; what is
hard in it is

- requests that change a row in one statement and do the next thing in another,
  with no transaction around the two;
- an event outbox whose poller runs in every API process, and whose handlers write
  outside the poller's transaction;
- third parties (Stripe, calendars, SMS) and phones that repeat, reorder and lose
  calls;
- a hundred pages whose handlers await calls that overlap: what a page shows, what it
  lets its user press, and what the server has by then.

The models keep exactly that: the order of the statements, which of them are atomic,
and what may happen between them.

## 1. Inventory

"Hard" names what tests can hardly reach; "right" says what makes the part correct.

| Part | State | Operations | Interacts with | Hard | Right |
|---|---|---|---|---|---|
| Event outbox `packages/core/events` | `domain_events.status`, `processed_events`, one transaction per `PollOnce` | `Publish`, `PollOnce`, `processEvent`, `dispatch`, `Run` | called by every plugin; calls handlers | two pollers, crash between effects and marks, redelivery | one owner per event, nothing marked done undone, every event settles |
| Estimating, scheduling, invoicing, portal quotes and payments `packages/plugins/...` | status of estimates, jobs, invoices | accept, create, patch, complete, send, pay; `handleQuoteAccepted`, `handleJobCompleted` | through the outbox | UPDATE and Publish are two statements; check and INSERT are two statements | an acceptance is announced once and leads to one job; a completion to an invoice |
| Circuit breaker `packages/core/resilience` | state, failure count, half-open flag, timer | `Execute`, `State` | Stripe client and SMS sender, shared by all tenants | calls that overlap a change of state, panics | one probe at a time, opens in time, always lets go |
| Bulkhead, retry, timeout helpers | semaphore | `Acquire`, `Retry` | no caller in the program | - | - |
| Idempotency middleware `packages/core/middleware/idempotency.go` | `idempotency_keys` | look up, run, store | wraps every POST | retries that overtake the first attempt; the key of another path | one effect per key |
| Offline queue `apps/web/lib/mobile` | queue in local storage | enqueue, sync pass, remove | the API | app closed in mid-request, lost answer, two passes at once | what was queued is sent or shown as failed; extra effects only after lost answers |
| Billing `packages/core/billing` | `tenants.plan_id`, `subscription_status`, Stripe ids; invoices | checkout, five kinds of webhook | Stripe; onboarding; portal | webhooks repeated and reordered, two subscriptions at once | status follows Stripe's last word; no access without payment |
| Identity `packages/core/identity`, `core/auth` | tenants, users | sign-up, login | onboarding | sign-up is several statements | a tenant has an owner |
| Onboarding `packages/core/onboarding`, `apps/web/lib/onboarding` | one state row per tenant, tenant plugins; the wizard page and its cache | six endpoints, seven pages, `SubscriptionGuard` | billing, tenant plugins | whole-row read-modify-write, plugins switched one by one, lost answers, Back while saving | the row never contradicts itself; pages follow the server |
| Platform administration `packages/core/platform` | tenants, users, announcements | suspend, edit, delete | middleware | counting before changing; one JSON value | a tenant keeps an active owner |
| Tenant context and pool `packages/core/db`, `core/tenant` | session setting of pooled connections | `WithTenant`, acquire hook | every query | the setting is reset when a connection is released, and missing outside `WithTenant` | a query sees its tenant's rows |
| Request middleware `packages/core/middleware` | rate-limit windows | gates | everything | shared counters at the turn of a window | limit per window |
| Plugin registry, tenant modules, flags | enabled plugins and dependencies | enable, disable | onboarding, gates | dependencies | an enabled module's needs are enabled |
| Payroll, construction, dispatch, cleaning, expenses, CRM, crews | their rows | status changes, approvals, derived counts | mobile app, job costing | totals read before they are used, counters beside rows | approved work is paid once; budget moves once per order |
| Portal sign-in and bookings | magic links, bookings | request, verify, book | CRM, scheduling | two clicks at once | a link signs in once |
| Communications, integrations | sent messages, tokens | event handlers, HTTP | tail of the handler chains | remote effect before the local mark | at-least-once delivery |
| Pages of the office, field, portal and admin applications `apps/web`, `apps/admin` | a list or a record, Boolean flags, one busy row | load, create, change, reload | every plugin's handlers | presses, loads and other users overlap | one request per flag, no flag left up, a list that is the server's |
| Reports, notifications, support, storage, documents, secrets, telemetry, settings, SDK | single rows, files | reads, one-row inserts, formatting | - | - | - |

`PROJECT.json` lists the same parts with their files and status, and every hazard at its line.

## 2. Modules

| Module | What it is |
|---|---|
| `EventDelivery` | Abstract: at-least-once delivery, of one event or of one entry of a phone. |
| `Outbox` | `Bus.Publish` and `Poller.PollOnce`, statement by statement; implements `EventDelivery`. |
| `QuoteToCash` | Four plugins as requests and handlers, running on `Outbox` (INSTANCE). |
| `CircuitBreaker` | One breaker and the calls that pass through it. |
| `OfflineQueue` | The queue of the field app, its sync passes, and the server they reach; implements `EventDelivery`. |
| `Subscription` | The subscription of a tenant at Stripe, its webhooks, and the tenant's row. |
| `Onboarding` | The wizard, its endpoints and `SubscriptionGuard`, on top of `Subscription`. |
| `PageKit` | The words in which pages and handlers are described. |
| `Api` | What each handler that a page calls does to the status of one row. |
| `StaffPages`, `FieldPages`, `PortalPages`, `AdminPages` | One definition for each page component. |
| `Screens` | A page in use: presses, answers, loads, other users. |
| `Outbox_proofs`, `QuoteToCash_proofs`, `CircuitBreaker_proofs`, `OfflineQueue_proofs`, `Subscription_proofs`, `Onboarding_proofs`, `Screens_proofs`, `ScreenLists_proofs` | Theorems. |
| `MCOutbox`, `MCQuoteToCash`, `MCCircuitBreaker`, `MCOfflineQueue`, `MCOnboarding`, `MCScreens` | Roots for TLC: values of constants, symmetry. |

### Outbox

An event is identified with its `created_at` stamp, a number: `ORDER BY created_at LIMIT
n` becomes `IsBatch` and `IsNext`. `Publish` takes the stamp before the INSERT, so events
may appear in any order of stamps. `status` and `recorded` are the committed tables;
`open`, `todo`, `ok` and `bad` are the transaction of one `PollOnce` (what it has claimed,
will record as processed, will mark failed), and `busy` is the handler it is running.

- `Claim` is the SELECT ... FOR UPDATE SKIP LOCKED; the rows it returns are locked until
  the transaction ends (`Held`).
- `SkipDuplicate` and `Dispatch` are the two outcomes of the look-up in
  `processed_events`; `HandlerReturnsNil` and `HandlerReturnsError` the two of the handler;
  `Commit` makes the whole batch visible.
- `LoseSession` takes the transaction away without stopping the handler, since handlers
  use the pool and not the transaction: a dropped connection, a failed commit, or
  `pollCancel` at shutdown. `Crash` stops the process. `Requeue` puts a processed event
  back to pending by hand, as the integration test of duplicate delivery does.
- `delivered` is a history variable: events some handler call returned nil for.

### QuoteToCash

`estimate`, `job` and `invoice` hold the statuses. Customers, line items, prices and
addresses are left out: no guard of these handlers depends on them. A request is one
atomic UPDATE followed by `PublishEvent` or `PublishFails`: every caller drops the error
of `Publish`, so failing is an outcome and not an error path. `acceptPublicQuote` has a
step more, its look-up by token. Stripe's webhook for a portal invoice
(`markPortalInvoicePaid`) has no action: its UPDATE names `invoices.updated_at`, a column the
table does not have, and runs without a tenant, so it returns an error and changes nothing.
`UpdateJob` accepts any status in any state because the
PATCH does. Staff requests (`CreateJob`, `CompleteJob`, `CreateInvoice`) run at any time.

A handler is a sequence of stages, one per SQL statement: `load`, `check`, `insert`, and
`tail` for the calls chained behind it (webhooks, calendar, SMS). The order differs between
the two handlers, as in the code: `handleQuoteAccepted` loads the estimate first,
`handleJobCompleted` looks for an invoice first. Each stage may end in `HandlerReturnsError`.
The poller's own steps are those of `Outbox`, and the composition is proved to be an
implementation of it.

### CircuitBreaker

The breaker is not locked during a call, so the model keeps the set of running calls. The
30 seconds are the flag `cooled`: any time may pass. `maybeTransitionToHalfOpen` is part of
every entry, as `StateNow` and `BusyNow`. `Panic` ends a call without `afterCall`, which
is not deferred, while Fiber's `recover` middleware keeps the process alive. The failure count
stops at the threshold, as it is only compared with it.

### OfflineQueue

JavaScript runs undisturbed between two awaits, so an action reaches from one await to the
next: `StartSync` reads the queue, marks the first due item and sends it; `Succeed` removes
that item and turns to the next one; `FailRefused` and `FailUnanswered` mark it failed, set
its back-off and end the pass. `SendNext` is the loop they share. The senders are the
passes, which overlap because every mounted `useOfflineQueue` reacts to "online" and the
user may press "Force sync", and the form, which tries online before it queues
(`PostOnline`). `queue`, `status` and `waits` are in local storage; `at` and `answer` are the
pending promises and do not survive `Restart`. A request without an answer may be lost or may
reach the server later (`orphans`). The back-off is the set `waits`: any time may pass.
The server either applies a request or refuses it; a missing token counts as a refusal.
`applied`, `unanswered` and `stranded` are history variables.

`KeepsPromise` is the refinement: with the server as the handler, an entry is an event,
`Fate` its status, and removing an entry or giving it up is failing it. So an entry that
was sent, removed or abandoned is never sent again by a pass that still runs.

### Subscription and Onboarding

Stripe is outside the repository. `Subscription` has of it what the handlers react to: a
checkout begins a subscription, a payment fails or recovers, a subscription ends, and each
tells of itself by events. `mail` keeps them in the order Stripe made them; `due` are those
not handled yet, so `Deliver` takes any of them and `DeliverAgain` any that was handled
before. Each handler of `HandleWebhook` is one UPDATE of the tenant's row, found by the
tenant in the metadata or by `stripe_customer_id`. `newest`, `disorder` and `twins` are
history: handled after a newer one; two subscriptions alive at a time, which is what
changing the plan on the billing page makes. Statuses are the four the code tells apart:
`trialing` is tested as `active` is, `unpaid` as `past_due`.

`Onboarding` EXTENDS it. A request goes through the statements of its endpoint:
`CheckPayment` (billing only), `LoadState`, `Save`; `UpdateModules` and `Complete`
also switch plugins on and off, one by one (`ProvisionOne`), with the error of switching
one off dropped (`DisableFails`). The copy that a request loaded and edited is in
`calls[c].copy`, and `Save` writes all of it. The browser's side is a record per tab: the
page, the state of `SubscriptionGuard`, the request the page waits for (`saver`), every
request whose handler still runs (`calls`), and what it knows of completion (`cached`). A
handler outlives the page that started it, as a promise does: `Answered` pushes the next
page although `onBack` has left this one. `Lose` breaks a connection and leaves the request
running at the server. `GuardFails` lets everybody through, as the `catch` of the guard does.
`saveSetup` stores the step in local storage and sends nothing, so the set-up step is the
one a user may pass without the server knowing of it. The initial states are those after
`Signup`, with the row of `onboarding_state` or, if that statement failed, without.

### PageKit, Api, the pages, Screens

Every page of the front ends has the same few parts, so a page is a record: what must have
happened before its controls work (`gate`), when it loads (`loads`), and its controls, each
with the statuses it is offered in, the flag that disables it, and the calls it makes with
what it does with each answer. `TimesheetsPage`, for instance, is

    Page("open", "once",
      {Change(SubmitTimesheet, {"draft", "open"}, RowSlot, "put"), ...

for a list loaded once, a button shown in two statuses, `actingId` as the flag, and
`prev.map(...)` with the answer. `SubmitTimesheet` in `Api` is
`GuardedAny({"draft", "open"}, "submitted")`: UPDATE ... WHERE status IN (...). The words for
handlers are kept apart by what can go wrong between them: a test in the WHERE of the one
UPDATE, a SELECT before it, or none; another statement before it, whose error is dropped
(`Sole`: the primary property of a customer); reasons to refuse besides the status (`Choosy`: the
last owner of a tenant, a user linked to another employee, a value not allowed, a service that
says no).

The words for pages keep what the code does beside the plain cases. `Through`: a control that
calls the function behind another one, which raises and lowers the flag of that other, as
"Send quote" calls `saveLines` on the page of an estimate. `Fatal`: an error takes the place of
the page, as in `PublicQuoteView`. `Emptied`: a load that fails leaves an empty list. "mark":
the page shows its own copy of the row, from when the control was pressed, and not the
answer. "lazy": a list inside a row that is loaded when the row is unfolded, while the
controls in it can be used: `CrewMembersPanel` and `DailyLogPhotosPanel`, which are
definitions of their own beside the page they are on.

`Screens` gives the words their meaning. Rows of the server have a status and a number of
changes; `view` is what the page shows of each row and how often. An action reaches from one
await to the next: `Press`; the statements of the handler (`ClearOthers`; `Serve`, or `Check`
and then `ServeChecked`; `Refuse`; `Lose`); the return to the page (`GoOn` to the next call,
`Reload` with await and `Refetch` without, `LeavePage`, `Finish`, `Fail`); loads that are
asked, served and applied one at a time and are never cancelled, among them those for a
parameter that changed (`ChangeParam`) and for a list unfolded once more before anything is known
of it (`Expand`); another user. `Init` picks
the page, so one run goes through all of them. A flag is a state variable of its name;
`RowSlot` is one variable for the id of a busy row, which a second press overwrites: that is
why `OneInFlightPerFlag` speaks of Boolean flags only.

Pages without a flag (`NoFlag`) let a form be sent twice, pages whose first load may
still be under way let a list be extended before it is replaced, and a flag that another
control raises and lowers on the way lets two requests run. The properties say what remains true:

- `OneInFlightPerFlag`: no flag stays up without a handler that will lower it; and a flag that
  only its own controls raise (not `Nested`) is up exactly while one of them is at work. The
  flag `saving` of `EstimateDetailPage` is the one nested flag there is: "Save lines" and then
  "Send quote" put two requests under it, and the run reaches that.
- `ShownAtMostOnce`: if nobody pressed a control while a list was loading, or unfolded it again
  while a handler was at work (`hurried`), a row is in the list once, on pages with one flag and in
  lists that no handler loads again (`OneList`), those inside rows included. On crews and daily
  logs nothing makes the person wait: a member read after the INSERT and shown before the
  answer to it is there twice, which the run reaches as well.
- `RestsOnOwnWrites` and `ViewMovesForward` are about pages with one flag (`OneAtATime`) that are
  used after their first load (`Calm`).
- `FreshPressIsAccepted` is about the conditions a page and a handler both write down. Refusals
  for the other reasons (`Choosy`) are in the model, and are not counted.

These conditions are where the others do fail.

What the proofs about lists need of a page, and the listed pages have, is
`HabitsAssumption`: a row is added to the list only by the answer to its own creation
(`AddsWhatItMade`); a page with one flag that loads once waits for its reloads and shows what
its calls did, or takes other rows out of the list as the addresses page does (`KeepsUp`); and
a control is offered only in statuses that its handlers accept, one after the other
(`OffersWhatIsAccepted`). These are facts about the tables of the pages, so TLC evaluates them
once for every page; what follows from them for every order of steps is proved.

## 3. Runs

| Run | Instance | Shows |
|---|---|---|
| `outbox` | 3 events, 2 pollers, batch 2, 2 faults of any kind | ownership, no false "processed", no failed event that was recorded, `EventDelivery` implemented, every event settles |
| `quote_to_job` | 1 quote, 2 jobs, 2 requests, 2 pollers, 2 events, 1 crash or redelivery | accepted once, processed means a job, one drafted job |
| `job_to_invoice` | 1 job, 2 invoices, 2 requests, 2 pollers, 2 events, 1 crash or redelivery | paid once, processed means an invoice |
| `quote_to_job_live` | 1 quote, 1 job, 2 events, 2 pollers, 1 lost session | a published acceptance is answered |
| `breaker` | 4 calls, threshold 2 | one probe, margin, busy means probing, refusal ends |
| `offline_queue` | 2 entries, 2 passes and the form, 3 lost answers or restarts | one sender per item, sent means applied, effects accounted for, sending ends |
| `onboarding` | 2 packs, 2 modules, 2 requests at once, 1 tab, 2 subscriptions, 4 webhooks, 5 moves | the row never contradicts itself, no billing step and no page without payment, pages follow saves, the last page settles, lone saves lose nothing, ok means provisioned, the status follows Stripe |
| `screens` | every page, 3 rows (2 at the start), 2 presses, 1 disturbance | no flag left up and one request for each that is not nested, lists without doubles that rest on the page's own writes and never go back, no refusal nobody caused |
| `double_completion` | 1 job, 2 requests, no faults | violated: two invoices for one job |
| `lost_acceptance` | 1 quote, 1 request | violated: an accepted quote without an event |
| `late_success` | 2 calls, threshold 1 | violated: an open breaker closed before its timer |
| `stuck_syncing` | 1 entry, 1 pass, 1 restart | violated: an entry that stays "syncing" for ever |

**Bounds.** Two pollers and two requests are what it takes to interleave: the conflicts
are between pairs. Two pollers with three events and a batch of two give a full batch, a
short batch and an event left out. Faults are bounded in number, not in place; two allow a
crash during the recovery from another. Two job rows make a second draft possible, and two
invoice rows a second invoice. In `breaker` two calls may outlive the closed period while a
third probes and a fourth is refused. In `offline_queue` two passes and the form can meet on
one entry while a second one keeps a pass busy, and three faults allow an entry to be lost,
retried, lost again and interrupted. `JobUpdates` is the set of statuses staff patch to:
one that is not `completed` is enough, as handlers only compare with `completed` and with
"absent". `quote_to_job_live` has no symmetry, as liveness would not allow it; with one
request and one job row `Box!Publish` can still number the event either way.

In `onboarding` (772,174 states) two requests are the least that can cross: one left behind
by Back or a broken connection, one of the page after it. A third would wait for a slot.
`MaxMoves` counts what nobody is bound to do: presses, addresses opened, faults of the
server, broken connections, changes at Stripe, repetitions. Five are enough for a save that
is lost, a step back, another choice saved across it and a completion. Four events with two
subscriptions are a checkout, a failed payment with its two events, and one more. Two packs that
require a module each make every choice of modules either short of a pack, or not. One tab is
enough, because requests of another differ from an abandoned one in nothing the server sees;
what two tabs share in local storage is left out. In `screens` (637,334 states) two presses
are two requests of one page, on one row or two; a page with three buttons is in it with
every pair of them. Three rows leave one to be created by the page and none for another
user, or the other way round.

**Deadlock** is off in every run: a system with all requests made, all events settled and
the queue empty rests.

**Fairness.** `Outbox`: `Poller.Run` polls on a ticker for ever, and the queries and HTTP
calls of a handler end, so a claim that stays possible is made and a poll that has begun
goes on (`WF` of `Claim` and of `PollerStep` for each poller). `QuoteToCash` adds that a
request that has begun finishes. `CircuitBreaker`: calls end, because their HTTP clients have
timeouts, and time passes. `OfflineQueue`: a request is answered or breaks off, and a promise
that is settled resumes its pass. Nobody is obliged to publish, to call, to come online, to
press a button, or to fail. `Onboarding` and `Screens` state no fairness: their
properties are about what may be seen at a time, and `CompletePageSettles` and the second half
of `OneInFlightPerFlag` say as safety what liveness would: nothing under way, and still
waiting.

**What the four violations say.** They are differences between the documents and the code,
not failures of the models: `docs/adr/0003-event-outbox-saga.md` and `docs/domain/events.md` ask
for the event in the transaction of its aggregate and for effects that are not duplicated,
`docs/adr/0004-resilience-integrations.md` for a breaker that stays open for 30 s, and the
help text of the app for entries that sync when the device is back online. The runs show
the shortest behaviours that do otherwise. `PROJECT.json` quotes the lines.

`OneOutboxJobPerQuote` holds only while no session is lost: with "lost_session" among the
faults, a poller that lost its row lock may still be inside the handler, between check and
INSERT, when another poller takes the event. That is why `quote_to_job` leaves this fault
out, and why the theorem about it has the assumption.

## 4. Proofs

TLAPS checks them for any sets of events, pollers, requests, estimates, jobs, invoices,
callers, entries, passes, packs, modules, subscriptions, tabs, pages and rows, any batch size,
any number of faults, presses and moves, and any threshold. They rest on the named
assumptions of the modules only (`EventsAssumption`, `BatchAssumption`, `FaultsAssumption`,
`OutboxAssumptions`, `JobUpdatesAssumption`, `NoneAssumption`, `ThresholdAssumption`,
`SendersAssumption`, `MaxFaultsAssumption`, `SubsAssumption`, `BoundsAssumption`,
`PacksAssumption`, `RequiredAssumption`, `RegisteredAssumption`, `SlotsAssumption`,
`PagesAssumption`, `RowsAssumption`, `PressesAssumption`, `HabitsAssumption`).

**Outbox_proofs.** None of the invariants is inductive by itself. `IInv` adds the protocol of
the locks: no two transactions hold one row (`LocksExclude`); what a transaction holds is
pending (`TxShape`); a handler whose transaction is open works on a claimed, unrecorded row
(`HandlerInTx`), and one whose transaction is gone still works on an event that exists
(`HandlerHasEvent`); what will be recorded was delivered, and what will be marked failed is
not recorded (`TxContent`); and the same of the tables (`TableContent`). The last two need
`LocksExclude`: while one poller is about to mark an event failed, no other can record it.
From `IInv` follow `HandlerOwnership`, `NothingProcessedUndelivered` and
`NothingRecordedFails`; `PromiseStep` maps each step to a step of `EventDelivery` or a
stutter, which gives `PromiseKept`.

**QuoteToCash_proofs.** `FlowUsesOutbox` says that every step of the flow is a step of the
outbox or leaves it alone; so `OutboxInvariant` brings the invariant above into the flow
instead of proving it again, and `FlowKeepsPromise` the refinement: the flow as a whole
implements `EventDelivery`. On the invariant rest three more:

- `AnnounceInv`: an acceptance (a payment) is in the outbox or on the way to it at most
  once, and not at all before the row has changed. It gives `QuoteIsAcceptedOnce` and
  `InvoiceIsPaidOnce`.
- `AnsweredInv`: a handler at its end, an event a transaction is going to record, and a
  recorded event all have their row. It gives `NoProcessedQuoteWithoutJob` and
  `NoProcessedCompletionWithoutInvoice`, and needs that rows are never deleted or given
  to another quote or job (`AnsweredStable`).
- `DraftInv`, under `"lost_session" \notin FaultKinds`: a running handler has its
  transaction; before an INSERT the poller has no job for the quote yet. By `AnnounceInv` an
  acceptance has one event, by the outbox's `LocksExclude` an event has one owner, hence there
  is one inserter (`OneInserter`) and the check is still true when the INSERT runs. It
  gives `OneDraftPerQuote`.

**CircuitBreaker_proofs.** `halfOpenBusy` is cleared by any call that ends in half-open, also
one admitted long before. What saves the single probe is that every such end changes the
state too: `ProbeInv` states that outside half-open the flag is down and there is no probe,
and that a probe holds the flag. `SingleProbe`, `ClosedMargin` and `BusyIsProbing` follow.

**OfflineQueue_proofs.** The status stored with an item is the lock between passes that know
nothing of each other: `SenderInv` states that the item of a pass is "syncing" and the item
of the form is not queued yet, so no `SendNext` can choose it. That gives `OneSender`.
`EffectInv` counts, for each item, the effects it had plus those its orphans may still have
against its unanswered requests, with one more only if an awaited request was granted or the
item is done. A retry moves an effect from one side to the other, and the count is even
because an item has one sender. It gives `NothingDropped` and `DuplicatesNeedLostAnswers`. `PromiseKept`
maps each step to one of `EventDelivery` or a stutter; besides `IInv` it needs
`Fresh`, that no request of an entry is under way before the entry was made. `TypesHold` rests on `QueueInv`: the list in storage holds
each entry that its status says is queued, once, and no other. Two passes may remove entries
by their ids in any order, so this needs what removing does to a list (`DequeuedFacts`).
`BookInv` adds the sets and the count of faults.

**Subscription_proofs.** `StatusFollowsStripe` is true only at rest, so the invariant must
speak of the way there. `Told`: every subscription that has begun has an event, and every
event is one of Stripe's. `Ordered`: subscriptions begin in the order of their numbers, and as
long as two were never alive at once, the last event tells the status of the last of them
while the others are over; it is never a failed payment, whose handler may find no row,
since an update follows. `InOrder`: if nothing came out of order, the row has the status of
the newest event handled, and what is newer is still due. With nothing due, the newest handled is
the newest made. `SubInv` joins them with the types and `AccessWasPaidFor`.

**Onboarding_proofs.** `Shape` adds to the types which request may come from which page
and that a tab's requests are its own. Every step is first reduced to what it does to one
request (`ServeSteps`) or one tab (`BrowserStep`), and the invariants are proved over these
few forms, on top of `Shape`:

- `WholeInv`: row and copies in flight do not contradict themselves. A copy is old, but
  it is a copy of a row that was whole; this gives `RowStaysWhole`.
- `BilledInv`: a request past `CheckPayment`, and every row or copy with the billing step,
  belong to a tenant that has paid; payment is never undone. It gives `BillingIsPaidFor`.
- `LoneInv`: a copy that nobody crossed has all the progress of the row. It gives
  `LoneSavesLoseNothing`.
- `ProvisionInv`: what an uncrossed request has dealt with so far is as its copy says. It
  gives `OkIsProvisioned`.
- `AdvanceInv`: a page after a step, and an answer that leads to one, mean the server has
  carried the step out. It gives `PagesFollowTheServer`.
- `SettleInv`: on the last page the request waited for is the tab's own call of `complete`,
  and once that is over the page knows of completion, shows an error, or was overtaken; an
  answer of `complete` carries completion (`Completing`). It gives `LastPageSettles`: the page
  never waits for nothing.

`StatusComesRight` is the result of `Subscription_proofs` in the composed specification.

**Screens_proofs.** `Inv` adds to the types that a handler at work is at a call of its own
control, and has a row unless it is about to create one (`Working`). `OneInFlight` is
inductive with it: `Disabled` reads what `Raise` wrote, and every way out of a handler, or
from one call to the next, lowers what it raised (`FlagLowered`). Of a nested flag only that
it does not stay up is left: a handler may find it lowered by another one, never raised by
nobody.

**ScreenLists_proofs.** Every step is first reduced to what it does to one press, one load or
the server. Changes of a row are counted, so what was read of it is still true or is out of
date: that is `Known` (`KnownHolds`), from which the others start.

- `Foretold`: as long as nobody else changes a row, a handler finds it as the page showed it or
  as the last call of the same control left it. With the habit that a control is offered only
  where its handlers accept, `FreshPress` follows, for handlers with no other reason to refuse.
- `Orderly`: no handler is at work while the page, or a list in it, is loaded, and any other load
  is awaited by the handler that asked for it. With `OneInFlight` it gives `LoadsAlone`: on a page
  of `OneList` a load and a press do not overlap. This is the step where `hurried` and
  `OneAtATime` are needed.
- `Single`: a row that a handler is creating is not in the list yet, and two handlers create
  different rows. It gives `ShownOnce`.
- `Onward`: an answer, or a list that was read, is not older than what is shown. It gives
  `MovesForward`.
- `Own`: what the page's calls did is shown, or is in the hands of a handler or of a load that
  will show it (`Covered`). It gives `RestsOnOwn`: at rest no handler and no load is left.

**Only model-checked:** liveness (`EveryEventSettles`, `PublishedAcceptanceIsAnswered`,
`RefusalEnds`, `SyncingEnds`), which the prover does not handle, and the four violated
properties, which TLC refutes. That the listed pages have the habits is evaluated by TLC, page
by page, when it checks the assumption. Every other property of the runs is stated by a
theorem.

## 5. Plan

1. *Done:* `EventDelivery`, `Outbox`, `QuoteToCash`, `CircuitBreaker`, `OfflineQueue` and their
   proofs; the refinements of `EventDelivery`.
2. *Done:* `Subscription`, `Onboarding`; `PageKit`, `Api`, the pages, `Screens`; the proofs
   named above.
3. `Idempotency`: the middleware under concurrent retries of a key. Abstract
   specification: a key has one effect and one answer. A table of keys, two retries, two paths,
   a process that dies between the effect and the INSERT. No client here sends a key yet,
   which is why it comes after the pages.
4. `Tenancy`: the last owner and the announcements, suspension,
   rate-limit windows: rules over several rows, which `Api` does not have.
5. `FieldOps`: totals of payroll runs, budgets over change orders, the member count of a crew,
   sign-in links, checklists, the primary flag. Estimate lines, pricing (operators
   against a reference definition) and editing then join `QuoteToCash`.
6. Proofs: one stored answer per key; budget equals base plus approved orders.

## 6. Not modelled

Bulkhead, retry and timeout helpers, which nothing calls; formatting, PDF, e-mail and SMS texts,
file storage, encryption and configuration, which have no protocol; layout, wording and
validation of forms; reports, which only read; command-line tools; marketing pages and the login
forms. The contents of the remote calendar and of QuickBooks are outside the repository and
would be models of services it only calls.

Of the pages: two tabs that share local storage; addresses of later wizard steps typed by hand
(they are reached from the pages before them); what the integrations page does on return from
a provider. Of billing: the mock checkout for development, an administrator who sets
`subscription_status` by hand, plan and price rows. In a tenant with two live subscriptions the end of the old one
cancels the tenant; `StatusFollowsStripe` leaves this case out, and `PROJECT.json` lists it as a
hazard. After completion, packs chosen again change the row but not the plugins, as `Complete`
returns early: no document says what should happen, so no property does.

## 7. Running

    tlc -config outbox.cfg MCOutbox.tla
    tlapm QuoteToCash_proofs.tla

`PROJECT.json` lists each run with its module and configuration, the mutated definitions that
show each property can fail, and the source lines of every definition.

# TLA+ models of zwaf

zwaf is a multi-tenant WhatsApp sales agent: FastAPI under uvicorn with two
worker processes, Postgres reached through asyncpg, Redis for conversation
state, Asaas for payments, SuperFrete for shipping, the Evolution API for
WhatsApp. This directory holds its formal models: the whole way from a lead's
message to units sold, delivered and followed up, and the messages the system
starts by itself.

## 1. The system

| Component | Code (`src/src/zwaf/`) | State | Operations | Model |
|---|---|---|---|---|
| Inventory store | `memory/inventory_store.py` | `inventory_items` counters, `inventory_reservations`, `inventory_movements` | reserve, release, confirm for a payment, release for a payment, refund review, expiry sweep, manual adjustment | `Inventory` |
| Payment tool | `tools/payment.py` | none of its own | draft an order, reserve, create an Asaas charge or card checkout, store the payment id, undo on failure | `OrderLifecycle` |
| Order store | `memory/order_store.py` | `orders`, addresses, `shipments`, `webhook_events`, `followup_events` | draft, payment created or failed, attach a card charge, shipments, tracking, follow-ups of a delivery | `OrderLifecycle`, `Fulfilment` |
| Payment webhook | `api/routes/payment_webhook.py` | `payment_events` (idempotency) | record the event, attach, sync the status, stock effects, purchase history | `OrderLifecycle` |
| Sweep scheduler | `core/team.py` 1493-1532 | one APScheduler job per worker | `release_expired` every 5 minutes | `Inventory`, `OrderLifecycle` |
| WhatsApp tool | `tools/whatsapp.py` | per-number lock, daily count, warm-up day | send with retries, warm-up limit | `WhatsAppTool` |
| PIX re-engagement | `conversion/pix_reengagement.py` | `orders.reengagement_sent_at` | hourly: select, check the opt-out, send, stamp | `PixReengagement` |
| Daily report | `reporting/daily_report.py` | `daily_report_sent` slots, a guard per process | claim, send, release on exception | `DailyReport` |
| Commercial follow-up | `conversion/commercial_followup.py`, `followup.py` | `commercial_followups` rows: scheduled, sending, completed, blocked | hourly: schedule, claim, send, mark or release | `FollowupPlan`, `CommercialFollowup` |
| Checkout conversation | `core/team.py` 630-1326, `conversion/checkout_flow.py`, `payment_gate.py`, `address_attempts.py` | checkout dict in the Redis session | advance a turn, generate the payment, hand over to a person | `CheckoutFlow`, `CheckoutSession` |
| Session state and lock | `memory/session.py` | the session, the payment lock with its TTL, summary counter | get, set, acquire, release | `CheckoutSession`, `LeadMemory` |
| Lead store and memory | `memory/lead_store.py`, `lead_memory.py`, `api/routes/webhook.py` | lead profile, opt-out, encrypted memory | opt out and purge, summarise, retention | `LeadMemory` |
| Shipping | `shipping/`, `api/routes/superfrete_webhook.py` | shipments, delivery events, delivery follow-ups | buy a label, apply a tracking event | `Fulfilment` |
| Loyalty agent | `agents/fidelizacao.py` | `followup_events` | daily: select due, send, mark | `Fulfilment` |
| Improvement queue | `conversion/self_improvement.py`, `api/routes/improvements.py` | candidates, review log, a copy in memory | suggest, approve, reject, promote | `ImprovementQueue` |
| Team, routing, signals, analytics, tenants, guard, audio | `core/`, `conversion/`, `security/`, `audio/`, ... | configuration, text | LLM routing, text filters, external calls | their outcomes only, see section 7 |

How they interact. A WhatsApp message starts a task of its own in one of the
workers. `ZWAFTeam.process` answers it by the guard, the opt-out, the checkout
conversation or an agent, and a further task may then summarise the lead. The
checkout, or the agent's tool, ends in the payment tool, which calls the order
store and the inventory store, each on a connection of its own, with HTTP calls
to Asaas between the commits. Asaas later calls the payment webhook, which writes
events, orders and stock, again one commit at a time apart from the stock
transaction. SuperFrete calls its webhook in the same way, and a delivery
schedules the loyalty messages. The sweep, the reminders, the follow-ups, the
report and the loyalty dispatch run in every worker at once. Everything that is
sent goes through one WhatsApp tool per tenant and worker. Nothing but the rows,
the Redis session and that tool connects these parts, so these are the shared
state of the models.

What is hard here: every multi-step operation can be interrupted between two
commits; two workers run the same handlers and the same jobs; the messages of one
lead are handled by overlapping tasks that each write the whole session back;
Asaas and SuperFrete repeat and reorder their events; a hold expires after 30
minutes while a charge can be paid for days; the payment lock expires after 20
seconds while a charge may take longer; most errors are logged and swallowed.
What makes the parts correct: the stock counters agree with the reservations and
never oversell, each event takes effect once, a payment ends in a sale or with a
human, a failed checkout holds nothing, no hold is stranded, a collection is
charged once and for what was announced, an unasked message is sent once per key
and not after an opt-out, a day is left unreported by nobody who finds it taken, a
delivery is followed up, and an opt-out forgets what is remembered when it comes.
Where the code falls short of one of these, section 5 or 6 says so.

## 2. Modules

Stock and orders:

- `StockUnits`: which units a set of orders asks for, and how many. It is the
  reference definition the counters are compared with.
- `StockPromises`: the abstract specification. Units are promised to orders; a
  promise is made only while the shelf holds the units, and is kept or given up
  once.
- `Inventory`: the tables of one (tenant, product) row and the transactions of
  `inventory_store.py`, one action per committed transaction. Each transaction
  decides under a row lock and re-reads the row after waiting, so one atomic
  action per transaction is what READ COMMITTED gives here. The sweep is split
  into its SELECT and one transaction per hold. Writes to `orders` by other code
  are the action `OrderWrite`, which may write anything.
- `OrderLifecycle`: extends `Inventory` with the payment tool, Asaas and the
  customer, and the payment webhook, one action per committed statement or
  external call, plus the faults. `call[o]` is the program counter of the tool's
  call for order `o`, `handler[h]` that of a webhook request. Every stock change
  it makes is an action of `Inventory`, by name.
- `SalesPromises`: extends `StockPromises` with the money of each order and with
  the reviews asked of a human. It is what `OrderLifecycle` promises as a whole:
  money is asked for only while the units are held, units leave the shelf only
  against money, a human is called only when money came for units that are gone
  or went back. `MoneyFor` says whose money counts for an order; it is the order's
  own, unless the webhook cannot tell it from that of another order.

The conversation:

- `CheckoutFlow`: parsing, validation, merge and decision of `advance_checkout`,
  pure operators on a message and the set of valid fields. A field is there and
  valid, there and invalid, or not there; its text does not matter. The quirks of
  the parsers that decide which of the three it is are kept (section 6).
- `CheckoutSession`: one lead's session in Redis, the payment lock, and the turns
  that work on it. A turn is a task: it reads the session, works on its copy
  `turn[c].local`, and each `set_session_state` writes the copy back whole. One
  action per Redis call, charge, or call of its payment tool by the agent; what a
  turn decides from its copy belongs to the step that follows. The lock may expire
  at any time while held, is deleted by whoever finishes, and Redis may fail any
  call. The tool refuses (an address is counted in the memory of the worker),
  charges or says why not, and leaves in `says` and `refused` what the sink of the
  run would hold; the run then answers (`AgentAnswers`), with the address loop's
  check, or raises (`AgentRaises`), without it.
- `LeadMemory`: a message from the webhook to the answer, the opt-out with its
  purge (two statements), the throttled summary and its write, and the retention
  job.

Unasked messages:

- `WhatsAppTool`: one instance per tenant and worker. `queue[t][n]` is the
  `asyncio.Lock` of a number, its holder first. `call[c]` counts the rounds of the
  three nested retry loops; one POST with its outcome is one step, an answer of
  success that cannot be read (`Garbled`) included. It has no next-state relation
  of its own.
- `PixReengagement`, `DailyReport`: the two jobs, each extending the tool.
- `Outreach`: both jobs and the replies of the conversation ("desks") on the tools
  they share, with midnight and restarts. A desk sends texts and pictures one at a
  time, in any number: how many parts a reply has, how many pictures social proof
  selects, whether the lead agreed, and that the series ends with the first picture
  that fails are left open, which allows more than the code does.
- `FollowupPlan`: the contact policy of `followup.py`, a pure function of the
  signals found in a lead's messages and of the contacts already sent.
- `CommercialFollowup`: the hourly follow-up job, run by every worker. One action
  per statement or send: `Start` reads the candidates, `CheckCandidate` and `Arm`
  or `Bar` write a row for each, `Claim` takes the due rows, `CheckClaim`, `Send`,
  `Mark`, `Refuse` and `Release` work through them. `step[w]` is the program
  counter of worker w, `candidates[w]` and `claims[w]` are the snapshots it works
  from, `row` the table. It shares no state with the other modules but the lead's
  opt-out, and its send is one step: the tool's part is in `Outreach`.
- `ContactSeries`: what that job promises of a row, without plans, snapshots or
  runs: contacts 1, 2, 3, ... go out in turn, each once, at most one out of each
  claim, from the one run that holds the row. A run that dies strands what it
  held. `TicketOf(r)` in `CommercialFollowup` is the state of the promise.

After the sale:

- `Fulfilment`: extends `LeadMemory` with the purchase of labels, SuperFrete's
  parcels and events, its webhook, the follow-ups a delivery schedules, and the
  daily loyalty dispatch, which asks for the opt-out of the lead.
- `ImprovementQueue`: the queue object with its two storages, and the review
  route, one action per statement or transaction.
- `Records`: `Fulfilment` (with `LeadMemory`) and `ImprovementQueue` together.

`MC...` modules are small instances, `...Proofs` modules the theorems.
Definitions marked `Wrong:` in the modules are plausible slips of the definition
that follows them. No specification uses them; each one, put in the place of the
real definition, makes TLC report the property it is paired with in
`PROJECT.json`.

History variables. Each module keeps a few variables no code has, listed under
"what the properties speak of": what a lead received, was told or was charged,
and which rows an overlap or a fault has excused from a property. They are
written and never read by an action's guard.

Abstractions.

- Orders: an order stands for its row, with one reservation per order as the
  UNIQUE constraint says. Charge and session ids are derived from the order whose
  call made them. PAYMENT_REFUNDED stands for the partial refund too, which the
  code treats alike; PAYMENT_UPDATED and PAYMENT_OVERDUE change nothing that is
  modelled. `rows` and `created` order rows by commit, where the code orders by
  `created_at`; the two differ only for transactions that overlap. `tainted`
  remembers the orders that lost a write to a fault; a property that a fault
  legitimately breaks is claimed of untainted orders only.
- Checkout: a boleto is collected like a Pix, so that reopening a closed
  collection by another means is exercised by the card only. `NoteObjection` is
  offered whenever the agent answers, where the code asks for the first objection.
  A collection has an id the code does not have. Prices, wording and images are
  left out.
- Tool: time is not counted, so pauses, typing delays and the send window do not
  exist; days are counted from the start of the warm-up.
- Follow-ups: a lead's events are reduced to the signals its text matches,
  `next_send_at` to null, later or due, and `disturbed` remembers the rows that
  `upsert_blocked_followup` overwrote while a run held them, which nothing in the
  code prevents. A claim takes every due row (the code takes at most 50), and
  `mark_followup_replied`, which only stamps a time, is left out.
- Memory: a summary finds health facts, commercial facts, both or none; the age of
  a memory is never, recent or old.
- Fulfilment: a parcel is a SuperFrete order with its status; an event is its kind,
  its parcel, whether it carries a tracking code, and whether the id of its body is
  that of the order (the webhook reads `body.id` as either). An event id of its own
  tells events apart just as kind, parcel and code do. `upsert_shipment` is called
  for labels just bought only, so its branch for a delivery is not reached.
- A fault is a database, Redis or network error or the death of a worker.
  `MaxFaults` bounds their number in one behaviour, never their place.

External parts, modelled as the code assumes them: a customer pays through a link
the tool delivered; a card charge comes into being when it is paid; a Pix or
boleto charge may be deleted while unpaid; a bank slip may be cancelled even after
the charge was paid another way; events of Asaas and SuperFrete may be delivered
late, repeatedly and in any order, or never; a POST to the Evolution API may
deliver the message and lose the answer; ViaCEP knows any part of an address; the
model behind an agent or a summary may answer anything or fail.

## 3. Runs

| Run | Instance | What it shows |
|---|---|---|
| `inventory` | 2 orders of 1 and 2 units, on hand 3 (to 4), buffer 1, 2 payment ids, 2 sweeps | `CountersMatchReservations`, `NoOversell`, `LedgerExplainsReservations`, `ImplementsPromises` |
| `orders` | a Pix order of 1 and a card order of 2 units, on hand 2, 2 requests; both with 2 kinds of events and up to 1 fault, each alone with all 6 kinds, corrections and 2 faults | `FailedCallHoldsNothing`, `StatusMatchesStock`, `EventAppliedOnce`, `PaymentServedOrFlagged`, `ImplementsSales`, every step an `Inventory` step |
| `holds_close` | the same two orders sharing one reference, on hand 3 (to 4), 1 request, 1 fault, paid and deleted events, fairness | every hold ends, `SaleHasItsPaidEvent` |
| `payment_event_crash` | 1 request, 1 fault | a counterexample, see section 5 |
| `shared_reference` | one reference, no fault | a counterexample, see section 5 |
| `followups` | 1 lead, 2 stages, 2 workers, cold, warm or at risk, 1 change, 1 fault | `ClaimIsExclusive`, `ContactSentOnce`, `NoContactSkipped`, `OptOutStopsSends`, `ImplementsSeries` |
| `followups_live` | the same with 1 stage, fairness | `ScheduledIsTakenUp` |
| `followup_risk` | as `followups`, no fault | a counterexample, see section 5 |
| `outreach` | 2 workers, 2 tenants, 2 orders of one lead, 2 days, loops of 2, up to 3 faults; tool in the warm-up, past it, or not configured | `OneInFlightPerNumber`, `WarmUpOverrunBounded`, `CopiesExplained`, `ReminderOnce`, `LateRemindersBounded`, `ReportOncePerDay`, `TakenDayIsReported` |
| `checkout` | 4 messages of one lead out of one of 6 scripts, 2 turns in 2 workers, up to 2 calls of the tool in a run, 1 fault | `OverlapBounded`, `FieldsAreKept`, `OneChargePerCollection`, `ChargesWhatWasAnnounced`, `AddressLoopBounded` |
| `records` | 1 lead, 2 orders, 2 parcels, 2 requests, 2 dispatchers, 2 queues, 2 reviewers, 1 fault | `OptOutPurgesMemory`, `DeliveryIsFollowedUp`, `FollowupSentOnce`, `PromotionOverwritesApproval` |
| `opt_out_memory` | 1 lead, 2 messages, no fault | a counterexample, see section 5 |

Scenes. Where the parts of a composition hardly meet, the product of all their
interleavings is out of reach and shows nothing. `MCOrders`, `MCOutreach`,
`MCCheckout` and `MCRecords` therefore choose a scene at the start (which orders
and events, which callers, which script of messages, which component) and play
every interleaving within it. A scene only removes steps from `Next`, so what it
shows is a behaviour of the specification. The theorems of section 4 are about
the specifications without scenes.

Why the bounds are enough.

- Stock and orders. Two orders that do not both fit make every contention case:
  the last unit, a hold freed for the other order, a correction that cuts in.
  Different quantities keep a mix-up of two orders' quantities visible. Two sweeps
  and two requests give every overlap of two workers; a third only repeats them.
  While both orders are in play the webhook hears of confirmed payments and of one
  other kind (received, refunded, slip cancelled): a payment that comes when its
  units went to the other order, and a paid and attached card order beside a Pix
  order, are among them, with a fault in the last two. What all six kinds do to one
  charge concerns one order, Pix or card, and is played for each alone.
  The hold of an order is closed at most once, so behaviours are short, and no
  constraint cuts them. `MaxOnHand` bounds corrections only. Requests are
  interchangeable, so `HandlerSymmetry` is sound in the runs without liveness.
  In `holds_close` the shelf holds units for both orders, so that one charge meets
  two open holds, and a paid or a deleted event closes either.
  The `OrderLifecycle` runs do not check deadlock: once every call is over, every
  event is recorded and every hold is closed, the system may stop.
- Follow-ups. One lead is enough: rows of different leads meet only in the set a
  run claims, and the two stages of one lead already give a run two claims. A cold
  lead has one contact and a warm one three, so rows are completed, sent again and
  refused; `MaxChanges` lets the lead change its signals or its stage once. The
  job never stops, and deadlock is checked.
- Outreach. The days are the third and the fourth of the warm-up, where the limit
  changes; the limits 1, 2, 3 stand for the code's, so that two callers in flight
  already overrun them. Loops of two attempts reach every exit of the three loops
  and their nesting. Both orders belong to one lead and fall due on different
  days, so two reminders wait for one lock and a stamped order meets a later cycle.
  Two tenants share one report group. Three faults make one text raise, whose loops
  take two, and fail what follows. It stops when both days are over.
- Checkout. A script of four messages is long enough to collect, ask, correct,
  choose another means, and pay or run out of two attempts (the code has more);
  two overlapping turns show every lost update, and the lock has to lapse only
  once. The scripts stand for the conversations with different outcomes. In one
  the agent's tool is called inside a collection; in another there is no checkout,
  and two calls in one run refuse an address and then something else, or charge.
  It stops when the messages are used up.
- Records. One follow-up is due at once and one a day later; two parcels of one
  order give the doubled row, two requests every order of events on one row. A
  throttle of two and four messages give a summary before and after the opt-out.
  Three reviews let two reviewers and the team's queue meet on one candidate.

Fairness. `FairSpec` of `OrderLifecycle`: a call that has started and a request
that has recorded its event take their next step; time passes; each worker's
scheduler runs its sweep (`InventoryReservationSweepScheduler`, every 5 minutes,
`max_instances=1`). Nothing obliges a customer to check out or to pay, Asaas to
deliver, or a fault to happen. `HoldLapses` waits for the call to end: a hold
lasts 30 minutes and a call makes a few requests with a 10 second timeout each. In
`CommercialFollowup` each worker's scheduler starts the job every hour, a started
job goes on, and time passes; no send has to succeed, no lead has to answer, and a
job may die instead. The other modules claim safety only: their jobs promise
nothing after a failure, and the daily report and the reminders may be skipped by
design.

## 4. Proofs

Every theorem holds for all values of the constants that satisfy the named
assumptions of its module: any number of orders, workers, callers, messages,
faults, and so on. All argue in the same way. The actions, of which a module has
up to thirty, are first reduced to the few things that can happen to the state an
invariant speaks of; the invariant is then proved of those.

`InventoryProofs`, from `OrdersAssumption` and `InventoryAssumption`:

- `InventoryTypeCorrect`, `CountersAreExact`, `NeverOversold`. The inductive
  invariant is `IInv`, the three together. None is inductive alone: that
  `reserved_qty - quantity` is not negative follows only from the counter being
  the number of units of the open holds, one of which is being closed.
- `LedgerIsExact` and `ClosedForGood`, from `IInv`.
- `InventoryKeepsPromises`: each step maps to a step of `StockPromises` or to a
  stutter.

`EveryStepIsAStockStep` reduces the fifteen actions to five things that can happen
to the stock (`Opens`, `Closes`, `Sells`, `Recounts`, `LeavesStock`). The counting
lemmas (`UnitsOfOneMore`, `UnitsOfOneLess`, `UnitsOfTwoGroups`) come from the
library's theorems on finite sets. Since `OrderWrite` may write anything into the
orders rows, these theorems do not depend on how the payment tool and the webhook
behave.

`OrderLifecycleProofs` adds `LifecycleAssumption` (which ids Asaas gives out):

- `LifecycleUsesInventory`, `Spec => InventorySpec`: every step of the lifecycle
  is a transaction of `Inventory` or leaves its tables alone. With it, `IInv`
  holds here too (`LifecycleNeverOversells`). `LifecycleTypeCorrect` comes along:
  the writes to the orders rows are well typed only because a request in progress
  carries an event of a known order.
- `EventsAreAppliedOnce`. At most once per event is not inductive; `EventInv` says
  why it is true: a request owns its event. The event has its row, so no second
  request can take it up, and the effects the request has still to commit were
  not committed before. A crash gives the ownership up for good.
- `FailedCallsHoldNothing`, from `CallInv`: before a call reserves, its order has
  no reservation, and only `Reserve` opens a hold (`OnlyReserveOpensHolds`), so a
  hold that was undone stays closed.
- `SalesHaveTheirPaidEvents`: an injective map from the sold orders to paid events
  that took effect. Each sale adds the event being settled, which took effect once
  and so has sold nothing before (`EventInv`); the order may carry its charge by
  `ChargesMatch`: an order carries only charges of its own lead, product and SKU.
  This is what remains true of the fallback that `shared_reference` shows: the
  webhook may mix up whose payment it was, but one payment event never sells
  twice. `SalesHavePaidEvents` follows.
- `LifecycleKeepsStockPromises`, `LifecycleLedgerIsExact` and
  `LifecycleClosesForGood` carry what is proved of `Inventory` over.
- `ChargesNeedTheirHold`, from `CallsFit`: what Asaas, the events and the clock know
  of an order, its call has done before, and the hold of an order about to be
  charged is open, or the charge of another order has closed it (`OpenOrTaken`).
- `PaymentsAreServedOrFlagged` and `StatusesMatchTheStock` speak of the orders with
  `OwnReference(o)`: no charge but its own can reach order o, and its charge no
  other order. They are false of the others, by the same fallback; nothing is
  assumed of which orders there are. Every step is then about order o or leaves it
  alone (`EveryStepMovesOrLeaves`), and `OwnInv` follows the order through any
  number of its own requests: a paid event is still to be settled, or has sold the
  units or flagged them (`Served`); status and stock agree, or a request has
  written the one and not yet the other (`Shown`); a linked order carries its
  charge once a request has attached it (`OrderFits`); and rows are not doubled
  (`RowsInv`).
- `LifecycleKeepsSalesPromises`, the refinement of `SalesPromises`. A step moves the
  money of one order (`MoneyStep`), settles an event, or leaves money and reviews
  alone (`MoneyAndReviewMoveAlone`). The first kind is justified by `CallsFit`; the
  third is a step of the stock, mapped as in `InventoryKeepsPromises`; where the
  two meet, an event being settled tells the truth about the money of its order
  (`SettledMoney`), and that money counts for every order that carries the charge.

`CommercialFollowupProofs`:

- `FollowupTypeCorrect`. That no row counts a sixth contact needs
  `HandIsSendable`: what a run sends is what a plan allowed, and plans end at five
  (`PlansAreShort`).
- `ClaimsAreExclusive`. The strengthening `ClaimsAreOfOneRun` says that a run
  claims only after it has given back everything, and never a row twice. Every
  step but `Claim` only gives claims back (`ClaimsOnlyShrink`), and `Claim` takes
  rows that are scheduled, which a claimed row is not.
- `ContactsAreSentOnce`, inductive on top of that: because the claim is exclusive,
  the count a run read is still the count of the row when it marks it.
- `NoContactIsSkipped`, which does not need exclusive claims and so holds of
  disturbed rows and after faults too, from the invariant that what a claim counts
  has gone out.
- `FollowupsKeepTheirSeries`, the refinement of `ContactSeries`: `Claim` is `Take`,
  or `Strand` when the answer is lost; `Send` is `SendNext`; `Refuse`, `Mark` and
  `Release` are `PutBack`; a death is `Abandon`; every other step spoils rows or
  leaves all tickets as they are. That the claim is exclusive makes a ticket's
  holders one, and the invariant of `ContactsAreSentOnce` says which contact is
  next.
- `OptOutsStopSends`, by counting: `StopInv` says that the messages sent to a lead
  after its opt-out, together with the workers that still hold a check made before
  it, never exceed the number of workers, but for faults.
- `PriceOnlyIsNeverHot`: a branch of `_max_contacts` that is never taken.

`CheckoutSessionProofs`:

- `SessionTypeCorrect`, from `Shaped`, which adds what the branches of a turn take
  for granted: a turn about to charge has a quantity and a means, an open checkout
  has attempts left.
- `ChargesOverlapOnlyByLapses`, from `Bounded`: the turns that charge, or may
  still delete the lock, are counted against the lock and its lapses. It holds
  although the lock has no token, because a turn that deletes its successor's lock
  takes itself out of the count.
- `CollectionsKeepTheirFields` and `NothingIsChargedInSilence`, from `Current`: a
  copy not marked stale is the stored session or adds this turn's work to it
  (`Fresh`), and then its fields and its quantity are those the lead gave and was
  told (`Remembered`, `Announced`, `Quoted`).
- `CollectionsAreChargedOnce`, from `Once`: whoever holds a collection that has
  been charged is either the turn that closes it or stale, or the collection is
  among those that may be charged again.
- `AddressLoopsEnd`, from `Asking`: a refusal the turn has yet to answer was
  counted, unless another turn of its worker cleared the counter meanwhile or a
  death took it. A run that raised answers unchecked and is counted by itself
  (`raised`).

`OutreachProofs`: `NextServes` reduces every step of jobs, desks, tools and
workers to a call begun, a POST, an answer collected, midnight, a restart, or a
step that leaves the tool alone.

- `ToolTypeCorrect`.
- `RetriesKeepTheirTurn`, from `Headed`: a lock's queue names each caller once, and
  a text that has been tried heads the queue of its number.
- `RetriesExplainTheirCopies`, from `Explained`: copies plus the calls that may
  still deliver never exceed calls let through plus lost answers.
- `WarmUpOverrunIsBounded`, from `Counted`: the volume of a day is bounded by the
  tool's own count, the calls in flight now, and those that were in flight at
  midnight.
- `RemindersAreSingle`, from `Reminded` (an order not excused is in the hand of one
  cycle at most, and of none once it is stamped), `OptOutsAreRespected`, from
  `Respected`, which counts pollers like `StopInv`, and `ReportsAreClaimed`, from
  `Claimed`.
- `TakenDaysAreReported`. Whether a report reached the group is known to the tool
  alone, so the argument goes through it: a call that answers ok has delivered a
  copy of its text (`Truthful`; copies only grow), and the call of a run that is
  sending carries the report of the run's day (`Posted`). `Kept` says of each row
  and each guard that its day was heard of or a run is at work on it; a step of a
  run gives a day up only when it was heard of, when its row goes with it, or when
  it is marked (`StepKeeps`), and a death marks what it leaves.

`LeadMemoryProofs`, `ImprovementQueueProofs` and `RecordsProofs`: `OptOutForgets`
(`MemoryInv`, inductive as it stands), `PromotionsOverwriteApprovals` (`QueueInv`:
a review about to promote has read an approval, and unless stale the row still
says so), `DeliveriesAreFollowedUp` (`FollowedUp`: a request that schedules has a
delivered row, and follow-up rows never disappear), `FollowupsSentOnce`
(`SentOnce`: what one run holds was due and unsent, and what it has sent is marked
when it goes on), and the types of the composition. `RecordsInv` is the
conjunction of the parts' invariants; a step of one part changes at most what the
others leave open to it (opt-out, faults). `Greatest`, that a nonempty set of
naturals below a bound has a greatest element, gives the latest shipment row.

Only model-checked: `HoldsEventuallyClose` and `ScheduledIsTakenUp`, since
liveness under fairness is out of the prover's reach. In the other direction,
`ChargesNeedTheirHold`, `LifecycleClosesForGood`, `ClosedForGood` and
`PriceOnlyIsNeverHot` are proved of every instance and no run repeats them. The
`orders` run gives each order a reference of its own, so that the properties of
such orders apply to both, alone and in contention; what holds of a shared one is
checked by `holds_close` and otherwise proved.

## 5. What the models found

Each is a counterexample of a run that must find it.

- `payment_event_crash`. The event row is committed before, and apart from, the
  stock transaction. After a crash in between, the paid order keeps an open hold
  that the sweep later expires, and every later delivery is dismissed as a
  duplicate. The module comment of `inventory_store.py` and the gate of story 034
  say both happen in one transaction.
- `shared_reference`. The webhook attaches every charge to the lead's latest
  unpaid card order of the same product and SKU, without first looking whether
  some order has that charge, as story 048 describes. One payment can so reach two
  orders. Two consequences are why `PaymentServedOrFlagged` and
  `StatusMatchesStock` except the orders of a shared reference. When a Pix and a
  card order share one, the confirmed and the received event of a single charge
  may each sell one of them. When two card orders do, a payment may be attached to
  the newer one before that has reserved anything: nothing is sold, and nobody is
  asked to look.
- `followup_risk`. A scheduling pass that finds medical risk blocks the row of the
  lead's present stage only. A row of an earlier stage, due in the same run, is
  checked against the signals stored with it and sent, although the specification
  of the follow-up engine says that risk in the persisted signals blocks all
  sends. A later run repeats it until that row is used up, since the earlier stage
  gets no new context.
- `opt_out_memory`. A summary runs in a task of its own after an answer, and
  neither it nor its write asks for the opt-out: what an opt-out has purged is
  stored again by a summary begun before, or by any later message of the lead,
  although `webhook.py:219-220` means not to summarise who asked to leave.

## 6. Observations

What the models keep because the code does it. Where a property is weakened by
one of these, its comment names the exception.

Payments and stock. A cancellation overwrites `refunded` (only `paid` is
protected), so an order with sold units may show `cancelled`; it is then always
under review, which is what `StatusMatchesStock` states. The agent's own tool
charges without taking the payment lock and without a trace in the session, on
both its paths (`payment_gate.py:102-111` and `122-131`), so a collection of the
same lead may be charged as well. `OneChargePerCollection` counts such a charge
for the collection of the turn's copy and names it as an exception.

The checkout conversation.

- "quero 2 potes" inside the collection is parsed as house number 2, and a number
  once valid is not asked for again.
- A message with one label is read by its labels: a CEP without a label is then
  lost, and "Quantidade: 3" counts as an invalid field and costs an attempt.
- A quantity corrected at the question about the means of payment is ignored.
- The profile's name, discarded by the lead, is stored again by the next message.
- Turns of one lead overlap, and each writes the whole session back: a field that
  was valid may be asked for again (against `checkout_flow.py:8-9`, "um campo ja
  valido NUNCA e pedido de novo"), and a question answered meanwhile can reopen a
  closed checkout (`team.py:920`). `FieldsAreKept` and `OneChargePerCollection`
  say that nothing else does it.
- A failed read of the session counts as an empty session, which the next save
  stores.
- When a run of the agent raises, a recorded request for the address is returned
  at once (`team.py:546-548`), before the check that would hand the lead to a
  person "em vez de reenviar a mensagem literal" (`team.py:554-556`). While runs
  keep raising, nothing bounds the requests; `AddressLoopBounded` counts them.

The WhatsApp tool and its callers. `is_under_limit` and `rotate_number` are called
by no code. The warm-up day is computed once, when the process builds the tool, so
the limit rises only with a restart. The selection of Pix orders has no lower
bound on the due date. A `ToolResult` that reports failure (the warm-up limit is
reached) keeps the report's slot of the day, although the comment in
`daily_report.py:266` means a failure to give it back; only an exception does.
`TakenDayIsReported` names those days (`unheeded`).

Follow-ups. The send window of 08:00 to 18:00 is applied when `next_send_at` is
computed and not when a row is sent, so what falls due after 17:15 is sent by the
run of 18:15. The scheduling pass passes `contacts_already_sent=0` and so re-arms
a blocked row whose contacts are used up, to be blocked again at the next send.
The limit of two contacts for a lead that hesitates is applied when a row is
armed, but not when it is sent.

After the sale.

- A second label overwrites `external_shipment_id` of the first one's row, whose
  events then answer `missing_shipment`, with 200 and before the duplicate test.
  Two labels bought at once insert two rows, and the join of the loyalty dispatch
  finds each follow-up twice.
- The status of a shipment is overwritten by whatever event comes last.
- `upsert_shipment` swallows an error of the database, and the label is paid for
  all the same: if the second write fails too, a label exists of which there is no
  row, and its events answer `missing_shipment`.
- The id of an event is the `id` of the body if there is one, and that same field
  is read as the SuperFrete order. If it is the order's, every event after the
  first is taken for a duplicate, the delivery included.
- `_mark_followup_sent` marks the rows of all the lead's orders of the product,
  those not yet due included. The dispatch does not look at the order's status.
- A row of `leads` created after the opt-out has no `opt_out_at` of its own.

The improvement queue. `suggest` inside the running event loop makes `_run_db`
raise, so what the team suggests stays in memory and is lost with the process. The
queue allows rejected to approved, the route's `_VALID_TRANSITIONS` does not.

## 7. Not modelled

- LLM routing, prompts and answers (`router_agent.py`, `base_agent.py`, agents):
  which agent answers and what it says is the model's. Their effect on state, a
  tool call for a payment or a transcript, is modelled as a choice.
- Signals, analytics and A/B tests: pattern matching on text and best-effort
  logging no other part depends on. `FollowupPlan` takes the signals as given.
- Tenants, guard, encryption, audio: configuration, text filters and calls to a
  service. Their outcomes (blocked, no key, not transcribed) are choices of
  `LeadMemory`.
- Lead attribution, purchase history and conversion events in `leads`: columns
  nothing modelled reads. Customer and address columns copied from Asaas likewise.
- `quote_shipping`, `inventory_status`, report metrics, formatting: they only read.
- The clock of the day in the follow-ups: `next_send_at` is moved into business
  hours by a computation on dates that no other state meets.
- Running without a database, the development mode of several functions, but for
  the daily report, which has a guard of its own for it.

## 8. Plan

1. What can be said of the payments of a shared reference: one of its orders is
   served or flagged, if every one has got as far as its hold.
2. An abstract specification of the daily report's slot and of the reminders, as
   `ContactSeries` is one of the follow-ups: the slot keeps it, the stamp of the
   reminders keeps it only for one cycle at a time.
3. The send window as a three-valued hour in `CommercialFollowup`.
4. The follow-ups' sends through `WhatsAppTool`, as the reminders' are.

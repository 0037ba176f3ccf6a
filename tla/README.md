# TLA+ models and proofs of the yield control plane

The repository is a Rust implementation of a control plane that sweeps idle
cash into a yield product: an HTTP API and a few workers over one PostgreSQL
database, coupled by a transactional outbox, SNS and SQS. The modules in this
directory are written from the Rust and SQL sources, line by line; they are
independent of the design-level specifications in `src/spec/tla`.

`PROJECT.json` maps every definition to its source lines and lists the runs,
the mutants, the hazards, the findings and the theorems.

    tlc -workers 2 -config MCSweepOrders.cfg MCSweepOrders
    tlapm SweepOrdersProofs.tla

## 1. The system

| Part | State it keeps | Operations | What makes it correct |
|---|---|---|---|
| Sweep state machine (`crates/domain/src/sweep.rs`) | none; table of 20 statuses x 19 commands with guards and events | `transition` | the table leads one way; no command twice on an order |
| Domain rules (`asset.rs`, `ledger.rs`, `money.rs`) | none | cash rail, yield source, confirmation and balance checks | FIDD is never a yield source; no booking without a reference |
| Order store (`persistence/src/repositories.rs`, migration) | orders, timeline, ledger, positions, breaks, audit and outbox rows | `create_sweep_order`, `apply_command`, `resolve_reconciliation_break` | the tables agree with one another and with the status |
| Idempotency (`repositories.rs`, `idempotency.rs`) | `idempotency_records`, `sweep_policies` | lookup, write, record | one order per key; a retry is answered like the first attempt |
| Outbox and publisher (`outbox.rs`, `workers/mod.rs`) | `outbox_events`, the batch in the publisher's memory | insert, lease, publish, mark | every row published; no row with two publishers |
| Inbox and consumers (`inbox.rs`, `workers/mod.rs`) | `inbox_messages`, SQS queues, the message a worker holds | receive, record, handle, delete | each message handled once; every order carried on |
| API (`services/api`) | none of its own | policy, order, approve, cancel, redemption, resolve, mismatch switch | decides on statuses it read earlier |
| Mock transfer agent | map of confirmations, in memory | confirm | the same reference for every request of an order |
| Abstract refinement harness (`abstract_refinement.rs`) | the abstract order | `AbstractSweepState::apply` and its invariants | the store follows it, but for two ledger effects |
| Certification kernel (`certification.rs`) | none | admission, arrival rate, drain | a campaign is admitted exactly when some rate carries it out |
| Certifier service (`services/certifier`), queue-drain script | none | SQL checks on a database in use; passes over the queues' attributes | a correct system passes; what the two together tell of the events |
| Read routes (`routes/mod.rs`, `repositories.rs`) | none | order with timeline, positions, breaks, audit events | what is shown together fits together |
| Configuration, observability, web console, infrastructure | none that matters here | - | - |

How they interact. The API and the workers never call each other: each opens
transactions on the database, and `apply_command` locks the order's row
(`select ... for update`), so operations on one order are serialised there and
nowhere else. The transaction that changes an order inserts its outbox rows.
The publisher leases those rows, publishes them to SNS, which copies them to
the queue of each consumer. A consumer records the message in the inbox,
commits, then runs a handler that issues commands one transaction at a time,
and deletes the message. The handler of the transfer-agent worker calls the
mock transfer agent over HTTP between two of its commands. Operators read the
tables through the read routes, several statements per review, and a
certification run reads the tables and the queues while both are in use.

What is hard about it:

- *Between transactions.* A handler and `approve_order` read a status in one
  transaction and act on it in another; cancellations, approvals and second
  handlers come between.
- *Crashes between steps.* Lease and mark, inbox row and handler, handler and
  delete are separate commits.
- *Redelivery.* A visibility timeout returns a message while its handler still
  runs; a publish whose answer was lost yields a second message with its own
  id, which the inbox does not recognise.
- *Lock-free lookup.* The idempotency lookup takes no lock, so two requests
  with one key both go on to write and unique indexes decide.
- *Time stamps.* Rows carry the start of their transaction, and commands on one
  order commit in another order than they started.
- *Observers.* The read routes, the certifier and the drain script look at the
  system piece by piece while it moves, and the last two at different times.
- *Unconditional writes.* `mark_published`, `mark_failed`, the ledger insert
  and `resolve_reconciliation_break` check nothing; they are right only because
  of what happened before them.

`PROJECT.json` lists these as hazards, each at its line, with the properties
that cover it.

## 2. Modules

    SweepMachine                  pure data: statuses, table, guards, events
      SweepOrders                 the store: one action per transaction
        Workers                   SQS consumers and API requests over the store
        OrderRequests             idempotent API writes over the store
      KeyedOrders                 the atomic creation OrderRequests implements
        OrderViews                open transactions and readers over the store
        Certifier                 the certifier's queries on the store
        SweepRefinement           how far the store implements AbstractSweep
      AbstractSweep               the abstract order of abstract_refinement.rs
    Outbox                        the publisher protocol, row by row
      Delivery                    outbox, topic, queues, batches, handlers
        Certification             the drain script beside the system; what the gates tell
    CertificationAdmission        the admission arithmetic
    EventBus                      the promise Delivery implements
    *Proofs                       theorems, one module per subject
    MC*                           the instances TLC checks

**SweepMachine.** `Table` is `transition_definition` as a set of triples;
`Guards`/`GuardPassed` are its guard lists; `Defined` holds the two match arms
that `chain_mirror_required` selects. A `GuardContext` is the set of its true
fields. `EventTable` is what each transition emits. `Rank` is ours: a number
per status that every transition increases.

**SweepOrders.** One variable per table. `CreateOrder`, `ApplyCommand` and
`ResolveBreak` are the three writing operations, each one action because each
is one transaction that holds the row lock (or a unique index entry) to its
commit; an operation that fails rolls back and so has no action. Unique
constraints are guards: the key of an order, the confirmation reference of an
order and of a position. A ledger row is its kind, asset and side: both rows
of a pair carry the order's amount, so amounts are left out. The ledger and
the events are counts per shape, so that a row inserted twice shows. The
timeline is a sequence in commit order.

**Outbox.** One variable per column that matters, and per publisher its place
in `publish_once`, its batch and the row it is marking. Each SQL statement is
an action. `LeasePendingOutbox` takes the `Limit` oldest leasable rows; `for
update skip locked` makes concurrent leases disjoint, which one atomic action
gives. `PublishError` covers a call that failed before or after SNS accepted
the message. `MarkLost` is a failing mark, `Crash` a killed process or the
`ctrl_c` branch of `select!` that drops the future. `sent`, `errors` and
`orphaned` are history variables. A payload that is not an envelope cannot be
in the table and its branch is left out.

**Workers.** Per message its place (absent, unsent for good, visible, in flight
at a worker, deleted, dead) and receive count; per worker its program counter, its message
and the commands it has still to issue. `Receive`, `RecordInboxMessage`,
`CheckStatus`/`ApplyChecked` (`apply_if_status`), `CheckSubmitted`,
`RequestConfirmation`, `ApplyNext`, `Review`, `ReadMismatch` and
`DeleteMessage` are the awaits of `consume_queue` and the two handlers.
`HandlerFails` is `?`: a refused command or a failing call. An approval is a
process of its own with its read and apply steps; create, cancel, redemption
and resolve are single transactions (`ApiWrite`). SNS and SQS are external and
modelled from their use: delivery in any order, a second message for a second
publish, visibility timeouts at any moment, dead-lettering at
`maxReceiveCount`. `LeftLeased` is what `Outbox` shows of a publisher that dies
or cannot mark: the row stays leased, and the copies not sent by then never
are. A consumer that receives five messages (`receive(10, 5)` waits ten seconds
for at most five) handles them one after the other; in the model it receives
the later ones late, which allows every order of handling; the batch itself is
in `Delivery`. The mock transfer agent
answers with `CreateSubscription`, a function of the order, because it hashes
the idempotency key that the worker derives from the order; `SubscriptionFails`
is its failure mode.

**OrderRequests.** Clients submit policy, order and command requests, each
with its key; the API looks the key up (`ExistingIdempotentResource`), then
writes and records (`WriteOrder`, `WritePolicy`, `WriteCommand`) in one action,
because the writes of a second request wait for the first to commit. Bodies
are compared as the requests themselves, a hash in the code. `Committed` may
lose the answer; `TransactionFails` rolls back; both count against
`MaxFailures` per client. `WriteOrderTwice` is the 500 of the unique index. The two
checks before the transaction are answered differently: `Invalid`, a product
that may not yield, is a domain error and a 422 (`RejectInvalid`); `NoRail`, a
cash asset that is no rail, is `PersistenceError::Parse`, which `error.rs` maps
to a 500 like a failed service (`RejectCash`), so a client retries it for ever.
`WorkerCommand` lets the workers' commands come between, any that the store
accepts. The keyed command of an approval goes through the same lookup as a
cancellation and is not submitted separately.

**KeyedOrders.** What a client of `POST /sweep-orders` may rely on, without lookup,
records, unique index, failures or retries: an order is made under a key at most
once, and an answer is `ok` with the order made under the key, `conflict` if that
order has other terms, `invalid` if the terms are rejected, as one look at the
orders made tells. Terms that are neither admissible nor rejected get no answer. The
mapping at the end of `OrderRequests` reads the orders made from the order rows, not
from the records, and shows a client that asked for an order only; a lost answer is an
order made whose client still waits.

**AbstractSweep** and **SweepRefinement.** `AbstractSweep` is the abstract order
of `abstract_refinement.rs` as the Rust states it: `Sources` and `Target` are
`for_parts`, `Justified` the guards `apply` reads off the history, `Invariants`
what `assert_invariants` asserts after each action. The repository drives it
from unit tests with hand-picked transitions. `SweepRefinement` instantiates it
once per order with a mapping from the tables, and nothing else: confirmation
from the order row, booking from the position, debits, credits and assets from
the ledger counts. The store is not an implementation of the abstract order.
`Follows` is `apply` without the ledger effect and `Effect` that effect, so
`FollowsAbstractSweep` can say exactly how far it is one: every step is an
`Apply` of the abstract order, but for `LockedInCash`, which posts its pair in
the cash asset where the abstract order counts the product, and
`CreditedUnposted`, which posts no row where the abstract order counts a debit
and a credit (finding 5). Both follow the abstract action in everything else,
its invariants included.

**Certifier.** The queries on orders, ledger and events as sets of offending
groups; `CertifierPasses` says all are empty.

**OrderViews.** Opens `ApplyCommand`: `Begin` is `pool.begin()`, which fixes
`now()` and hence `created_at`; `Commit` is everything from the row lock on.
`started` says which of two transactions of an order began first, and becomes an
order of rows as they commit: `ListedBefore` is `order by created_at`, and
`ListTimeline` the rows it lists. A command is begun by a caller that has seen the
order, or been answered, in a status which allows it (`Seen`); the redemption
route asks without looking. A reader takes its statements one at a time, in the
order that `docs/operations.md` gives an operator.

**EventBus**, **Delivery.** `Delivery` composes `Outbox` with SNS (`Deliver`:
every publish that SNS took is a message per consumer), SQS and `consume_queue`
with its batch: `Receive` takes up to `BatchSize` messages, the loop records,
handles and deletes them one by one on receipts that may have run out, and
`Stop` loses the rest of the batch. What a handler does is left to `Workers`; here
it succeeds or fails. `EventBus` is the abstract service: an event is committed,
sent a bounded number of times, and per copy and consumer a handler is started
at most once and finishes at most once. `RefinesEventBus` maps one to the other.

**CertificationAdmission**, **Certification.** `Rejection` is the sequence of
checks of `admit_certification_campaign`; the sum of the rounded-up rate wraps
at `Width`. `AdmissionExact` compares it with a reference definition, the set of
rates that carry the campaign out; it reads nothing of the delivery, and
`CampaignAdmission` has TLC evaluate it in the states before the first event.

`Certification` puts the drain script beside the running `Delivery`. A pass of
the script (`looked`) takes one queue after another, the source queues before
the dead-letter queues, with steps of the system between any two looks;
`FoundWaiting` ends a pass that can no longer total zero, and `Drained` is its
exit with 0, after which it looks no more. The certifier's outbox query
(`NoStaleUnpublished`, with `aged` for "older than five minutes") is evaluated in
every later state, because the certifier is a program of its own, run at any
time after; `aws-cert-collect.sh:63` even reuses the drain evidence of an
earlier stage. What the two gates are worth together is therefore less than it
looks, and `CertifiedMeansTaken` says how much: every event older than five
minutes was published, and was taken by each consumer, or a copy of it is
between topic and queue, or came to a queue after the script had looked there
(`late`, a row retried between the gates for one). No message can have gone
from a source queue to a dead-letter queue unseen, because of the order in
which the script looks; with the queues in any order that fails (the mutant).
The queue attributes, "approximate" by name, are taken as exact, and the script's
deadline, which ends it with 1 and no claim, is left out.

## 3. What TLC checks

| Run | Instance | Shows |
|---|---|---|
| `sweep_orders` | 2 orders, 2 keys, 2 references, 3 requests (1 admissible), 3 guard contexts | type; `TimelineFaithful`, `LedgerExact`, `PositionBacked`, `EventsExact`, `CancelledMovedNothing`, `BreakTracksException`, `CertifierPasses`; `Irreversible`; `FollowsAbstractSweep` |
| `outbox` | 2 publishers, 3 rows, batches of 2, 1 SNS error per row, crashes and failing marks | type; `OneHolder`, `ResentOnlyAfterError`; `PublishedIsFinal`; `EventuallyPublished` |
| `outbox_stuck` | the same | violation of `LeaseDoesNotStayStuck` |
| `workers` | 2 transfer-agent replicas, 1 reconciliation worker, 3 messages of 1 order, 2 receives, all faults, a dead publisher's among them | type; `HandledAtMostOnce`, `ReviewedAfterBooking`, `RedemptionNotReviewed`; `LeftForGood` |
| `workers_faults` | 1 worker of each kind, an approve request, all faults, a dead publisher's among them, 2 receives | `QueueDrains`, `OrdersCompleteOrDropped`, `MismatchOpensException` |
| `workers_twice` | the created event published twice, 2 replicas, no fault | `OneBooker`, `OrdersComplete` |
| `workers_lost` | 2 replicas, no fault | violation of `DeletedOnlyAfterSuccess` |
| `workers_exceptions` | 1 worker of each kind, no fault | violation of `ResolvedExceptionsClose` |
| `order_requests` | 2 clients with one key, 2 orders, 8 requests (a product that may not yield and a cash asset that is no rail among them), 1 failure each | type; `RecordsMatchOrders`, `OkMeansDone`; `RefinesKeyedOrders`; `EveryRequestAnswered`, `MadeIsAcknowledged` |
| `order_requests_policy` | 2 clients, 2 policies, one key | violation of `DifferentBodiesRejected` |
| `order_views` | 1 order, 2 writers, 1 reader, the commands up to `BookPosition`, `Cancel`, `OpenException`, `RequestRedemption` | `ListedInCommitOrder`, `TimelineNotBehind`, `ReviewConsistent` |
| `certification` | 1 event, 1 publisher, 1 SNS error, 2 replicas of 1 consumer, batches of 2, 2 receives, all faults, and the drain script pass after pass; integers of width 8 | type; `CampaignAdmission`, `CertifiedMeansTaken`; `RefinesEventBus`; `OrphanFailsEveryRun`; `EventuallyRecorded` |

Why the bounds are enough. Orders meet only in the unique constraints, which
relate two orders, so two orders and two references show every conflict and
one reference more than an order needs. Orders and references are symmetric in
`SweepOrders`, and the transfer-agent replicas in `MCWorkers.cfg`, where no
liveness is checked. Three rows and batches of two let a row fall outside a
lease, two publishers let leases overlap. Two receives per message are one
delivery and one redelivery; the code's five repeat the second. The guard
contexts are the one every service passes and two that require the chain
mirror, which no service passes today but the table provides for. Two clients
with one key are the race. Orders do not meet in a review, so `order_views` has
one; its writers do not begin a command that the order has already done, which
can only be refused and leaves nothing behind. It stops at the booking: the
commands after it write timeline and events like those before, and a redemption
is asked for there too early and refused (the theorem covers the one that is
granted). In `certification` the one event is sent twice when SNS answers with
an error after taking it, so two copies share a batch, a replica or neither; 8
is the smallest width at which the rounded-up rate meets both the largest
target and a duration that does not divide it. `workers` leaves out a booked
event sent twice. With it, `RedemptionNotReviewed` allows what then happens:
the second copy has its own message id, its handler runs, and with the mismatch
switch set it opens an exception on an order in redemption. The store's own
history is finite: each status is entered at most once (`Rank`). The other
counters are bounded by named constants: `MaxErrors`, `MaxReceives`,
`MaxFailures`, and the set `Deliveries`.

`CHECK_DEADLOCK FALSE` is set in every run but `order_views`, whose reader never
stops: settled and cancelled orders, published rows and answered requests have
no further step.

Fairness. `Outbox!Fairness`: the publisher's loop never returns, so each of
its statements is eventually made; `MaxErrors` says that an outage of SNS
ends, for every row: a batch of rows whose publish fails for ever could keep
newer rows from being leased, which is not run. Leases need no fairness, rows never wait for one to expire.
`Workers!Fairness`: the consumers poll for ever and finish what they started
unless they crash (weak fairness of each worker's steps); an event is delivered
unless its row was left leased (`LeftLeased`, after which its `Deliver` is never
enabled), because `EventuallyPublished` in `outbox` has every other row published
and SNS delivers what it took; visibility timeouts pass and SQS dead-letters. No
fairness is assumed of API requests, second publishes, faults or the mismatch
switch. `OrderRequests!Fairness`: the API serves what it
accepted, and a client retries what was not answered or was answered 500, as
idempotency keys are meant for; it cannot tell the 500 of `RejectCash`, so
`EveryRequestAnswered` leaves those requests out. `Delivery!DFairness` is the same for the
composition: the publisher's, each message delivered, timed out and
dead-lettered, each service's loop; the drain script is assumed
to do nothing. The receive takes some of the messages that
are visible, not chosen ones; that no message is overlooked for ever follows
from the others being used up, since receives are bounded.

Every property of a passing run has a mutant in its module: a plausible
mistake in the code (a constraint dropped, a status misspelt, an inbox answer
ignored, a lease filter loosened) with which TLC finds the property violated.

## 4. Findings

1. *A lease can stay stuck.* `lease_pending_outbox` (`outbox.rs:40`) selects
   rows whose status is `pending` or `failed`. A row is set to `leased`, and if
   its publisher dies, is stopped by `ctrl_c`, or cannot mark it, no one picks
   it again, although `leased_until` passes. `docs/liveness-verification.md`
   states "Outbox lease does not stay stuck". Run `outbox_stuck`.
   `EventuallyPublished` states what does hold: everything else is published.
2. *A message is deleted without success.* The inbox row is committed before
   the handler runs, and a message whose inbox row exists is deleted. A message
   redelivered during its handler, or after the handler failed, is deleted
   unprocessed, against `docs/traceability.md` ("only delete messages after
   successful processing"). Run `workers_lost` shows it without any fault.
   `OrdersCompleteOrDropped` states what does hold.
3. *Two bodies accepted under one key.* Two racing policy writes with one key
   and different bodies are both answered ok: the record keeps the first, the
   policy is the second. `docs/security.md` says they are rejected. Run
   `order_requests_policy`. Orders do not have this flaw, their unique index
   refuses the second (`RecordsMatchOrders`, `OkMeansDone`).
4. *Resolving a break closes no exception.* `resolve_reconciliation_break`
   (`repositories.rs:364`), which is the whole resolve route, updates the break,
   and no service issues `CloseException`: the order stays in `ExceptionOpen`.
   `docs/liveness-verification.md:28` lists "Resolved exceptions close" with the
   resolve route as its evidence. Run `workers_exceptions`. `LeftForGood` states
   what does hold: no service ever moves an order in exception.
5. *The store does not post what the abstract order counts.* `apply_side_effects`
   has no arm for `CreditCash` and posts nothing for it (`repositories.rs:678`).
   The abstract order adds a balanced effect (`abstract_refinement.rs:330`), its
   test demands the third debit (`refinement_trace_tests.rs:240`,
   `assert_eq!(state.ledger_debit(), 3)`), and `docs/formal-verification.md:57`
   gives `insert_balanced_ledger_entries` as the code behind
   `CreditCashPreservesInv`. The pair of `LockCash` is in the cash asset
   (`repositories.rs:609`) and in the product asset in the abstract order
   (`abstract_refinement.rs:382`). Run `sweep_orders`, which passes with these
   two steps named (`CreditedUnposted`, `LockedInCash`); `FollowsAbstractSweep`
   states that nothing else differs.
6. *A requested redemption goes nowhere.* The route issues `RequestRedemption`
   (`routes/mod.rs:264`), and no service issues any of the five commands after
   it. `docs/liveness-verification.md:27` lists "Active redemptions progress to
   settlement"; its evidence is a test that issues the commands itself. Run
   `workers`: `LeftForGood` states that no step of a service takes an order out
   of redemption, but for an exception on a booked event sent twice.

## 5. What is proved

The proofs assume only the named ASSUMEs of the modules: null values are not
proper values, terms are pairs of assets, guard contexts are sets of context
fields, rows are a finite set of numbers, limits are natural numbers, workers
are not the names of queue states, the transfer agent has a reference for each
order. There is no bound on orders, keys, references, clients, publishers, rows,
workers, messages or integers' width.

**SweepOrdersProofs** proves `Spec => []TypeOK`, then the six safety invariants
and `Irreversible`. None of the six is inductive. The invariant `IInv` adds

- `TimelineRanked`: the ranks along a timeline increase and the current status
  is the last, so that a command already in the timeline cannot be enabled
  again (`CommandOnce`, `NotDoneYet`); this is why the unconditional ledger
  insert posts only once;
- `PathTaken`: which commands an order in a given region of the table must
  have had (cash locked, confirmed), which gives `PositionBacked` its backing;
- `Quiet`: nothing has been posted for an order that is absent, cancellable or
  cancelled, which gives `CancelledMovedNothing`.

`CreatePreserves`, `ApplyPreserves` and `ResolvePreserves` show one action each
to preserve `IInv`; under each there is one step per conjunct. The facts about
the table they need (`TableRegions`, `RankIncreases`, `EmitsDisjoint`) are in
the first section of the module. `Irreversible` follows from `IInv` by `CreateStep` and
`ApplyStep`.

**SweepRefinementProofs** proves that the store follows the abstract order
(`StoreFollowsAbstract`), with the two departures named, and that no query of the
certifier finds anything (`CertifierNeverFails`). The refinement's invariant
`RInv` adds to `IInv` that an order has allowed terms and that a reference is
recorded iff the confirmation was applied. Its core is `EffectsPosted`, which
counts the mapped debits and credits by the commands done, so that one step of
the store is seen to post exactly the rows it is said to.

**OrderRequestsProofs** proves `RecordsMatchOrders`, `OkMeansDone`,
`RefinesKeyedOrders` and the type invariant, and that no record is changed or
removed (`NothingForgotten`). `QInv` adds to `IInv` that a key belongs to one
order (`KeysGiven`), that records and orders name each other (`RecordsInv`),
and per client that an ok it was given is true (`OkInv`), which stays so
because the rows it speaks of are never taken back (`RowsKept`). For the
refinement (`RequestsImplementKeyedOrders`), `OrdersRecorded` makes a look at
the records a look at the orders (`LookupShown`), `KeysGiven` makes the order
that is written a new one under a new key (`CreateShown`), and everything else
is not seen (`ServiceUnseen`).

**OrderViewsProofs** proves `ListedInCommitOrder`, `TimelineNotBehind` and
`ReviewConsistent`, and that the listing orders every two rows (`ListingTotal`).
`WriterInv` is about the transactions: `started` orders those of each order one
after the other (`StartsOrdered`), which a commit, by renaming the open
transaction to the row it wrote, and a rollback keep (`OrderRenamed`,
`OrderRestricted`); an order leaves a status for ever (`EnteredOnce`); and an open
transaction started after the row in whose status its command is allowed
(`Began`). A command allowed in one status only must find the order in that very
status when it commits, so that every row which is listed after it was
committed after it. `ReviewInv` is about the readers: whatever was shown is
grounded in rows that the order still has (`Grounded`), because rows are only
added (`RowsStay`); from there each further list holds what the ones shown before
it ask for.

**WorkersProofs** proves `HandledAtMostOnce`, `OneBooker`, `ReviewedAfterBooking`,
`RedemptionNotReviewed`, `LeftForGood` and the type invariant. First, every step of
workers and API is a step or a stutter of the store (`WorkersStep`), so `IInv`
carries over.
`WInv` adds how a worker's message and command list fit its step (`WBase`), that
references come from the agent only (`ConfirmedByAgent`), that a message
belongs to a written event (`Arrived`), that a worker about to book has had its
confirmation applied, alone (`Bookers`), and that an order which became active
was reviewed to the end under a message no handler will start again
(`DecidedOnce`). The last gives `RedemptionNotReviewed`: a reviewer of an order
in redemption holds another message of the same event, and of two copies one has
a number above 1. `LeftForGood` uses it for a redemption that becomes an
exception, which a reviewer alone can open (`Interrupts`); every other command a
service still issues is refused in both statuses (`Unissued` are the ones that none
issues).

**OutboxProofs** proves `OneHolder`, `ResentOnlyAfterError`, `PublishedIsFinal`
and the type invariant. `IInv` adds `Holding` (a publisher that marks is
marking a row of its batch, and one that polls has none) and `Counted` (how
attempts, sends and errors are related in each status). `PublishedIsFinal` is the
one that surprises: the marks check nothing, yet no published row is taken
back, because only the one holder of a leased row ever marks it.

**DeliveryProofs** proves that the composition implements the event bus
(`DeliveryImplementsBus`). `DInv` extends the outbox invariant by: a message in a
queue was sent, a recorded one was received, what left a queue is in the inbox,
and a service that handles a message is alone with it and has not succeeded
yet (`HandledOnce`).

**CertificationProofs** proves the admission arithmetic for every width
(`AdmissionIsExact`; on 64 bits TLC could not enumerate it), what the gates tell
(`CertificationIsSound`), and that no step changes an aged row that lost its
publisher, so that every later run fails (`OrphansFailForEver`). The inductive
invariant of the gates is `GateInv`, over `DInv`: a message of a source queue
that the pass found empty is not there yet, deleted or dead, or came `late`, and
once the dead-letter queue was found empty too, it is not dead either.
`SystemKeepsGate` shows it for the steps of the system, where `MessagesRest` is
the argument (a message that left its source queue never comes back), and
`LookKeepsGate` for the looks, where the source queues come first.

The three systems built over the store implement it as specifications
(`WorkersImplementStore`, `RequestsImplementStore`, `ViewsImplementStore`): no
interleaving of their steps, no failure between two of them and no open
transaction shows the store anything but its own transactions. With
`StoreFollowsAbstract` each of them therefore follows the abstract order as far
as the store does.

Only model-checked: every liveness property, since fairness and ENABLED are
beyond TLAPS. Every safety invariant and action property that a passing run
checks has its theorem (`CampaignAdmission` that of its arithmetic,
`AdmissionIsExact`).

## 6. What is not modelled

- Web console, configuration, observability, infrastructure: no protocol state.
- Of the certifier: the checks that a primary key or unique index decides
  (idempotency records, inbox, one position per order), the append-only probe,
  which tests a trigger against a statement no service makes, and the report.
- Chain-watcher and notification workers log and delete; they share
  `consume_queue`, which `Delivery` models with handlers that succeed or fail.
- Poison messages, which the publisher cannot send, and 404s.
- The redemption after its request, and the chain mirror: no service issues
  these commands, so they are exercised in the store and the refinement only.
- PostgreSQL itself: that a transaction is undone as a whole, that `for update`
  holds a row to the commit and `skip locked` passes over it, are assumed by
  making each transaction an action.
- Of the drain script: its deadline and the inexactness of SQS counts. The other
  scripts of a certification run only gather evidence.
- Decimal amounts: every row of an order carries its one amount.
- The mock transfer agent's map: a lost entry is recomputed with the same
  reference.
- The specifications in `src/spec/tla`, which the repository checks itself.

## 7. Plan

Done, in this order: the state machine and the store with their proofs; the
outbox with its proofs; the consumers; the idempotency protocol; the abstract
order, the refinement and the certifier; the composed delivery, the event bus
and the certification gates; the readers; the proofs of all of these. What
remains:

1. A composition of `OrderRequests` and `Delivery` with one clock for the
   certifier's "older than five minutes" on both sides.

# A verification project for wechat-clone

TLA+ modules that model the parts of this chat and wallet back end in which
concurrency, redelivery and partial failure decide correctness, the TLC
configurations that check them on small instances, and TLAPS proofs that hold
for every size.

- `PROJECT.json` lists components, runs, mutants, findings, hazards and
  theorems, and maps every definition to the source lines it stands for.
- Check a run with `tlc -workers 2 -config <cfg> <module>`; the table under
  *Runs* has the names.  Check proofs with `tlapm <module>Proofs.tla`.

## 1. Inventory

The program is one Go binary built from modules (`core/modules`), a gateway in
front of it, and PostgreSQL, Redis, Kafka (fed by Debezium from outbox tables),
Cassandra, Elasticsearch, Consul and Stripe around it.  A module keeps its write
side in PostgreSQL as aggregates with an outbox table (notifications keep
theirs in Cassandra); other modules and its own read side hear of a change only
through the outbox and Kafka, and clients through Redis channels and websockets.

| component | state | operations | what is hard | correct means |
|---|---|---|---|---|
| ledger | event-sourced accounts, snapshots, posted-transaction keys, outbox; projected headers and entries | transfer, book a payment event, project, list | two requests on one account, redelivery, a crash between legs, two projectors on one event | double entry, no overdraft, posted once, gapless history, pages that show all of it |
| payment | intents, processed events, outbox | create, withdraw, webhook, refund, payout job | Stripe repeats and reorders; a lock that expires; money moves before the save | final events once, in order and true; payments settle; the ledger books what was agreed |
| relationship, write side | requests, friendships, follows, blocks, counters, outbox | nine commands on a pair | both users act at once; counters shared between pairs; row-lock order | a block severs, counters count, no command hangs |
| relationship, read model | a Cassandra row per pair, edge tables | project an event, list by pages | no transaction in Cassandra, retries, dead letters, cursors | the row catches up, the edges follow it |
| message consumer | group offset, dead-letter topic | poll, retry, dead-letter, commit | crash and rebalance between handling and commit | nothing is passed over silently |
| room, messages | rooms, members, messages, a copy in Redis, projections | create, add, remove, send, edit, delete, react, mark, pin, forward; conversations and pages | whole rows written back from old readings, a copy set before the commit, an event applied by halves | membership, names and deletions last; readers see what the database has |
| room websocket hub | clients, rooms, Redis subscriptions in memory | register, join, leave, broadcast, close | decisions under a mutex acted on after it is released | a room with clients is fed; who left is gone |
| video call | call sessions in Redis | start, join, leave, end | lock and session expiry, news that overtake each other | changes are atomic, news are explained |
| notification | four Cassandra tables, a websocket hub | consume events, mark read, list | up to six statements per save, redelivery, milliseconds | the tables agree, each message counts once |
| account, sessions | event history, row, cache, search index, devices, sessions | register, Google, login, refresh, logout, password, profile, verification | stale rows written back, hooks after commit | only earned sessions are active, a token serves once |
| gateway | rate windows, idempotency keys | limit, authenticate, deduplicate, proxy | Redis commands that interleave, a key that expires during the request | never over the limit, carried out once |
| HTTP API | none | read, check, dispatch, answer | forms checked twice, the path overridden by the body | commands get whole requests |
| local bus | subscriptions with bounded queues | publish, subscribe, close | close against blocked publishers | in order, once, and it closes |
| migrations, life cycle | schema tables; listeners, Consul entry, runtimes | migrate; start, serve, stop | two processes at once, death at any step | versions whole and in order; nothing uses a closed context |

Interactions.  The payment module publishes PaymentSucceeded, PaymentRefunded,
PaymentChargeback, PaymentWithdrawalRequested and PaymentFailed through its
outbox; the ledger books them, possibly several times.  The properties of
`PaymentIntent` about what is published are what `Ledger` may assume of its
input, `PaymentMoney` follows the amounts from one into the other, and
`KafkaConsumer` says with what repetition and loss an event arrives.
Relationship, room and account events go the same way to the read models and to
notifications.  The room hub and the video call share the connection of a client.

The hazards are listed in `PROJECT.json`, each at the line where it bites and
with the properties that would catch it.

## 2. Modules

| module | models | composed of |
|---|---|---|
| `LedgerPostings` | pure: the legs of a request, the funds rule | |
| `Ledger` | command side of `core/modules/ledger` | EXTENDS `LedgerPostings` |
| `LedgerReadModel` | its projector and queries | EXTENDS `LedgerPostings` |
| `PaymentIntent` | `core/modules/payment`, the Redis lock, Stripe | |
| `PaymentMoney` | fees and amounts, down to the ledger's entries | EXTENDS `PaymentIntent` |
| `RelationshipPair` | write side of `core/modules/relationship` | |
| `RelationshipReadModel` | its projector, Cassandra tables and queries | EXTENDS `RelationshipPair`, `RelationshipPages` |
| `RelationshipPages` | pure: cursors and mutual friends | |
| `KafkaConsumer` | `core/shared/infra/messaging/consumer.go` | |
| `Room` | write side of `core/modules/room` | |
| `RoomReadModel` | its projector and readers | EXTENDS `Room` |
| `RoomPages` | pure: pages of messages, conversations, mentions | |
| `RoomHub` | `room/transport/websocket` | |
| `AtomicCall` | abstract: a call that changes atomically | |
| `VideoCall` | `video_call_service.go` under its lock | INSTANCE `AtomicCall` (refinement) |
| `Account`, `Sessions` | `core/modules/account` | `Sessions` EXTENDS `Account` |
| `Notification`, `NotificationHub` | `core/modules/notification` | |
| `LocalBus` | `core/shared/pkg/pubsub` | |
| `RateLimiter`, `Idempotency` | the gateway's use of Redis, and its proxy | |
| `HttpForms`, `HttpApi` | the requests and routed handlers of the API | `HttpApi` EXTENDS `HttpForms` |
| `Migrations`, `Lifecycle` | `cmd/migrate`, `cmd/main.go` and what they call | |
| `MC*` | instances for TLC | EXTEND what they check |
| `LedgerProofs`, `PaymentIntentProofs`, `RelationshipProofs`, `InfrastructureProofs`, `RoomProofs`, `VideoCallProofs`, `AccountProofs`, `NotificationProofs` | theorems | EXTEND TLAPS and the module of that name (`LedgerProofs`: `MCLedger`; `PaymentIntentProofs`: `MCPayment`; `RelationshipProofs`: `RelationshipReadModel`; `InfrastructureProofs`: `MCInfrastructure` with the consumer, the bus, the gateway, the API, migrations and lifecycle; `RoomProofs`: `Room` and `RoomHub`; `AccountProofs`: `Sessions`; `NotificationProofs`: `Notification` and `NotificationHub`) |

### Ledger

A worker is an HTTP request or a Kafka handler inside `WithTransaction`.  Its
`pc` is the loop it is in: `load` (one account per step, then `replay`, one
event per step, running the funds check again as `applyPosting` does), `apply`
(one leg per step), `save` (one account per step).  `Legs(r)` is the sequence of
postings the code builds from a transfer or from a payment event, in its order,
fee legs included.  The tables change at `commit` only; before it, a save has
compared the version of the row and the posted-transaction keys and holds the
row, so another transaction that saves the same account waits.  `crash` and
`deadlockVictim` roll back at any point.  A conflict rolls back too; the
message is redelivered, which is `Begin` with the same request.  A transfer has
a fresh transaction id and is issued once.  `ReservePostedTransaction` tests a
shadowed error, but PostgreSQL has aborted the transaction by then: the model
lets it fail.

One currency, since balances are independent per currency.  The Redis
locks around the entry points are left out: they expire, and nothing below
depends on them.

In `LedgerReadModel` a projector looks up header and entries, inserts what is
missing and commits; events come by account, so the legs of a transaction are
projected apart.  Balances, single transactions and pages are read from the
tables at every state.

### PaymentIntent and PaymentMoney

`intents`, `processed` and `outbox` are the three tables; `Save` writes them in
one transaction, and a processed event that exists fails it.  The aggregate's
`ApplyProviderOutcome` is `PaymentTransitions`, `OutcomeEvents` and `Outcome`.
Workers run CreatePayment (no lock), ProcessWebhook, RefundPayment and the
payout job (each under `payment:<transaction id>`).  `AcquireLock` either finds
the key free or the request fails with no effect; `ExpireLock` may happen at any
time, also under a live holder, which the history variable `expired` records.
Stripe is external: `stripe[p]` is the set of facts about a payment,
`ParseEvent` the results the adapter makes of the webhooks for a fact, and
every webhook of every fact may arrive at any time, any number of times.
Calls fail before or after taking effect.  `older` is the order of the rows, in
which the payout job takes the oldest `BatchSize` that are `CREATING`
(`ListPendingWithdrawals`).  `Registered` are the payments whose provider the
registry knows: CreatePayment asks it first, CreateWithdrawal never does, and the
job's run on a withdrawal with an unknown provider ends in an error that leaves the row as
it is (`GetByTransactionID`).  Rows are ordered by their insertion; the code
takes `created_at` a moment before.

`PaymentMoney` gives the events their amounts, for every amount and fee within
the bounds, and the ledger's entry point for payment events books them (`EventLegs`)
or refuses them (`Allowed`: the legs go through `ensurePostingAllowed` one after the other,
from whatever the person has, `funds`).  CreateWithdrawal looks at no
balance, so every withdrawal is made with every balance.  Integers are
`Width` bits wide in the fee.

### RelationshipPair, RelationshipReadModel, RelationshipPages

A command locks the guard row of its pair (`LockPair`), loads (`LoadForUpdate`),
decides (`EnsureCan*`), applies one event, inserts missing counter rows and
updates the counter rows in any order (`InsertStub`, `UpdateCounters`: the code
ranges over a Go map), and commits (`Save`).  `Stuck`, `WaitsFor` and
`DeadlockVictim` are PostgreSQL's lock waits.  The read model adds one consumer
per pair: `SavePair` is reading, changing and writing the pair row,
`SyncEdges` one edge table at a time, `Interrupt` a failure between them, `Park`
the dead-letter topic; the readers are operators over the tables.

### Room, RoomReadModel, RoomPages

A command reads the room (from Redis when it is there) and its members outside a
transaction, decides, and saves in one; no version is compared.  `UpdateRoom`
sets the copy in Redis before the commit.  The projector applies an event write
by write and may stop between two.  `RoomPages` is the readers' paging as pure
operators, checked over every timeline of four messages.

### RoomHub, VideoCall, AtomicCall

Every critical section of the hub's mutex is a step, and every call outside it.
A connection has a read pump (`pc`) and a write pump (`writer`).  A video call
request is `Begin`, `Get`, `Write`, `Release`, `Announce`; the lock and the
session key expire by steps of their own.  `AtomicCall` is what the room promises:
every change is made to the call as it is; `VideoCall` implements it while no
key runs out under a holder.

### Account, Sessions

`log` is the event history; a save compares versions by the unique index.  The
cache is set after the commit.  Sessions are whole rows read in one step and
written in another.

### Notification, NotificationHub

A save is one step per statement.  Events are redelivered and retried from the
start.  `Milli` models that Cassandra truncates times.

### Infrastructure

`KafkaConsumer`: one partition, members of one group; Kafka's side (assignment,
fencing) is external.  `LocalBus`: the blocking mode, with Go's writer
preference.  `RateLimiter`: the four Redis commands of one check, any of which
may fail.  `Idempotency`: key, proxy and answer, with a backend that may work
after the gateway gave up.  `Migrations`: statement by statement, a transaction
that PostgreSQL aborts, a Cassandra file whose statements stay.  `Lifecycle`: the
order of start and stop.  `HttpApi`: one request against every route.

## 3. Runs

Each run is one question.  Where parts share no state, or a set of commands is
enough to raise a question, a run has *stories*: the variable `story` is chosen
in the initial state and restricts the commands, so that each story is explored
completely.  The names in brackets are the conjuncts of a grouped invariant.

| run | instance | checks |
|---|---|---|
| `ledger` | 2 workers, 2 people; a top-up spent twice and refunded, disputed payments, a released hold; 2 projectors on a history of three transactions | `NoOverdraft`, `GaplessHistory`, `OutboxIsHistory`, `PostedOnce`, `DoubleEntry`, `RequestsAreAtomic`, `ReadsAreReplays` (history and snapshots replay; entries once, nothing skipped, balances old but true, pages complete), `ExecutionsEnd` |
| `payment` | a top-up, or a withdrawal beside one whose provider is unknown, 2 workers | `PaymentsAreSound` (types, reversal after success, events true, versions sequential; balances follow the events, only an uncovered hold is refused, terms survive, the fee rounds up), `FinalEventsOnce`, `OneOutcome`, `SecondPayoutNeedsFault`, `PaidTopUpsSettle`, `WithdrawalsSettle` |
| `relationship_pair` | 2 users, 2 workers, all commands, 6 events | `PairIsSound` (types, one open request, sequential stream), `BlockSevers`, `CountersMatch` |
| `relationship_triangle` | 3 users, 3 workers, follows on the three pairs | `CommandsEnd` |
| `relationship_read_model` | 2 users, 1 writer, 3 events, the projector; tables over 6 ids | `ReadModelIsSound` (edges follow the row, offers, summary, pages), `RowCatchesUp` |
| `infrastructure` | seven stories, see the module | `HandlingIsSound`, `OffsetNeverGoesBack`, `MessagesAreTried`; `BusIsSound`, `BusShutsDown`; `GatewayIsSound` (limiter, keys, API); `StartupIsSound` (migrations, life cycle), `MigrationsComplete` |
| `consumer_dropped` | 1 member, 2 messages; a violation is expected | `DroppedIsNotCommitted` |
| `room_hub` | 2 connections of a user, one client id or two | `HubIsSound`, `SilenceIsExplained`, `ClosedConnectionsLeave` |
| `video_call` | 2 members, 2 requests at a time, 2 calls | `NewsIsExplained`, `CallsAreAtomic` (refinement) |
| `account` | 2 requests at a time; sessions, editing, Google | `AccountIsSound`, `SessionsAreSound`, `ActiveIsEarned` |
| `room` | seven stories of a room with 2 or 3 accounts, and every timeline of 4 messages | `RoomIsSound`, `RoomReadsAreSound` |
| `notification` | nine stories of events, faults and requests, and the hub with 3 connections | `NotificationIsSound`, `NotificationHubIsSound` |

Bounds.

- *Ledger*: the amounts let either spend pass the funds check alone and not both
  together; two workers are enough for a stale read, a lost update and a
  two-cycle of waiting; with a snapshot every two versions snapshots fall in
  the middle of batches and are read back.  A chain of three waiting
  transactions is covered by the triangle of the relationship module.
  A fee is charged in the story of the released hold, so that a request
  has four legs on three accounts there, and in the history projected;
  the disputed payment is reported twice, with two amounts.
  `MCBefore` starts the projection with one transaction done and another
  half done; `MaxLost` allows one overlap or dead letter.
- *Payment*: `MaxVersion` stops webhooks that only move the external reference
  back and forth, reversals are always taken; `MaxFacts` leaves room for a
  session that is opened, offered, paid and then disputed, with a refund on top.
  Amounts to 3, fees to 2, a rate in quarters and 6-bit integers make
  rounding and wrap-around happen; `Funds` goes from less than nothing to enough for the
  dearest payment.  With a batch of one, one withdrawal of an unknown provider fills it
  when it is the older; `MaxPayouts` leaves room for the second transfer, beyond
  which the call can only fail.
- *Relationship*: six events reach every command after every other (request,
  accept, follow both ways, block, unblock); a cycle over counter rows needs three
  pairs, hence the triangle with one command.  Pages: six ids give three
  pages of two.
- *Infrastructure*: two members and three rebalances make a former owner
  work beside its successor; `window` and `CheckTime` let entries age out
  between two commands; `MaxOdd` allows one field filled unusually, since each
  field is checked by itself.
- *Room*: `PageSize` of the unread count is above the number of messages, as the
  count is wrong from a page on.  Timelines give four messages any times from
  1 to 5, two to a second.  `Ids`, `Expansion`, `MaxBatch` make a page need
  two batches.
- *Account*: three tokens let a refreshed token be refreshed again while an
  older one is still being used.
- *Account*, *notification*, *hubs*: two actors on one thing, and a third where two
  connections of one account meet one of another.

Runs that say `CHECK_DEADLOCK FALSE` model something that may be idle: a
partition read to its end, a closed hub, commands used up to their bound.

What the results say about the code beyond "holds":

- `NoOverdraft` rests on the version comparison at save, not on the locks: the
  mutant that drops the comparison and keeps the reservation keys overdraws.
- `ledger_entries` has no unique key, so two projectors that overlap on an event
  enter it twice (`EnteredOnce` names the exception).
- `SequentialVersions` and `OneOutcome` are claimed only of payments whose lock
  never expired under a live holder, because the UPDATE of the intent compares
  no version; `FinalEventsOnce` needs no such condition, it rests on the
  unique key.
- `SecondPayoutNeedsFault` is the exact strength of the payout: the transfer
  sends no idempotency key, so a crash or an expired lock between payout and
  save can pay twice, and nothing else can.
- The ledger refuses the hold of a withdrawal that is not covered, and nothing else a
  payment publishes (`OnlyUncoveredIsRefused`).  Nobody tells the payment: the consumer gives
  the event up after its attempts, the job pays the withdrawal out with nothing held, and
  if it fails, the release gives the person amount and fee that clearing and the
  fee account never had (`Expected`).
- A withdrawal whose provider the registry does not know stays `CREATING` for ever, with its
  hold if it was covered.  Those rows are the oldest, so `BatchSize` of them (20 in the code) stop all later
  payouts: `WithdrawalsSettle` is claimed of known providers, and names this
  exception (`Starved`).
- A full refund leaves the person at minus the fee and clearing at plus the fee.
  The fee's product wraps around before its only overflow check.
- `RowCatchesUp` names its exception: after a block the read model keeps a
  friendship and follows that the write side has removed.  `EdgesFollowRow`
  names its own: after an interrupted save the retry compares the edges with a
  row that is already new, and does not repair them.
- A client that follows the cursors of the relationship lists misses one id after
  each full page; mutual friends are found among the first `DefaultLimit` only.
- Messages of the same time at the end of a batch are skipped; in ascending order
  the first batch is read again; a client that pages by the time it was told,
  which has seconds, misses the rest of a second.
- The conversation list and the metadata take the last message from different
  places; a deleted message can be edited and stays deleted; a delivered mark
  after a seen one is what is shown.
- The body or query overrides a path parameter of the same name
  (`add_chat_member_handler.go:33`); the gateway verifies the signature of a
  token, not its expiry, which the core does; the plain notification handlers
  answer bad input with 500; a nested `binding:"required"` is not enforced.
- Finding (`consumer_dropped`): a message whose handler and dead-letter write
  both failed is left uncommitted, as the comment in `consumer.go` says, but
  the commit of the next message moves the group's offset past it.

Many hazards in `PROJECT.json` are behaviour the code has: the property that covers them
names an exception (a history variable such as `expired`, `torn`, `overlapped`,
`raced`, `blurred`, `leaked` or `overtaken`, or a cause in a list) and says what holds
outside it.  Such a hazard is described and bounded, not excluded; its note says so.

Every property has a mutant in `PROJECT.json`: a plausible error in one mapped
definition under which TLC finds that property violated.

## 4. Fairness

Liveness is checked under these assumptions only.

- *Ledger, relationship*: a worker that can take a step does; PostgreSQL grants a
  row that becomes free again and again to each waiter (strong fairness: waiters
  queue); its deadlock detector runs.  Crashes and aborts are never required.
- *Payment*: workers run; a key without a live owner expires (its TTL); Stripe
  repeats the webhook of a paid session until it is accepted; the job runs for
  ever on the rows it lists; and neither lock contention nor transient errors (the
  database, a crash) hit every attempt.  The last is strong fairness on the attempt's steps:
  the code retries without limit and has no other guarantee.  The error that does come every
  time, an unknown provider, is no abort but the outcome of the reading step, so it
  satisfies this fairness and settles nothing; a row outside the batch is not started.
- *Consumer*: members run, and an unassigned partition is assigned.
- *Local bus*: publishers whose queue has room go on, handlers read their
  channels, and the goroutine that closes the bus runs.
- *Migrations*: a process that died starts again (`cmd/migrate` tries thirty times)
  and each goes on while it can.
- *Room hub*: the pumps run and a dead connection is noticed (its deadlines).
- *Rate limiter*: no fairness; `CheckTime` assumes that a check takes less than
  the window.

## 5. Proofs

TLC explores the instances above; the theorems hold for every value of the
constants that satisfies the named assumptions, and the passing runs evaluate
the same assumptions.  Every invariant was first checked with TLC on the
component's instance, except the read model's `HistoryInv`, which quantifies over
infinite functions and of which the runs check the consequences.  `PROJECT.json` lists the theorems and the property each
one states.  In every module the argument has the same shape: `Inv` holds
initially (`InitInv`), one lemma per action keeps it, lemmas that say what a step
of one actor leaves alone for the others carry the rest, and the theorem is read
off `Inv`.

| module | theorems | what makes the invariant inductive |
|---|---|---|
| `LedgerProofs` | `TypeCorrect`, `LedgerIsDoubleEntry`, `LedgerPostsOnce`, `LedgerIsGapless`, `LedgerIsAtomic`, `OutboxFollowsHistory` | the pending events of a worker are legs of its request, numbered on from the version it loaded |
| `LedgerProofs` | `MoneyIsTracked`, `LedgerNeverOverdraws`, `LoadsReplayHistory` | every copy of a balance is the sum of the history up to the version it stands for |
| `LedgerProofs` | `LedgerReadsAreSound`, `ReadsReplayHistory` | two projectors that are inside their transactions have taken different events, or one recorded as overlapped |
| `PaymentIntentProofs` | `FinalEventsAreOnce`, `PaymentsHaveOneOutcome`, `SecondPayoutsNeedFaults`, `PaymentEventsAreSound` | under a lock that never expired the row is as it was read; what is to be applied is a fact at Stripe |
| `PaymentIntentProofs` | `PaymentsStaySound` | a withdrawal on record was requested as such and is unknown to Stripe's checkout |
| `RelationshipProofs` | `PairsAreSound`, `BlocksSever`, `CountersAreExact` | the guard row keeps what was loaded current, the counter rows keep what was added in step |
| `RelationshipProofs` | `RowsCatchUp`, `ReadTablesAreSound`, `ReadModelStaysSound` | the row is the one before the event at hand or already the one after it, and projecting an event twice is projecting it once |
| `InfrastructureProofs` | `GroupHandlesSoundly`, `GroupNeverGoesBack` | everything before the message a member works on has been dealt with, a former owner's too |
| `InfrastructureProofs` | `BusStaysSound` | a message sent to a subscription is in its queue or was read from it, in the order of its publisher |
| `InfrastructureProofs` | `GatewayStaysSound` | whichever of the admitted requests counted last counted them all; a claim has one owner until it runs out |
| `InfrastructureProofs` | `StartupStaysSound` | what a migration run did is a prefix of what it was asked to do; what runs was built and is still listed to be stopped |
| `RoomProofs` | `RoomStaysSound` | a save's events come after every other and have a number no reading has reached; what a command read was announced, leaked or is being saved |
| `RoomProofs` | `HubStaysSound`, `SilenceIsAlwaysExplained` | a subscription in nobody's table has one owner, who is about to register or to close it |
| `VideoCallProofs` | `RoomNewsIsExplained`, `CallsImplementAtomicCall` | the call a holder read is the one stored until its lock expires |
| `AccountProofs` | `AccountsStaySound`, `SessionsStaySound`, `ActiveSessionsAreEarned` | what a command checked of the version it loaded stays true, as the history only grows |
| `NotificationProofs` | `NotificationsStaySound` | until somebody races for a notification, its one save knows what it found and the tables have what it wrote |
| `NotificationProofs` | `NotificationHubSound` | a client has at most one place, and its user's subscription lives while it has one |

*Ledger.*  Assumed: clearing, fee and personal accounts are distinct
(`AccountsAssumption`), requests are well typed and never to oneself
(`RequestsAssumption`), the mark of a free row is no worker, a snapshot is taken
every two or more versions.  `Inv` is `TypeOK`, `TablesInv` (the five properties
of the tables), `RowsInv` (who holds a row is saving,
from the version in the table, and its keys are free) and, per worker,
`WorkerInv`: `LoopInv` says how far each loop is, `Numbered` that the pending
events of an account follow the version loaded without a gap and are legs of the
request, `Booked` that the legs gone through are among them.  `LegsBalanced` shows that the legs of any
request come in mirrored pairs.  Everything but `Commit` is local; at `Commit` a
whole request enters the tables, and the held rows exclude that another worker
enters the same versions or keys.

*Ledger, money.*  A balance is a sum over a history of any length.  `SumsExist`
shows, by a well-founded argument on the size of a set, that the library's sum
over a finite set is what one expects of a sum (`SumRemove`: of the rest and the
one taken out).  `MoneyInv` then says of every copy of a balance (the row,
the snapshot, the aggregate a worker is replaying, the one it is changing and
has not saved) that it is the sum of the amounts up to the version it stands for, and that
no prefix of the history of a person's account has a negative sum.
`LaterRows` is why it is inductive: rows are only added above the version, so what was
read stays what a reader of the same version reads.  `LedgerNeverOverdraws` and
`LoadsReplayHistory` are read off it.

*Ledger, read model.*  Assumed of the outbox (`OutboxAssumption`): an account's
events are in its partition, each transaction once, and a transaction has two
legs of opposite amounts.  `PostedOnce` and `DoubleEntry` say so of what is
booked; that a third leg cannot appear rests on the id, which a transfer
draws afresh (`uuid.NewString` in `transfer_transaction_handler.go`) and a
payment keeps for one user.  Transaction ids have an order
(`IdOrderAssumption`).  `ReadInv` adds to the properties what a projector has found
out (`WorkInv`: it is at most one event ahead of the offset, its header is there
or is its own, before an insert the entry is missing unless the event is
overlapped), `ApartInv` (the table) and `AheadInv` (no entry lies beyond the next
event).  A balance is then the sum of a prefix: `SumAlong` sums the entries along
the partition.  The pages need no invariant: `HeadersOrdered` shows that newest
first is a strict total order, so that every header of a finite table has a
place (`Places`), what follows a cursor is the rest of the ordered table
(`OrderedAfter`), and each page shows at least one header more (`SeenMore`),
whatever its size.  `ReadsReplayHistory` joins this to `LoadsReplayHistory`, for the
specification the run checks.

*Payment.*  Assumed: a payment is a top-up or a withdrawal, not both; the marks
of a free and of an abandoned lock are no workers; there is a payment; the batch is positive
(`BatchAssumption`, which the proofs do not need).  `Inv` is
`TypeOK`, `EventsInv` (a processed event is a published one, each at most once, and a paid row has
its success published),
`SequentialVersions`, `OutcomeInv` (status and published events agree),
`FreshInv` (Stripe knows nothing of a payment that was never saved), `PayoutInv`
and per worker `Backed` (the result it is about to apply is a fact at Stripe),
`Shape` (where each kind of request can be), `Exclusive` (it holds the lock and what the row says, unless the lock
expired) and
`Alone`.  The last is the subtle one: CreatePayment takes no lock, and it is
safe only because until it is done nobody has a session that could be paid.
`FinalEventsAreOnce` is proved without any condition on locks;
`PaymentsHaveOneOutcome` and `SecondPayoutsNeedFaults` name theirs.

*Payment, money.*  Assumed besides: a basis and a width that are positive
(`MoneyAssumption`); amounts, fees and rates are arbitrary.  `FlowInv` is added to
`Inv`: it keeps requests out of top-ups and reversals out of withdrawals, so that a payment
has at most two events that book anything.  Each books four legs or, without a fee, two
(`EntriesAreLegs`, and one lemma per kind of event).  Legs that no balance can stop are
taken whatever the person has (`FreeIsAllowed`); the exception is a hold, which is taken
exactly when the balance covers amount and fee, its third leg being tried on what the first
has left (`HoldAllowed`).  `LegsAreSummed` computes the library's sum over any part of
eight different legs, by the uniqueness of such sums (`SumsAgree`).  What an account
holds is then an addition (`BookedBalance`), compared with the expected holding of a paid and a
reversed top-up, and of a withdrawal, covered or not, requested or failed.  For the
fee, `FeeComputed` says what the wrapped arithmetic yields below the limit of the width.

*Relationship.*  Assumed: the mark of a free row is no worker, there are two
users.  `Read` gives the state of one pair; `PairOK` is what every command
keeps of it, proved for the pure transition `Becomes`.  `WorkerInv` says that a
command between loading and commit holds the guard row and that what it
decided is still permitted (`Permitted`).  For the counters, `CountInv` relates
a counter row to the cardinality of the set it counts: a row under update is
locked from its UPDATE to the commit, so the row and the sets move at the same
step and by the same amount (`Moves`, with the cardinality lemmas of
`FiniteSetTheorems`).

*Relationship, read model.*  Assumed: what the write side assumes, and for the pages that
ids are positive numbers, finitely many, and the default limit is one of the accepted
ones.  `ReadInv` contains the write side's `Inv`.  `HistoryInv` says that there is a
sequence of rows, one after each event of the pair, of which the last agrees with
the write side (`Agrees`), and that the stored row is the one before the event at
hand or the one after it, unless an event was parked.  A commit of the write side
makes the sequence one longer, and `AgreesAfter` shows that the new event says of a
row what the command did to the pair, save for what a block removes; `ProjectedTwice`
is why redelivery is harmless.  `EdgesInv` says during a save which tables hold what
the row held and which what it holds.  The counts of a summary are compared with the
counters through bijections between edges and rows.  The pages (`PagesStaySound`) are not
about states: the sorted table has every id at its place, the rest behind a cursor has its
ids at places counted from the cursor's, and a page of a list begins behind a multiple of
the limit and one and ends with the next such multiple as the cursor (`SeenWithPage`), so
that `WalkEnds`, by induction on the pages, finds those places and no others left out.
Both lists of `ListMutualFriends` are cut to the default limit (`WholeTables`).

*Consumer.*  Assumed: the mark of an unassigned partition is no member, bounds
are numbers.  `WorkInv` is about every member, also one that lost the partition: what
precedes its message was handled or dead-lettered, and so was the message itself
once it is to be committed.  `OwnerInv` ties the owner's message to the position.
`GroupNeverGoesBack` is an action property, from the same invariant.

*Local bus.*  Assumed: subscriptions have a topic and queues a place.
`SentInv` relates the call of a publisher to what is in the queues, `QueueInv`
orders a queue, `TableInv` and `ClosedInv` say which subscriptions a publisher may
still meet after the close.  The theorem is about the specification without
fairness (`BusSpec`), which the run's implies.

*Gateway.*  Assumed: the limit and the window are positive, a check takes less
than the window (`CheckTime`), each call has its key.  For the limiter, `CountsInv` speaks of
any set of admitted requests whose entries lie in one window: whichever of them counted
last counted them all, so there are no more than the limit.  The runs' one-window property
is the special case; the statement about all sets is the inductive one, since an
entry may be removed as stale between two of them.  For idempotency, `ClaimInv` gives a
key one claimant until its lock runs out, `HeldInv` says what Redis holds
for it and `LockInv` that a locked key has somebody to blame for it.  For the API, `FieldsInv` says where the
content of each field can come from, and `AnswersInv` what is known of a request from its
one answer.  Nothing is assumed about requests and routes: they are the tables
of `HttpForms` and `HttpApi`, written out.

*Startup.*  Assumed: the files of the two migration directories are sequences, there is a
runtime.  `MigrationInv` says how far a process that died at any point has come in
the statements of a file; `RuntimesInv` which runtimes run at each stage of `main`, and
`ListingInv` that what Consul lists is reachable or is about to leave.  Both theorems, and
the gateway's, are about `MCSpec`, in which a behaviour is the story of one part;
the lemmas are about the parts' own next-state relations.

*Room.*  Assumed: the bound on commands is a number; accounts, names and workers are
arbitrary sets.  `RoomInv` is `TypesInv`, `OutboxInv` (events are numbered
by the saves that made them), `ClockInv` (there is a time left for
every command that is not dated yet), `TablesInv`, `SavingInv` (one command holds the row of the room), `CacheInv` and
for every command `JobInv`: how far it is, and what it knows.  The core is what a
command may believe of a row that it read without a lock: a name it read was
announced, was leaked by a command that failed after its write, or is about to be announced by the
command that is saving (`NameOK`); likewise for renames and deletions.  A save takes its
number under the row lock, so its events come after all others, and
their number is greater than any a reader can have reached.

*Room hub.*  Assumed: connections have users, the mark "none" is no room or
connection, subscriptions are numbered from 1.  `HeldInv` and `SubInv` are the
core: a subscription outside the table is awaited by the connection that
made it or about to be closed by the one that took it out.  `RegisteredInv`,
`MemberInv`, `AudienceInv` relate table, rooms and clients, and `SilenceInv`
names the step that is still to come when a room with clients has no feed.

*Video call.*  Assumed: marks are no members or workers.  `SessionInv`
says which sessions exist, `ExclusiveInv` that until a key runs out under its
holder a request that reads or writes the call holds the lock and the call is as
it read it, `NewsInv` that news which was not overtaken is true, and that some is
under way while a member believes something else.
`CallsImplementAtomicCall` is the refinement: the initial states map to initial
states and every step of a request to a step of `AtomicCall` or to a stutter
(`StepIsAtomic`); writes after an expired lock are `AtomicCall`'s `Overwrite`.

*Account and sessions.*  Assumed: the mark of an account without password is no
password, bounds are numbers.  The account part has `LogInv` (an address is verified
once, nothing is undone), `RangeInv`, `JobInv` (what a command checked of its base
version), `LockInv` (a password change holds the row until it commits),
`CacheIsExplained` and `ProjectorInv`.  The session part adds `RowsInv`, `ReadInv`
(a refresh or logout read an active row of its token), `FreshInv` (a refresh that
is not late finds its row unchanged), `ListedInv` (what a list showed as revoked
is revoked, or a late refresh made it active again), `TokenInv` (a row that
still has a used token is revoked) and the two properties `TokensAreSingleUse` and `ActiveIsEarned`.

*Notification.*  Assumed: there are finitely many events, of the listed kinds and typed, a
friend request names its addressee, clock times are at least a millisecond
(`EventsAssumption`); a message may be synced again and again with other members or as
deleted, but its room and time stay, every other event is told once under its id, and two
notifications of one account never share the hash that orders a page (`IDsAssumption`).
`TablesInv` is `TablesType`; `JobInv`, that what a worker has in hand belongs to the
recipient it is at; `OnePerTopic`, since a consumer handles one event at a time;
`ValuesInv`; `NotRacedInv`; `HandledInv`; and `ReaderInv`.  `ValuesInv` speaks of every copy of
a notification, in a table or in a worker's hand: its last message was announced, was cut
short or is in flight, and its count is at most the number of messages up to that one; that
a message is not counted twice rests on it, because a reload compares with the
last message only.  `NotRacedInv` follows the statements of a save: before the first
write the tables agree, after each the ones written have the new value and the
rest the old, and what is left torn is behind.  A race is two saves of one
notification at once; the model records it, and for such a notification only the statements
without that exception are claimed.  `ReaderInv` says that a row above the cursor has been seen,
unless it moved, which makes the list complete at its end.

*Notification hub.*  Assumed: connections have owners, the mark of an empty place
is neither.  `PlacesInv` says that who joined has its place, unless another connection
with the same id took it, and that whoever has a place will find the room that it
has to leave; `SubscriptionsInv` that a subscription is the one of its owner's room.
The four statements of `NotificationHubIsSound` are conjuncts of the invariant.

Only model-checked, and why:

- Liveness: `PaidTopUpsSettle`, `WithdrawalsSettle` and the other properties that need
  fairness.  The prover has no `ENABLED`.
- `RoomReadsAreSound`, the queries of a room's read side and its projector.  What the
  batches of a timeline or the replay of a log return is an induction over a recursive
  definition, which has to be done by hand; it is done for the pages and sums of the
  ledger and the pages of the relationship module, and not for these.

## 6. Not modelled

- Foreign exchange (`core/modules/foreign_exchange`): quotes, without
  state of its own and not wired into the server.
- Change data capture is configuration; its effect, at least once and in
  order per key, is the input of `KafkaConsumer`.
- Scaffolding, observability, generated code (gRPC, mocks, swagger).
- Web push, push subscriptions and e-mail are sent and forgotten.
- Cryptography: a signature verifies or does not, a hash matches or does not.
- Code that nothing calls: the payment module's notification service, the
  methods of `payment_intent_behavior.go` other than its constructors (a second
  copy of the aggregate's transitions),
  `RecordPaymentSucceeded` and `RecordPaymentReversed`, the non-blocking mode of
  the local bus, the room module's ListRooms, GetRoom, DeleteRoomAggregate,
  ChangeOwner and UpdateRoomStats, the createMessage and createTransaction
  handlers, and the core's own copies of rate limit and idempotency.
- `ledgerassembly.BuildMessagingRuntime` is not called by
  `core/shared/transport/app/server.go` (116-168).  The ledger's consumers
  are modelled as what they are written to be.
- The ledger's Redis locks, which expire and on which nothing rests.

Where a model is coarser or finer than the code, without a property that could tell:

- `LedgerReadModel.deadLetter` gives up an aborted event and always succeeds.  In
  `consumer.go` (229-240) any three failures lead there and the write may fail too;
  that failure is in `KafkaConsumer`.
- `Sessions.CallbackGoogle` may commit.  The code stores the raw token
  (`callback_google_handler.go:136`), which is longer than `refresh_token_hash` takes
  (`000032_account_security.up.sql:39`), so there the transaction is rolled back: the
  model has more behaviours than the code.
- `Account.Load` is one step.  `LoadByEmail` reads the row and the events in two
  statements, and `MergeProjection` fills what the events left empty from the row,
  which may be older; a save that commits has compared the version.
- `NotificationHub` confirms a subscription only while nobody has closed it; in `hub.go`
  (192-204) the confirmation may already be there.  Both ends are silence with the same cause.

## 7. What is left

In order of what they would say: a proof of `RoomReadsAreSound`; and a model of a webhook whose signature is checked against the clock.

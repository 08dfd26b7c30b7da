# project-nm in TLA+

project-nm is a Go service for a multi-tenant shop.  An order is checked and
reserved in Redis, queued in a Redis stream and booked later in PostgreSQL by a
background worker; a new member's wallet exists in Redis before its row exists
in the database.  What can go wrong is therefore the agreement between Redis
and the database while calls, two workers, crashes and restarts interleave.
This directory models that machinery, model-checks it with TLC and proves the
safety properties with TLAPS.

## 1. The system

| Component | State | Operations | Talks to |
|---|---|---|---|
| Order gateway (`pkg/services/trade.go`, `pkg/utils/redis_util.go`) | lock, wallet and stock counters in Redis | `ExecuteOrderV2` | Redis; appends to `stream:trade_tasks` |
| Trade worker (`pkg/workers/trade.go`) | `lastIdx`, the batch in hand | the read loop: book, compensate, delete | the stream; `member`, `product`, `transaction` |
| Member service (`pkg/services/member.go`) | snapshot and wallet in Redis | `GetMember`, `GetMemberMQ` | `member`; appends to `stream:member_init_tasks` |
| Member worker (`pkg/workers/member.go`) | `lastIdx`, the batch in hand | the read loop: insert, fund, snapshot, delete | the stream, `member`, Redis |
| Process (`application.go`, `pkg/workers/manager.go`) | running, stopping, draining, down | `Serve`, `PreheatProducts`, shutdown | starts and stops everything above |
| Sessions (`pkg/services/auth.go`, `pkg/transports/common.go`) | login record and token cache in Redis | `Login`, `RefreshToken`, the check in front of the handlers | `users` |
| Migrations (`pkg/migrations`) | `migrate_record`, tables, seeds | `RunMigration` at every start | PostgreSQL |
| gRPC hop (`pkg/endpoints/trade.go`, `pkg/grpc`) | one connection, the clicks that wait | `ProcessOrder` calls `ExecuteOrder` of the same process and waits five seconds at most | the order gateway |
| HTTP layer, configuration, unit of work, V1 `ExecuteOrder` | none, or not reached | | |

How they interact:

- The gateway and the trade worker share the wallet and stock **counters** (the
  gateway deducts, the worker gives back) and the **stream**.
- The member service and the member worker write the same **wallet counter**
  and the same **member row** that orders use.
- A restart preheats the stock counters from the database while tasks of the
  run before may still be in the stream, and both workers start at `$`.
- SIGTERM cancels the context that the workers hand to their Redis commands,
  not that of their database transactions.
- A click on POST /trade holds an HTTP handler that waits for a gRPC call to the
  same process.  The order does not run under the context of that call: it goes
  on when the handler has given up.  A shutdown waits for both, in turn.
- Every call runs on a goroutine of its own; each worker is one goroutine.

What is hard here is listed line by line under `hazards` in `PROJECT.json`:
steps of concurrent calls between two Redis commands, replies that are lost
after the command took effect, errors that are ignored, a shutdown or a crash
between booking, compensation and deletion, `$` at every start, a lock that
expires under its holder, net amounts against line amounts, fractions of a unit.

What makes each component correct:

- *Order gateway*: one call per user at work; nothing is let through that the
  books cannot serve; "pending" means that exactly the cart's tasks are queued;
  a call ends and frees its lock.
- *Trade worker*: at most once and in order; no message is deleted before its
  task has an outcome; no outcome is reversed; the books never go below zero.
- *Counters and books*: equal up to what is reserved or queued; under faults
  the counters never promise too much.
- *gRPC hop*: "pending" comes only when the whole cart is queued, a refusal only
  when nothing is or will be; a shutdown comes to its end.
- *Members*: a row that exists is not rewritten; without a row a snapshot or a
  wallet is there only while a task for the row is in the stream or a visit is at
  it; nothing reserved is given back; no task is lost before its row is there or
  refused.
- *Sessions*: the newest login stays, older ones are refused once it has answered.
- *Migrations and preheating*: a record tells the truth, the service starts over
  complete tenants, a repetition loses nothing, counters start from the books,
  and a start always gets through.

## 2. The modules

```
TradeStore ── TradeGateway ─┐
     │   └─── TradeWorker ──┴─ TradePipeline ─┬─ TradeAccounts ── MCTrade
     │            │                 │         └─ TradePipelineProofs ── TradeCallProofs
     │            │                 ├─ TradeHop ── MCHop
     │            │                 │     └ refines Checkout
     │            │                 └ refines Ledger
     └─ MemberGateway ── MemberWorker ──┬─ Shop ── MCShop
                          (INSTANCE of TradeWorker's loop; Shop also extends TradeAccounts)
Session ── MCSession          Startup ── MCStartup

TradeCallProofs ─┬─ AccountProofs ─┬─ GateProofs
                 │   (with         └─ ShopProofs (with Shop)
                 │    TradeAccounts)
                 └─ HopProofs (with TradeHop)
Session ── SessionProofs      Startup ── StartupProofs
```

**TradeStore** holds what gateway and worker share.  A "user" stands for a pair
of tenant and user id and a "product" for a pair of tenant and product id,
because every key and table carries the tenant.  Money is counted in minor
units, `Unit` of them in a whole unit: `Trunc` is `decimal.IntPart`, and a
counter loaded from a balance with decimals refuses `INCRBY` (`Whole`).  The
stream is the sequence `log`; an id is an index, and XDEL adds the id to
`deleted`.  The price is a constant, as nothing in the code changes a product's
price.  `Faults` says which faults an instance may meet.

Commands that go-redis sends again after a broken connection take effect twice
(`rerun`, `resend`, `recount`), once more at most for each command.

**TradeGateway** is `ExecuteOrderV2`, one state per point where another process
can interleave.  The Lua script is one action, as Redis runs it; each XADD of
the pipeline is one too.  The deferred release belongs to every path out.

| state of a call | code (`pkg/services/trade.go`) |
|---|---|
| `idle`, `lock` | 38-68 malformed carts, SETNX |
| `price` | 73-99, one line of the cart per step |
| `gate`, `regate` | 113-125, the script, and the script sent again |
| `push`, `repush` | 127-156, one XADD per step, and the pipeline sent again |
| `undoWallet`, `undoStock` | 145-148, `CompensateTradeAssetsV2` |
| `release` | 66-68 |

**TradeWorker** is the loop of `TradeWorker.Start`.  `$` is resolved by the
server when an XREAD arrives (`Resolve`), so a message added between two
blocking reads at `$` is missed, as in Redis.  A booking (44 lines of
transaction with row locks) is one action, since it is a database transaction:
it commits, aborts, or commits and loses the reply.  What follows it
(`refundWallet`, `refundStock`, `ack`) are separate steps.  `Reaches` says what
a command with a cancelled context does.

**TradePipeline** composes both with the process: `Signal` (the workers' context
ends), `GracefulStop` (no new calls), `Exit`, `Crash`, `Restart` with
`PreheatProducts`.  It states the invariants, the inductive
invariant, fairness and the refinement.  **TradeAccounts** relates counters and
books.  **Ledger** is the abstract specification of the books: tasks are
recorded, and each is settled at most once, in order, money and goods together,
never below zero.

**TradeHop** puts POST /trade in front of the pipeline: `Click` (the checks before
anything is sent), `Arrive` (the cart as it is on the wire, where `OnWire` cuts
product ids to 32 bits), `Reply`, `GiveUp` after five seconds, `SendFails`, and a
`Shutdown` that waits for the handlers.  `FirstClick` says which clicks are
repetitions of which.  **Checkout** is the abstract specification of what the one
who clicks may conclude from an answer: "pending" means every line is queued, an
error that none is or will be, no answer leaves it open.

**MemberGateway** has the two endpoints command by command, **MemberWorker** the
worker; the read loop is the trade worker's, taken by `INSTANCE TradeWorker WITH`
the other stream, because the code of the two loops is the same.  **Shop** is the
whole process: orders, visits and both workers over one wallet and one table.

**Session** has logins, renewals and checked requests.  The record of a user is
two Redis keys written by two commands (`BindTime`, `BindKey`) and read by two.
`past`, `rivals` and `blind` are history variables for the properties only.

**Startup** is `RunMigration` statement by statement: the search path is a
variable of the connection, the records are per schema, and the seeds of a
script are steps of their own.  An insert in batches is one transaction, as
gorm makes it by default.  `Wait` and `Fill` are the preheating, tenant by
tenant and row by row: a tenant whose table or rows cannot be read is skipped
(ten tries that all fail count as one fault), and a SET may fail unnoticed.

**MCTrade**, **MCHop**, **MCShop**, **MCSession**, **MCStartup** define the values of the
constants.  Operators marked "Variant" in the modules are not part of the
model: they are the mistakes that `mutants` in `PROJECT.json` puts into the
code, to show that each property can notice one.

## 3. The runs

| Run | What it asks | Bounds |
|---|---|---|
| TradeClean | Without faults: counters differ from books by exactly what is reserved or queued; the gate lets nothing through that is turned down later; an answer stands for its tasks; carts of a user do not mix | 3 calls, 2 users, 2 products, carts with pickups, returns, and a return that pays for a pickup |
| TradeCrash | Crash, shutdown, restart, failed pushes and transactions, failed and lost Redis replies: order, at-most-once, no lost message, counters never too high, one call per user; also the inductive invariant of the proofs | 2 calls, carts of up to 2 lines, 1 restart |
| TradeBooks | With counters that are wrong on purpose: the database still refines `Ledger` | fractional prices, a wallet with decimals, no member row, malformed carts, half-pushed carts, scripts and pipelines sent twice, lost COMMIT replies, expiring locks |
| Hop | POST /trade keeps the promise of `Checkout`; a signalled process comes down; calls end, no lock stays for ever, tasks behind the cursor settle | 2 clicks of one purchase, a cart of two lines with an id that is cut on the wire, a malformed one, failed pushes, failed and lost Redis replies, crash, shutdown, batches of 1 |
| HopTwice | *violated*: of the clicks for one purchase one is booked | 2 clicks, no fault |
| TradeRestartLoss | *violated*: a task that was queued when the process went down gets its outcome after the restart | 1 call, a shutdown, 1 restart |
| TradeStop | *violated*: a shutdown leaves no booked message | 1 call |
| TradeTwice | *violated*: `GateSound` for a cart naming a product twice | 1 call |
| ShopNew | Two new members through both endpoints, an order before the row, failures, a restart: rows, wallets, reservations and tasks are kept | 2 interchangeable visits of 2 users with one name, 1 call, 1 restart |
| ShopOverwrite | *violated*: wallet and balance agree at rest | 2 visits, 1 call, no fault |
| Session | The newest login is never thrown out; the older token and refresh token are out; the record is whole | 2 logins, 1 renewal, 2 checked requests of a user |
| Startup | Records are true, service complete, stock kept, counters warm, every start gets through | 2 tenants, 2 products, 3 faults |

Why the bounds are enough for the questions: a race over a counter needs two
calls and the worker; an order of booking needs two carts of which one has two
lines, so that they can mix in the stream, and batches of more and of less than
what is queued; `$` matters with one restart as with many; a failed compensation
needs a cart of two lines.  Stocks and balances are one or two items above what
one cart takes, so that both the passing and the refused branches occur.  Three
faults are what `StocksKept` needs: the end of a run in which something was
sold, a dropped read of the records, and a dropped query for the product; a stale counter needs two, the end of a run and a
failed read or SET.  In Hop, two clicks are a purchase and its repetition, and
both the gateway's check of the empty-quantity basket and the two-line cart occur.
It has no restart: no call and no handler outlives its process, a lock runs out with
or without a new one, and a restarted worker begins at `$` as the first one did;
`PromiseKept` covers any number of restarts.
The fault `recount` (a compensation counted twice) is in no run, because it
multiplies the states; the theorems hold for every set of faults, with it.  In
Session, one user suffices because no key is shared between users.

Deadlock checking is off (`CHECK_DEADLOCK FALSE`) only where the system may
really stop: after a shutdown or crash with no restart left (TradeCrash,
Hop, TradeRestartLoss, TradeStop, ShopNew), when every call
of the instance has ended (Session has no worker loop), and in Startup when the
process serves, everything is sold and no fault is left.

**Fairness.** Hop and TradeRestartLoss assume weak fairness of each call (a
goroutine whose Redis commands answer or fail; the client has timeouts), of the
worker's steps (one goroutine in an endless loop), and of the expiry of
locks (Redis does it).  Hop also assumes that a handler gets its answer or its
deadline passes (`AnswerStep`: `context.WithTimeout` of five seconds), and that
the main goroutine goes on with a shutdown that it has begun (`ShutdownStep`;
weak fairness is enough, because the clicks of an instance are finitely many and
none comes in while the process drains).  Nothing is assumed of signals and crashes,
nor that anybody clicks; and of restarts only in TradeRestartLoss, whose sentence is
about the time after one.  Nor is it assumed that Redis answers: `LocksEnd` and
`CallsEnd` hold however often commands fail, while a worker whose reads fail for ever
comes to nothing, which `SettledBehindCursor` names
(`<>[][~(ReadError /\ Available # {})]_vars`: reads that have something to bring).
Startup assumes that the program runs on and that somebody starts it again
after a fault: there is no restart policy in `docker-compose.yml`, so the second
part is an assumption about its operators.  Its faults are bounded, so
`ComesToServe` speaks of the time after the last one.

### What the violated runs show

- **TradeRestartLoss.** `src/README.md:70` says a task whose XDEL was not
  executed is taken up after the next restart.  The worker starts at `$`
  (`pkg/workers/trade.go:37`), so it never is; its reservation stays as well.  In the
  trace the order is queued, the process stops gracefully, starts again, and its
  worker reads for ever at `$`.  With a worker that starts at `0` the property holds.
- **TradeStop.** `src/README.md:66` says the worker deletes the message of its
  last task before it leaves.  Its XDEL uses the cancelled context and fails.
- **TradeTwice.** The script compares line by line and deducts all lines, so one
  product in two lines passes with less in stock than their sum.
- **HopTwice.** `src/README.md:121` says repeated clicks are thrown away, so that
  nothing is charged twice.  The lock ends with the first call, before its answer
  is back; a repetition that arrives then is an order of its own.
- **ShopOverwrite.** Two first visits both miss the snapshot; the second SET of
  the wallet wipes out the reservation of an order placed in between.

Two further differences show in the model without a run of their own.  Until its
first message the worker sends XREAD with `$` again and again
(`pkg/workers/trade.go:47`), and a task that is added between two of these reads is
behind `$` and never read: it stays reserved and unbooked without any fault.  A
worker that starts at `0` has no such gap.  The other: a booked return
raises `product.stock` and no counter (`pkg/services/trade.go:103`), and a return
that is turned down lowers the counter, though nothing was added for it.  The two
drift apart until the next preheating; `StockExact` states by how much.

TradeRestartLoss and TradeStop together are benign in one respect: because the
worker starts at `$`, a booked message left behind is not booked again
(`CommittedInOrder`, `NeverBoth`).  The mutant `StartAtZero` shows that merely
starting at `0` would book it twice: the order of the two repairs matters.

## 4. What is proved

Every safety property of section 3 is a theorem as well, for all values of the
constants that satisfy the named assumptions (any users, products, calls, carts,
prices, unit, batch size, number of restarts, tenants, logins): what a run shows on
an instance, the theorem shows for all.  "Needs" names what a theorem assumes
beyond that; a theorem without an entry holds under every set of faults.

| Module | Theorem | Statement | Needs |
|---|---|---|---|
| TradePipelineProofs | TypeCorrect, InductiveHolds | `TypeOK`, `Inductive` | |
| | BookedOnceInOrder | no task is booked twice or out of order | |
| | BooksNonNegative | no balance and no stock in the database is ever negative | |
| | Refinement | `Spec => ImplementsLedger` | |
| | ReleasesOnlyOwn | no call takes another call's lock away | |
| | NoUnhandledDeletion | a task without an outcome keeps its message | |
| | OneOrderAtATime | one call of a user past the lock | no `expiry` |
| | NeverBookedAndCompensated | no task is both booked and turned down | no `commit` |
| TradeCallProofs | NothingSkipped | the cursor passes nothing without an outcome | |
| | CartsTogether | a user's carts stand one after the other in the stream | no `expiry` |
| | AnswersAreTrue | an answer stands for exactly the tasks that are queued | no `partial`, `resend` |
| AccountProofs | StockIsCovered | a stock counter never promises too much | `NoDoubles` |
| | WalletIsCovered | nor does a wallet | `NoDoubles`, `PricesWhole`, `PickupsOnly`, `OpensCovered` |
| | StockIsExact | a stock counter differs from the books by what is under way and by the returns | `NothingLost` |
| | WalletIsExact | a wallet, by what is under way | `NothingLost`, `PricesWhole`, `OpensExact` |
| GateProofs | GateIsSound | the worker can book what the gateway lets through | `GateFaults`, `PricesWhole`, `ReturnsFirst`, `NamedOnce`, `OpensSound` |
| HopProofs | HopTypeCorrect | `HopTypeOK` | |
| | PromiseKept | `HopSpec => ImplementsCheckout` | no `partial` |
| ShopProofs | ShopHolds, ShopTypeCorrect | `Inductive` and the types of the whole process | |
| | ShopBooksInOrder, ShopBooksNonNegative | the books stay in order and non-negative with new members beside them | |
| | RowsAreKept, NewMembersAreKept | `RowsKept`, `MemberTasksKept` | |
| | NothingIsUnvouched | `NothingUnvouched` | no `redis`; no wallet without a row at the start |
| | ReservationsAreKept | `ReservationsKept` | no `redis`, `NoDoubles`, `PricesWhole`, `PickupsOnly`, `OpensCovered`, `NewBalance # 0` |
| SessionProofs | SessionHolds, SessionTypeCorrect | the invariant and the types | |
| | NewestStays, OldTokensAreOut, OldKeysAreOut, RecordsAreWhole | the four properties of Session | |
| StartupProofs | StartupHolds, StartupTypeCorrect | the invariant and the types | |
| | RecordsTellTheTruth, ServesCompleteTenants, StartsKeepStocks, ServesWithWarmCounters | the four safety properties of Startup | |

`NoDoubles` excludes `partial`, `resend`, `recount` and `commit`: the faults in which
a command or a COMMIT counts without its sender knowing it.  `NothingLost` allows
`push`, `db`, `expiry` and `snapshot`; `GateFaults` allows `push`, `stop` and
`snapshot`.  `PricesWhole`: prices are multiples of a unit.  `PickupsOnly`: no cart
has a return.  `OpensCovered`, `OpensExact`, `OpensSound`: the counters start within,
at, or soundly within the balances.  `ReturnsFirst` and `NamedOnce`: a cart names what
it returns before what it takes, and no product in two lines that take it.
`NewBalance` is the literal 1000 in the code (`pkg/services/member.go:96`,
`pkg/workers/member.go:72`).

These are the code's limits and not the prover's; TLC finds the property violated
without them.  A lock that expires lets a second call in; a lost COMMIT reply makes
the worker compensate what it has booked.  Each of the four faults of `NoDoubles`
alone violates `StockCovered` and `WalletCovered`, while crashes do not.  Each of
`crash`, `stop`, `redis`, `partial`, `resend`, `recount` and `commit` violates both
exact properties.  A price with a fraction violates the two wallet properties and
`ReservationsKept`; a return in a cart violates `WalletCovered`, as the worker may
turn it down after its money was spent.  `redis` violates `ReservationsKept`: XADD
can take effect and report an error, so that the visit takes back a wallet that the
task then fills again.  `GateSound` fails for a cart that takes before it returns,
for a product in two lines (the run TradeTwice), for a user without a row, and with
`expiry`, `partial`, `redis`, `crash`, `db` or `commit`.  The run TradeClean meets
all the assumptions about AccountProofs and GateProofs except `PickupsOnly`, which
TradeCrash meets; ShopNew meets those of ShopProofs.

`CallsAssumption` (finitely many calls) and `CartAssumption` are what the sums of
TradeAccounts need, `NoOrderAssumption` and `MarkerAssumption` keep the model values
for "nothing" apart from real ones, `StartupAssumption` says that there is a tenant
and a product and that no tenant is `public`, and `CallsDisjoint` that a call of
Session is a login, a renewal or a check.  TLC evaluates all of them.

### The arguments

**Order and books** (TradePipelineProofs).  `CommittedInOrder` is not inductive:
whether the next booking is in order depends on what the worker holds.  `Frontier`
says that everything with an outcome lies at or behind whatever the worker comes to
next, in each state of its loop: the cursor, the read position, the batch, the
message in hand.  `CurrentFirst` says that the message in hand is older than the
rest of its batch.  A restart sets the cursor to `$`, which the server resolves to
the end of the log, beyond everything handled.  `QuantitiesPositive` carries the
check of lines 48-52 through the queue, for the ledger's "never below zero".
`LinesKnown` says that behind the pricing loop every line has a price, without which
the amounts would have no type.  `Inductive` is their conjunction with `TypeOK`;
TradeCrash checks it as an invariant.  The step lemmas go by component and action:
`CallTyping`, `WorkerTyping`, `ProcessTyping`, `OrderStep`, `QuantitiesStep`,
`NonNegativeStep`.  The refinement follows from `BooksStep`: a step of the pipeline
appends one task, books one in turn, or leaves the ledger's four variables alone.

**Answers, carts and the cursor** (TradeCallProofs).  `Swept`: between the position of
the last XREAD and the message in hand everything has its outcome, which needs that
a reply has no gap (it holds the oldest messages).  `Authored` and `PushesAlone`:
while a call pushes, nothing of its user comes in between, because the lock keeps
the others out.  `AnswerLast` follows a call from line to line: what is queued of
its cart is exactly what it has pushed.

**Counters and books** (AccountProofs).  The properties are sums over calls and over
tasks.  Induction over a finite set is out of reach (its theorem takes an operator),
so the lemmas on sums take instead a smallest subset on which a claim fails
(`Smallest`): `SumsAgree`, `SumTakes`, `SumSame`, `SumAtMost`, `SumOfPart`,
`SumMoves`, `SumMultiple` say that a sum does not depend on the order, and what one
element more or less does to it.  `AddedUp` ties what a call has added up to its
cart, line by line.  `StockKept` and `PurseKept` strengthen the properties: they
count the message whose compensation is still to come, and say that the sum of
counter, held and claimed is at most what the books have; each action moves an
amount from one term to another or drops it.  `Tally` and `PurseExact` are the same
with equality.  `AsPriced` says that the amount of a task is whole, since INCRBY
takes its integral part only.  `PurseStep` is the step for one user and any distance
between purse and balance; `ReservationsAreKept` uses it too.

**The gate** (GateProofs).  What has no outcome up to any younger task must be bearable
(`FundsAhead`), and not only the whole queue: otherwise the worker could refuse a
pickup that a return behind it pays for.  A cart that returns first makes this an
invariant.  It needs that no wallet and no stock falls below zero while a call has
yet to push or to take back (`WalletsUp`, `Spared`, `StocksUp`), that only one
call of a user holds anything (`LockHeld`), and that no return was turned down
(`PickupsRefused`), because every user has a row and every task a price
(`RowsThere`, `TasksKnown`).

**The hop** (HopProofs).  A step of the hop is a step of the pipeline or none
(`HopIsNext`), so its invariants carry over.  `AsAsked` keeps what was clicked next
to what came over the wire, `Copied` and `TasksAsAnswered` tie tasks, answers and
carts; each step of the hop then maps to a step of `Checkout` or to a stutter.

**Members** (ShopProofs).  Steps of the members' side leave the pipeline's variables
alone except for the wallet and new rows (`MembersAside`).  `Brought`, `MemberSwept`:
a task that the worker has finished has its row, and between two positions of the
cursor each has its row or was refused.  `NothingIsUnvouched` rests on three things:
`FoundIsThere`, what a visit has found stays; `GivenFor`, the same statement with the
visits that were cut off among its places and with any task ever pushed; and
`Brought`, a task that was deleted has its row, so that for a member without one the
task is in the stream.  `ReservationsAreKept` rests on `NewOnesKept`: the purse
stays within `Limit`, which is 0 before the one visit has filled the wallet, the new
balance until there is a row, and the balance then; `Unseen` says that the row comes
only after the wallet, and `Funded` that the worker's SETNX finds a wallet.
`FoundLate` and `TasksBy` say which visit may still be where.

**Sessions** (SessionProofs).  `InTurn`: logins of a user that do not overlap write the
record one after the other.  From it `UpToDate`: the record is never older than such
a login that has written it.  From that `OldIsOut` and `OldKeyIsOut`; `Recorded`
(what a record holds comes from a login that got so far) gives `NewestNotKicked`.

**Startup** (StartupProofs).  The invariant says what each place in the loops has
behind it: `Located` (which schema the connection writes to), `Worked` (what the
script at hand has done), `Preceded` (which scripts have run), `Backed` and `Warmed`
(the counters).  A replaced connection is why `Worked` speaks of a script whose
schema is the one it writes to.

TLC checked every invariant above before its proof, on the instances of section 3 and
on smaller ones with other faults (up to several million states).

### Only model-checked

Liveness: `ShutdownEnds`, `CallsEnd`, `LocksEnd`, `SettledBehindCursor` and
`ComesToServe`.  They follow from fairness through `ENABLED`, about which the
installed provers know nothing.  The five violated runs are counterexamples and need
no proof.  Nothing in the modules is recursive.

## 5. What is not modelled, and why

- *Under the hop.*  cmux, the listeners and TLS are "no connection" or a
  connection that breaks (`SendFails`, `GiveUp`).  `sync.Once` keeps a failed
  first connection for ever, in which case every `SendFails` is an error answer.
  `Shutdown` has no limit of its own: `httpServer.Shutdown` waits five seconds,
  and no handler waits longer for the hop.
- *Refused members.*  A message whose insert fails stays in the stream and is
  never taken up again once the cursor is past it; a whole batch of refused ones
  at the head is read over and over, and nothing behind it gets its row.
  `MemberTasksKept` says what is kept; no document promises more.  The branch for a message that cannot be
  parsed (`pkg/workers/member.go:65-70`) is left out: the one producer of that
  stream writes none.
- *Visits cut off.*  A visit that goes down with its process leaves the snapshot and
  the wallet it has set, and nobody will write the row before the user visits again
  after the snapshot's half hour.  `NothingUnvouched` excepts the member of such a
  visit.
- *The wallet of one who orders.*  Its counter also gets what a call or the worker
  gives back, after whatever time, so `NothingUnvouched` speaks of the snapshot alone
  there; `ReservationsKept` has the wallet.
- *A record that runs out.*  `LapseRecord` of Session lets the login record expire
  only while no call of that user runs: seven days are long for a call.
- *What Logout is for.*  Its handler asserts another type than it has bound
  (`pkg/transports/auth.go:53-58`) and panics after the token check, so
  `AuthService.Logout` is never reached; a DELETE /sessions is a `Check` of Session.
- *A renewal in the middle of a login.*  It can read the new time and then still
  the old refresh token, and issue a token with the new time.  The model has
  that interleaving; the properties of Session speak of calls that begin after
  the login has answered, and hold for those.
- *Accounts without permissions.*  After a crash between the two inserts of
  `seedDefaultUser`, no later start adds the permissions.  Startup reaches that
  state; no property excludes it.
- *Widths.*  Counters and stamps are unbounded integers; prices and balances in
  the database are `decimal(16,2)`.
- *Clocks.*  Two logins of a user get different nanosecond stamps that grow.
- *Redis and PostgreSQL* themselves keep what they have acknowledged.
- *The V1 `ExecuteOrder`*, the unit of work in `pkg/services/common.go`, and the
  helpers of `pkg/utils/stream.go` have no callers; the HTTP layer, the
  converters and the configuration keep no state.

## 6. The plan

In order of importance: 1. the order pipeline (TradeStore, TradeGateway,
TradeWorker, TradePipeline, Ledger) with its faults; 2. its agreement with the
counters (TradeAccounts); 3. its proofs; 4. members in the same process
(MemberGateway, MemberWorker, Shop); 5. Session; 6. Startup; 7. the hop with its
promise, commands sent twice, and preheating by tenant; 8. a theorem for each
safety property.  These are in place.

Next:

- model: prices that change between pricing and booking, if the code gains a way
  to change them; the accounts of `seedDefaultUser` without permissions, as a
  property with its counterexample, if a document comes to promise them;
- prove: the counters' agreement for the whole process (`StockCovered` under
  `ShopSpec`), and `PromiseKept` for a client that meets `partial`, where "error"
  has to be read as "unknown".

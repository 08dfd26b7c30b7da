----------------------------- MODULE TradeStore -----------------------------
(***************************************************************************)
(* What the order gateway and the trade worker share: the Redis counters   *)
(* and locks, the Redis stream of trade tasks and the PostgreSQL tables.   *)
(*                                                                         *)
(* Every Redis key, table and order carries its tenant (schema) in the     *)
(* code, and a user belongs to one tenant, so a "user" here stands for a   *)
(* pair <<schema, user id>> and a "product" for <<schema, product id>>.    *)
(* Money is counted in minor units, as the decimal(16,2) columns hold it;  *)
(* Unit minor units make the whole unit that the Redis counters count in.  *)
(***************************************************************************)
EXTENDS Integers, Sequences, FiniteSets

CONSTANTS
  Users,           \* members of all tenants
  Products,        \* product ids that a cart may name
  Requests,        \* calls of ExecuteOrderV2 (one model value per call)
  Carts,           \* the carts that a call may carry
  Price,           \* price of a product in minor units; Absent: no such product
  Unit,            \* minor units in one whole unit of money
  OpeningBalance,  \* member.balance at the start; Absent: no row yet
  OpeningWallet,   \* the balance counter in Redis at the start
  OpeningStock,    \* product.stock at the start, preheated into Redis
  BatchSize,       \* Count of the worker's XREAD
  MaxRestarts,     \* bound on restarts of the process
  Faults,          \* the faults that this instance may meet
  Absent,          \* no such key, row or value
  Latest,          \* the special stream id "$"
  Free             \* a lock key that does not exist

(***************************************************************************)
(*   crash    the process dies between any two steps                       *)
(*   stop     SIGTERM and graceful shutdown                                *)
(*   push     the XADD pipeline fails before any command reaches Redis     *)
(*   partial  the XADD pipeline fails after some commands took effect      *)
(*   redis    a Redis command fails, or takes effect and loses its reply   *)
(* A Redis command can take effect and lose its connection; the client     *)
(* library then sends it again (bound: once for each command):             *)
(*   rerun    SETNX of the lock, or the reservation script                 *)
(*   resend   the XADD pipeline, all of it                                 *)
(*   recount  INCRBY or DECRBY of a compensation                           *)
(*   db       the worker's database transaction fails and rolls back       *)
(*   commit   COMMIT takes effect and the worker sees an error             *)
(*   expiry   a lock's time to live ends before its holder is done         *)
(*   snapshot the half hour of a member snapshot is over                   *)
(***************************************************************************)
FaultKinds ==
  {"crash", "stop", "push", "partial", "redis", "rerun", "resend", "recount", "db",
   "commit", "expiry", "snapshot"}

\* dtos.TradeDto: "exchange" stands for every type the code does not know.
Line == [product : Products, qty : Int, kind : {"pickup", "return", "exchange"}]

ASSUME UnitAssumption == Unit \in Nat \ {0}
ASSUME CartAssumption == Carts \subseteq Seq(Line)
ASSUME PriceAssumption == Price \in [Products -> Nat \cup {Absent}]
ASSUME OpeningAssumption ==
  /\ OpeningBalance \in [Users -> Nat \cup {Absent}]
  /\ OpeningWallet \in [Users -> Nat \cup {Absent}]
  /\ OpeningStock \in [Products -> Nat]
ASSUME BoundAssumption == BatchSize \in Nat \ {0} /\ MaxRestarts \in Nat
ASSUME FaultAssumption == Faults \subseteq FaultKinds
ASSUME MarkerAssumption ==
  /\ Absent \notin Int
  /\ Latest \notin Int
  /\ Free \notin Requests

VARIABLES
  app,        \* the process: "up", "stopping" (signalled), "draining" (no new
              \* calls), "down"
  restarts,   \* how often it was started again, at most MaxRestarts
  wallet,     \* cache:member:balance:<schema>:<user>
  stock,      \* cache:product:stock:<schema>:<product>
  lock,       \* lock:trade:<schema>:<user>, the request that wrote it or Free
  log,        \* every task ever added to stream:trade_tasks; its index is its id
  deleted,    \* the ids that XDEL removed
  dbBalance,  \* <schema>.member.balance
  dbStock,    \* <schema>.product.stock
  history     \* the rows of <schema>.transaction in commit order, as task ids

appVars == <<app, restarts>>
cacheVars == <<wallet, stock, lock>>
streamVars == <<log, deleted>>
dbVars == <<dbBalance, dbStock, history>>

(***************************************************************************)
(* A task is one XADD message.  Its amount is TotalCost.String(), which    *)
(* keeps the decimals.  "by" and "part" are no fields of the message: they *)
(* record which request and which line wrote it, for the properties.       *)
(***************************************************************************)
Task == [user : Users, product : Products, qty : Int, amount : Int,
         kind : {"pickup", "return"}, by : Requests, part : Nat \ {0}]

\* Rows already written to the transaction table.
Committed == {history[i] : i \in DOMAIN history}

\* decimal.IntPart: drop the fraction of x, toward zero.
Trunc(x) == IF x >= 0 THEN (x \div Unit) * Unit ELSE -(((-x) \div Unit) * Unit)

\* A missing counter reads as zero.
Counter(c) == IF c = Absent THEN 0 ELSE c

\* INCRBY and DECRBY refuse a counter that is no integer.
Whole(c) == Counter(c) % Unit = 0

\* INCRBY of n (minor units of a whole amount) that takes effect k times, and
\* whose error is ignored.
IncrBy(c, n, k) == IF k > 0 /\ Whole(c) THEN Counter(c) + k * n ELSE c

\* Whether a Redis command that the caller ignores errors of takes effect.
Outcomes == IF "redis" \in Faults THEN BOOLEAN ELSE {TRUE}

\* How often an INCRBY or DECRBY takes effect.
Times == {k \in 0..2 : (k = 0 => "redis" \in Faults) /\ (k = 2 => "recount" \in Faults)}

\* New calls are taken until GracefulStop; the workers' context ends before.
Accepting == app \in {"up", "stopping"}
Signalled == app \in {"stopping", "draining"}

StoreInit ==
  /\ app = "up"
  /\ restarts = 0
  /\ wallet = OpeningWallet
  /\ stock = OpeningStock
  /\ lock = [u \in Users |-> Free]
  /\ log = <<>>
  /\ deleted = {}
  /\ dbBalance = OpeningBalance
  /\ dbStock = OpeningStock
  /\ history = <<>>

StoreTypeOK ==
  /\ app \in {"up", "stopping", "draining", "down"}
  /\ restarts \in 0..MaxRestarts
  /\ wallet \in [Users -> Int \cup {Absent}]
  /\ stock \in [Products -> Int]
  /\ lock \in [Users -> Requests \cup {Free}]
  /\ log \in Seq(Task)
  /\ deleted \subseteq DOMAIN log
  /\ dbBalance \in [Users -> Int \cup {Absent}]
  /\ dbStock \in [Products -> Int]
  /\ history \in Seq(Nat)
  /\ Committed \subseteq DOMAIN log
=============================================================================

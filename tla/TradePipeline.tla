---------------------------- MODULE TradePipeline ---------------------------
(***************************************************************************)
(* The order pipeline as the process runs it: the gateway and the worker   *)
(* over their shared store, with the life of the process around them       *)
(* (application.go: Serve, PreheatProducts; pkg/workers/manager.go).       *)
(***************************************************************************)
EXTENDS TradeGateway, TradeWorker

vars == <<appVars, cacheVars, streamVars, dbVars, gatewayVars, workerVars>>

Init == StoreInit /\ GatewayInit /\ WorkerInit

-----------------------------------------------------------------------------
\* SIGTERM: the context of the workers is cancelled at once.
Signal ==
  /\ "stop" \in Faults
  /\ app = "up"
  /\ app' = "stopping"
  /\ UNCHANGED <<restarts, cacheVars, streamVars, dbVars, gatewayVars, workerVars>>

\* From here on the gRPC server takes no new calls.
GracefulStop ==
  /\ app = "stopping"
  /\ app' = "draining"
  /\ UNCHANGED <<restarts, cacheVars, streamVars, dbVars, gatewayVars, workerVars>>

\* GracefulStop waited for the calls in flight; nobody waits for the worker,
\* which ends with the process wherever it is.
Exit ==
  /\ app = "draining"
  /\ \A r \in Requests : ~InFlight(r)
  /\ app' = "down"
  /\ wpc' = "down"
  /\ UNCHANGED <<restarts, cacheVars, streamVars, dbVars, gatewayVars,
                 cursor, rpos, batch, cur, rejected>>

\* The process dies; a database transaction in progress rolls back.
Crash ==
  /\ "crash" \in Faults
  /\ app # "down"
  /\ app' = "down"
  /\ wpc' = "down"
  /\ pc' = [r \in Requests |-> IF InFlight(r) THEN "dead" ELSE pc[r]]
  /\ UNCHANGED <<restarts, cacheVars, streamVars, dbVars,
                 order, line, total, need, reply, cursor, rpos, batch, cur, rejected>>

\* PreheatProducts copies the stock of the database over the counters; each SET
\* may fail unnoticed.
PreheatProducts ==
  \E ok \in [Products -> Outcomes] :
    stock' = [p \in Products |-> IF ok[p] THEN dbStock[p] ELSE stock[p]]

\* The process starts: it preheats before anything else runs, then starts the
\* worker at "$".
Restart ==
  /\ app = "down"
  /\ restarts < MaxRestarts
  /\ app' = "up"
  /\ restarts' = restarts + 1
  /\ PreheatProducts
  /\ wpc' = "loop"
  /\ cursor' = StartId
  /\ rpos' = 0
  /\ batch' = {}
  /\ cur' = 0
  /\ UNCHANGED <<wallet, lock, streamVars, dbVars, gatewayVars, rejected>>

GatewayStep == GatewayNext /\ UNCHANGED workerVars
WorkerStep == WorkerNext /\ UNCHANGED gatewayVars
Process == Signal \/ GracefulStop \/ Exit \/ Crash \/ Restart

Next == GatewayStep \/ WorkerStep \/ Process

Spec == Init /\ [][Next]_vars
-----------------------------------------------------------------------------
(***************************************************************************)
(* Fairness.  A call runs on its own goroutine and every Redis command it  *)
(* waits for answers or fails; the worker's goroutine loops until it is    *)
(* told to stop; Redis ends a key whose time to live is over.              *)
(***************************************************************************)
CallStep(r) == Call(r) /\ UNCHANGED <<appVars, deleted, dbVars, workerVars>>
ExpireStep(u) == Expire(u) /\ UNCHANGED <<appVars, deleted, dbVars, workerVars>>

Fairness ==
  /\ \A r \in Requests : WF_vars(CallStep(r))
  /\ \A u \in Users : WF_vars(ExpireStep(u))
  /\ WF_vars(WorkerStep)

FairSpec == Spec /\ Fairness

\* What is said of the time after a restart wants a process that is started again.
RestartSpec == FairSpec /\ WF_vars(Restart)

-----------------------------------------------------------------------------
\* Every variable holds a value of its kind.
TypeOK == StoreTypeOK /\ GatewayTypeOK /\ WorkerTypeOK

Handled == Committed \cup rejected

\* At most one transaction row per task, and the rows in the order of the
\* stream: whatever crashes, lost deletions and restarts do, no task is booked
\* a second time and none overtakes an older one (TradeWorker.Start).
CommittedInOrder ==
  \A i, j \in DOMAIN history : i < j => history[i] < history[j]

\* A line that the pricing loop lets pass.
Known(l) == Price[l.product] # Absent /\ l.kind # "exchange"

\* Supports TypeOK: behind the pricing loop every line of the cart is known, so
\* that tasks and totals are computed from prices that exist.
LinesKnown ==
  \A r \in Requests :
    /\ pc[r] \in {"idle", "lock"} => line[r] = 1
    /\ pc[r] = "price" =>
         \A k \in DOMAIN Cart(r) : k < line[r] => Known(Cart(r)[k])
    /\ pc[r] \in {"gate", "regate", "push", "repush", "undoWallet", "undoStock"} =>
         \A k \in DOMAIN Cart(r) : Known(Cart(r)[k])

\* Supports CommittedInOrder: everything handled so far lies behind whatever the
\* worker will come to next, wherever its loop is.
Frontier ==
  \A h \in Handled :
    /\ wpc \in {"loop", "reading"} => cursor = Latest \/ h <= cursor
    /\ wpc = "reading" => h <= rpos
    /\ wpc = "batch" => \A i \in batch : h < i
    /\ wpc \in {"refundWallet", "refundStock", "ack"} => h <= cur

\* Supports Frontier: the message in hand is older than the rest of its reply.
CurrentFirst ==
  wpc \in {"refundWallet", "refundStock", "ack"} => \A i \in batch : cur < i

\* Supports DbNonNegative: what lines 48-52 of the gateway let pass adds nothing
\* negative to the books, neither as a pickup nor as a return.
QuantitiesPositive ==
  /\ \A r \in Requests :
       pc[r] \in {"lock", "price", "gate", "regate", "push", "repush", "undoWallet",
                  "undoStock"} =>
         \A k \in DOMAIN Cart(r) : Cart(r)[k].qty > 0
  /\ \A i \in DOMAIN log : log[i].qty > 0 /\ log[i].amount >= 0

\* The invariant that a step preserves by itself.
Inductive ==
  TypeOK /\ LinesKnown /\ QuantitiesPositive /\ CommittedInOrder /\ Frontier /\ CurrentFirst

\* Neither a member's balance nor a product's stock in the database is ever
\* negative, however wrong the counters in Redis are (the check under FOR
\* UPDATE in TradeWorker.Start).
DbNonNegative ==
  /\ \A u \in Users : dbBalance[u] # Absent => dbBalance[u] >= 0
  /\ \A p \in Products : dbStock[p] >= 0

\* A task that was booked is never compensated, nor one that was compensated
\* booked: not even when a shutdown leaves its message in the stream.
NeverBoth == Committed \cap rejected = {}

\* XDEL removes only tasks whose transaction has ended, so an undeleted message
\* is all that a task without an outcome needs to survive.
DeletedAreHandled == deleted \subseteq Handled

\* The cursor passes no task of its reading that is not handled: lastIdx moves
\* over what XREAD returned, in order, and nothing falls between two batches.
CursorSkipsNothing ==
  [][cursor' # cursor /\ cursor' # Latest =>
       \A i \in DOMAIN log : rpos < i /\ i <= cursor' => i \in Handled]_vars

\* Between SETNX and the release a user has one call at work: no two calls of
\* one user are past the lock (as long as no lock outlives its holder's work).
OneOrderPerUser ==
  \A r, s \in Requests :
    /\ r # s
    /\ InFlight(r) /\ pc[r] # "lock"
    /\ InFlight(s) /\ pc[s] # "lock"
    => order[r].user # order[s].user

\* The lines of a user's carts do not mix in the stream: between two lines of one
\* click lies no line of another click of that user, though the pipeline of XADDs
\* is no transaction (ExecuteOrderV2 pushes under the user's lock).
CartsStayTogether ==
  \A i, j, k \in DOMAIN log :
    /\ i < j /\ j < k
    /\ log[i].by = log[k].by /\ log[j].user = log[i].user
    => log[j].by = log[i].by

\* A call that ends deletes no lock but its own, even when its own ran out and
\* another call has taken the key meanwhile (luaReleaseLockScript).
ReleaseOnlyOwn ==
  [][\A u \in Users :
       lock[u] # Free /\ lock'[u] # lock[u] =>
         \/ pc' = pc
         \/ pc[lock[u]] = "release" /\ pc'[lock[u]] = "done"]_vars

\* A call answered "pending" has every line of its cart in the stream once, and
\* a call answered with an error never gets a line booked.
AnswerMatchesTasks ==
  \A r \in Requests :
    /\ reply[r] = "pending" =>
         \A k \in DOMAIN Cart(r) :
           \E i \in DOMAIN log :
             \A j \in DOMAIN log : log[j].by = r /\ log[j].part = k <=> j = i
    /\ reply[r] = "error" => \A i \in Committed : log[i].by # r

\* The checks in Redis are strict enough: the worker turns down a task that the
\* gateway let through only when an older return of the same user, on whose
\* money the gateway counted, was never booked.
GateSound ==
  \A i \in rejected :
    \E j \in DOMAIN log \ Handled :
      j < i /\ log[j].user = log[i].user /\ log[j].kind = "return"

\* The books are those of the abstract ledger: refinement of Ledger.
Books == INSTANCE Ledger WITH
  tasks <- log, settled <- history, balance <- dbBalance, stock <- dbStock
ImplementsLedger == Books!Spec

\* Every call that took up its work ends, whatever fails under it.
CallsEnd == \A r \in Requests : InFlight(r) ~> Finished(r)

\* No call keeps a user locked for ever: not one that crashed, and not one
\* whose release failed or whose SETNX took effect and reported an error, which
\* leaves the lock to its time to live.  (SETNX wants a free lock, so between two
\* holders it is free.)
LocksEnd == \A u \in Users : lock[u] # Free ~> lock[u] = Free

\* The tasks behind a cursor of the worker's own that have no outcome yet.
Backlog == {i \in DOMAIN log \ Handled : cursor # Latest /\ i > cursor}

\* Once the worker has a cursor of its own, it works off what is behind it (the
\* calls are finitely many), unless the process is told to stop or dies first, or
\* reads that have something to bring go on failing for ever.
SettledBehindCursor ==
  <>[][~(ReadError /\ Available # {})]_vars => (Backlog # {} ~> (Backlog = {} \/ app # "up"))

\* The ids that the calls of this instance can reach all together.
PossibleIds == UNION {1..(Cardinality(Requests) * Len(c)) : c \in Carts}

\* What the documents say of a task that is in the stream without an outcome when
\* the process is down: the start that follows takes it up, and it gets its outcome,
\* unless the process is told to stop, or dies, once more.
RestartPicksUp ==
  \A i \in PossibleIds, n \in 0..(MaxRestarts - 1) :
    app = "down" /\ restarts = n /\ i \in DOMAIN log \ Handled
      ~> i \in Handled \/ (restarts > n /\ app # "up")

\* What the documents say of a graceful shutdown: the worker leaves when the
\* task in its hands is booked and its message deleted.
StopsClean == wpc = "stopped" => Committed \subseteq deleted
=============================================================================

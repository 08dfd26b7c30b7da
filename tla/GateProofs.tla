------------------------------ MODULE GateProofs ----------------------------
(***************************************************************************)
(* Proofs about the checks of the gateway: under which carts and faults    *)
(* they are strict enough, so that the worker turns down no task for which *)
(* the money and the goods were there.                                     *)
(***************************************************************************)
EXTENDS AccountProofs

\* Faults that neither hide what a command did nor let a transaction fail by itself: a
\* push that does not reach Redis, and a shutdown whose end cancels compensations.
GateFaults == Faults \subseteq {"push", "stop", "snapshot"}

\* Carts in which what is returned comes before what it pays for, and in which no two
\* lines take the same product.
ReturnsFirst ==
  \A c \in Carts : \A j, k \in DOMAIN c :
    j < k /\ c[k].kind = "return" => c[j].kind # "pickup"
NamedOnce ==
  \A c \in Carts : \A j, k \in DOMAIN c :
    c[j].kind = "pickup" /\ c[k].kind = "pickup" /\ c[j].product = c[k].product => j = k

\* Every member has a row, and no counter is above it or has a fraction.
OpensSound ==
  /\ \A u \in Users : OpeningBalance[u] # Absent /\ Whole(OpeningWallet[u])
  /\ OpensCovered

\* Under these faults every command counts once, or not at all when its context is over.
LEMMA OnceOrNotAtAll ==
  ASSUME GateFaults
  PROVE  /\ NoDoubles /\ {"redis", "rerun"} \cap Faults = {}
         /\ {"expiry", "db", "commit", "crash"} \cap Faults = {}
         /\ Times = {1} /\ Outcomes = {TRUE} /\ ReachTimes \subseteq {0, 1}
  <1>1. /\ NoDoubles /\ {"redis", "rerun"} \cap Faults = {}
        /\ {"expiry", "db", "commit", "crash"} \cap Faults = {}
    BY DEF GateFaults, NoDoubles
  <1>2. "redis" \notin Faults /\ "recount" \notin Faults
    BY <1>1 DEF NoDoubles
  <1>3. Outcomes = {TRUE}
    BY <1>2 DEF Outcomes
  <1>4. Times = {1}
    <2>1. Times = {k \in 0..2 : k # 0 /\ k # 2}
      BY <1>2 DEF Times
    <2>2. QED
      BY <2>1
  <1>5. QED
    BY <1>1, <1>3, <1>4 DEF ReachTimes

-----------------------------------------------------------------------------
\* Every member has a row.
RowsThere == \A u \in Users : dbBalance[u] # Absent

\* Rows are rewritten, not deleted.
LEMMA RowsThereStep ==
  ASSUME Inductive, RowsThere, [Next]_vars
  PROVE  RowsThere'
  <1>1. CASE dbBalance' = dbBalance
    BY <1>1 DEF RowsThere
  <1>2. ASSUME NEW i \in batch, UpdateMember(log[i])
        PROVE  RowsThere'
    <2>1. /\ i \in DOMAIN log /\ log \in Seq(Task) /\ dbBalance \in [Users -> Int \cup {Absent}]
      BY DEF Inductive, TypeOK, WorkerTypeOK, StoreTypeOK
    <2>2. log[i].user \in Users /\ log[i].amount \in Int
      <3>1. log[i] \in Task
        BY <2>1
      <3>2. QED
        BY <3>1 DEF Task
    <2>3. dbBalance[log[i].user] + Sign(log[i]) * log[i].amount \in Int
      BY <2>1, <2>2 DEF RowsThere, Sign
    <2>4. \A u \in Users :
            dbBalance'[u] \in {dbBalance[u], dbBalance[log[i].user] + Sign(log[i]) * log[i].amount}
      BY <1>2, <2>1, <2>2 DEF UpdateMember
    <2>5. QED
      BY <2>3, <2>4, MarkerAssumption DEF RowsThere
  <1>3. CASE WorkerStep
    BY <1>1, <1>2, <1>3 DEF WorkerStep, WorkerNext, Settle, StartRead, Deliver, ReadNil,
       ReadError, Stop, Commit, Abort, CommitLost, Book, RefundWallet, RefundStock, Ack, dbVars
  <1>4. CASE GatewayStep \/ Process \/ UNCHANGED vars
    BY <1>1, <1>4 DEF GatewayStep, GatewayNext, Process, Signal, GracefulStop, Exit, Crash,
       Restart, vars, dbVars
  <1>5. QED
    BY <1>3, <1>4 DEF Next

\* Every task is of a product that has a price.
TasksKnown == \A i \in DOMAIN log : ProductExists(log[i])

\* The pricing loop lets no other line pass.
LEMMA TasksKnownStep ==
  ASSUME Inductive, TasksKnown, [Next]_vars
  PROVE  TasksKnown'
  <1>1. CASE log' = log
    BY <1>1 DEF TasksKnown, ProductExists
  <1>2. ASSUME NEW r \in Requests, XAdd(r)
        PROVE  TasksKnown'
    <2>1. /\ DOMAIN log' = DOMAIN log \cup {Len(log) + 1} /\ log'[Len(log) + 1] = TaskOf(r)
          /\ \A i \in DOMAIN log : log'[i] = log[i]
      BY <1>2, Added
    <2>2. Pushing(r) /\ MoreLines(r)
      BY <1>2 DEF XAdd
    <2>3. line[r] \in DOMAIN Cart(r)
      BY <2>2, CartTypes, CallTypes DEF MoreLines, Pushing
    <2>4. Known(At(r))
      BY <2>2, <2>3 DEF Inductive, LinesKnown, Pushing, At
    <2>5. QED
      BY <2>1, <2>4 DEF TasksKnown, ProductExists, Known, TaskOf
  <1>3. QED
    BY <1>1, <1>2, CallFrame, OtherSteps

-----------------------------------------------------------------------------
\* No stock counter is negative, and no return was turned down.
StocksUp == \A p \in Products : stock[p] >= 0
PickupsRefused == \A i \in rejected : log[i].kind = "pickup"

\* The script takes of a product what one line takes, and that is there.
LEMMA NeedIsThere ==
  ASSUME Inductive, AddedUp, NamedOnce, StocksUp, NEW r \in Requests, AtGate(r), InStock(r),
         NEW p \in Products
  PROVE  need[r][p] \in Int /\ need[r][p] <= stock[p]
  <1> DEFINE c == Cart(r)
             f == LineStock(c, p)
  <1>1. /\ c \in Carts /\ DOMAIN c = 1..Len(c) /\ IsFiniteSet(DOMAIN c)
        /\ \A k \in DOMAIN c : c[k] \in Line
    <2>1. order[r] \in Order
      BY DEF Inductive, TypeOK, GatewayTypeOK, AtGate
    <2>2. QED
      BY <2>1, CartTypes DEF AtGate, Order, Cart
  <1>2. need[r][p] = SumFunctionOnSet(f, DOMAIN c) /\ need[r][p] \in Int /\ stock[p] \in Int
    BY GateNeed, CartTypes DEF AddedUp, AddedUpFor, AtGate
  <1>3. \A k \in DOMAIN c : f[k] = Taken(c[k], p) /\ f[k] \in Int
    BY <1>1, LineTypes DEF LineStock
  <1>4. ASSUME NEW k \in DOMAIN c, c[k].kind = "pickup", c[k].product = p
        PROVE  need[r][p] <= stock[p]
    <2>1. stock[p] >= c[k].qty
      BY <1>4 DEF InStock
    <2>2. f[k] = c[k].qty
      BY <1>3, <1>4 DEF Taken
    <2>3. \A j \in DOMAIN c \ {k} : f[j] = 0
      BY <1>1, <1>3, <1>4 DEF NamedOnce, Taken
    <2>4. IsFiniteSet(DOMAIN c \ {k})
      BY <1>1, FS_Subset
    <2> HIDE DEF f
    <2>5. SumFunctionOnSet(f, DOMAIN c) = f[k] + SumFunctionOnSet(f, DOMAIN c \ {k})
      BY <1>1, <1>3, SumTakes
    <2>6. SumFunctionOnSet(f, DOMAIN c \ {k}) = 0
      BY <2>3, <2>4, SumZero
    <2>7. QED
      BY <1>2, <1>3, <2>1, <2>2, <2>5, <2>6
  <1>5. ASSUME \A k \in DOMAIN c : ~(c[k].kind = "pickup" /\ c[k].product = p)
        PROVE  need[r][p] <= stock[p]
    <2>1. \A k \in DOMAIN c : f[k] = 0
      BY <1>3, <1>5 DEF Taken
    <2> HIDE DEF f
    <2>2. QED
      BY <1>1, <1>2, <2>1, SumZero DEF StocksUp
  <1>6. QED
    BY <1>2, <1>4, <1>5

\* What is given back is taken from no counter, as long as only pickups are turned down.
LEMMA StocksUpStep ==
  ASSUME Prepared, InHand, NamedOnce, StocksUp, PickupsRefused, DbNonNegative, [Next]_vars
  PROVE  StocksUp'
  <1>t. /\ stock \in [Products -> Int] /\ dbStock \in [Products -> Int] /\ Inductive /\ AddedUp
        /\ \A p \in Products : stock[p] \in Int /\ dbStock[p] \in Int
    BY CartTypes DEF Prepared
  <1>1. CASE stock' = stock
    BY <1>1 DEF StocksUp
  <1>2. ASSUME NEW r \in Requests, Reserve(r) \/ ReserveLost(r) \/ ReserveAgain(r)
        PROVE  StocksUp'
    <2>1. AtGate(r) /\ InStock(r) /\ stock' = [p \in Products |-> stock[p] - need[r][p]]
      BY <1>2 DEF Reserve, ReserveLost, ReserveAgain, AtGate, Passes, Deduct
    <2>2. \A p \in Products : need[r][p] \in Int /\ need[r][p] <= stock[p]
      BY <1>t, <2>1, NeedIsThere
    <2>3. QED
      BY <1>t, <2>1, <2>2 DEF StocksUp
  <1>3. ASSUME NEW r \in Requests, UndoStock(r)
        PROVE  StocksUp'
    <2>1. PICK k \in Times :
            stock' = [stock EXCEPT ![At(r).product] = @ + k * Taken(At(r), At(r).product)]
      BY <1>3 DEF UndoStock
    <2>2. k \in {0, 1, 2}
      BY DEF Times
    <2>3. line[r] \in DOMAIN Cart(r) /\ At(r) \in Line
      <3>1. line[r] \in Nat \ {0} /\ pc[r] # "idle" /\ line[r] <= Len(Cart(r))
        BY <1>t, <1>3, CallTypes DEF UndoStock, MoreLines
      <3>2. line[r] \in DOMAIN Cart(r)
        BY <1>t, <3>1, CartTypes
      <3>3. QED
        BY <1>t, <3>1, <3>2, CartTypes DEF At
    <2>4. At(r).qty > 0
      BY <1>t, <1>3, <2>3 DEF UndoStock, Inductive, QuantitiesPositive, At
    <2>5. Taken(At(r), At(r).product) \in Int /\ Taken(At(r), At(r).product) >= 0
      BY <2>3, <2>4 DEF Taken, Line
    <2>6. \A p \in Products :
            stock'[p] \in {stock[p], stock[p] + k * Taken(At(r), At(r).product)}
      BY <1>t, <2>1
    <2>7. \A x \in Int : k * x \in {0, x, x + x}
      BY <2>2
    <2>8. k * Taken(At(r), At(r).product) \in Int /\ k * Taken(At(r), At(r).product) >= 0
      BY <2>5, <2>7
    <2>9. QED
      BY <1>t, <2>6, <2>8 DEF StocksUp
  <1>4. CASE RefundStock
    <2>1. PICK k \in ReachTimes :
            stock' = [stock EXCEPT ![log[cur].product] = @ - k * Sign(log[cur]) * log[cur].qty]
      BY <1>4 DEF RefundStock
    <2>2. k \in {0, 1, 2}
      BY DEF ReachTimes, Times
    <2>3. cur \in rejected
      BY <1>4 DEF RefundStock, InHand
    <2>4. cur \in DOMAIN log /\ log \in Seq(Task)
      BY <1>t, <2>3 DEF Inductive, TypeOK, WorkerTypeOK, StoreTypeOK
    <2>5. log[cur] \in Task
      BY <2>4
    <2>6. log[cur].qty \in Int /\ log[cur].qty > 0 /\ Sign(log[cur]) = -1
      BY <1>t, <2>3, <2>4, <2>5 DEF Inductive, QuantitiesPositive, PickupsRefused, Sign, Task
    <2>7. PICK q \in Int : q = log[cur].qty /\ q > 0
      BY <2>6
    <2>8. PICK z : z = k * Sign(log[cur]) * log[cur].qty
      OBVIOUS
    <2>9. z \in {0, -q, -q - q}
      <3>1. Sign(log[cur]) = -1 /\ log[cur].qty = q
        BY <2>6, <2>7
      <3>2. z = k * (-1) * q
        BY <2>8, <3>1
      <3>3. QED
        BY <2>2, <2>7, <3>2
    <2>10. \A p \in Products : stock'[p] \in {stock[p], stock[p] - z}
      BY <1>t, <2>1, <2>8
    <2>11. QED
      BY <1>t, <2>7, <2>9, <2>10 DEF StocksUp
  <1>5. CASE Restart
    <2>1. \A p \in Products : stock'[p] \in {stock[p], dbStock[p]}
      BY <1>5 DEF Restart, PreheatProducts
    <2>2. QED
      BY <1>t, <2>1 DEF StocksUp, DbNonNegative
  <1>6. ASSUME NEW r \in Requests, Begin(r) \/ Call(r)
        PROVE  \/ stock' = stock \/ Reserve(r) \/ ReserveLost(r) \/ ReserveAgain(r)
               \/ UndoStock(r)
    BY <1>6 DEF Begin, Call, Acquire, Busy, AcquireFails, PriceLine, RejectLine, Priced, Refuse,
       XAdd, PushDone, PushFail, PushAgain, UndoWallet, UndoDone, Release, cacheVars
  <1>7. CASE GatewayStep
    <2>1. (\E v \in Users : Expire(v)) => stock' = stock
      BY DEF Expire
    <2>2. QED
      BY <1>1, <1>2, <1>3, <1>6, <1>7, <2>1 DEF GatewayStep, GatewayNext
  <1>8. CASE WorkerStep
    BY <1>1, <1>4, <1>8 DEF WorkerStep, WorkerNext, Settle, StartRead, Deliver, ReadNil,
       ReadError, Stop, Commit, Abort, CommitLost, RefundWallet, Ack
  <1>9. CASE Process \/ UNCHANGED vars
    BY <1>1, <1>5, <1>9 DEF Process, Signal, GracefulStop, Exit, Crash, vars, cacheVars
  <1>10. QED
    BY <1>7, <1>8, <1>9 DEF Next

-----------------------------------------------------------------------------
\* The sum over a part is at least that over all when nothing in the rest is positive.
LEMMA SumOfLess ==
  ASSUME NEW f, NEW S, NEW T \in SUBSET S, IsFiniteSet(S), \A x \in S : f[x] \in Int,
         \A x \in S \ T : f[x] <= 0
  PROVE  SumFunctionOnSet(f, S) <= SumFunctionOnSet(f, T)
  <1> DEFINE Bad == {t \in FiniteSubsetsOf(S) : /\ T \subseteq t
                       /\ ~ SumFunctionOnSet(f, t) <= SumFunctionOnSet(f, T)}
  <1>0. IsFiniteSet(T) /\ SumFunctionOnSet(f, T) \in Int
    BY FS_Subset, SumInt
  <1>1. ASSUME NEW x \in Bad, \A y \in SUBSET x : y \in Bad => y = x
        PROVE  FALSE
    <2>1. /\ x \in SUBSET S /\ IsFiniteSet(x) /\ T \subseteq x
          /\ ~ SumFunctionOnSet(f, x) <= SumFunctionOnSet(f, T)
      BY DEF FiniteSubsetsOf
    <2>2. PICK a \in x : a \notin T
      BY <1>0, <2>1
    <2> DEFINE y == x \ {a}
    <2>3. y \in FiniteSubsetsOf(S) /\ y # x /\ y \in SUBSET x /\ T \subseteq y
      BY <2>1, <2>2, FS_Subset DEF FiniteSubsetsOf
    <2>4. SumFunctionOnSet(f, y) <= SumFunctionOnSet(f, T)
      BY <1>1, <2>3
    <2>5. SumFunctionOnSet(f, y) \in Int
      BY <2>3, SumInt DEF FiniteSubsetsOf
    <2>6. f[a] \in Int /\ f[a] <= 0
      BY <2>1, <2>2
    <2>7. SumFunctionOnSet(f, x) = f[a] + SumFunctionOnSet(f, y)
      BY <2>1, <2>2, SumTakes
    <2> HIDE DEF y
    <2>8. QED
      BY <1>0, <2>1, <2>4, <2>5, <2>6, <2>7
  <1>2. Bad = {}
    <2>1. Bad \subseteq FiniteSubsetsOf(S)
      OBVIOUS
    <2> HIDE DEF Bad
    <2>2. QED
      BY <1>1, <2>1, Smallest
  <1>3. S \in FiniteSubsetsOf(S)
    BY DEF FiniteSubsetsOf
  <1>4. QED
    BY <1>2, <1>3

\* A pickup costs, a return brings.
LEMMA ReturnBrings ==
  ASSUME NEW l \in Line, Known(l), l.qty > 0
  PROVE  /\ Charge(l) \in Int
         /\ l.kind = "pickup" => Charge(l) >= 0
         /\ l.kind # "pickup" => Charge(l) <= 0
  <1>1. l.qty \in Nat /\ l.product \in Products /\ Charge(l) \in Int
    BY ChargeTypes DEF Line
  <1>2. Price[l.product] \in Nat
    BY <1>1, PriceAssumption DEF Known
  <1>3. Price[l.product] * l.qty \in Nat
    BY <1>1, <1>2
  <1>4. QED
    BY <1>1, <1>3 DEF Charge

\* With returns first, what a call still holds costs nothing less than the whole cart,
\* or brings nothing.
LEMMA RestCovers ==
  ASSUME Inductive, AddedUp, ReturnsFirst, NEW r \in Requests, NEW u \in Users,
         Pushing(r) \/ pc[r] = "undoWallet", order[r].user = u
  PROVE  MoneyOf(r, u) \in Int /\ (0 <= MoneyOf(r, u) \/ total[r] <= MoneyOf(r, u))
  <1> DEFINE c == Cart(r)
             f == LineMoney(c)
             D == DOMAIN c
             H == Held(r, {"undoWallet"})
  <1>1. pc[r] \in Reserving /\ pc[r] # "idle" /\ order[r] \in Order /\ order[r] # Absent
    BY NoOrderAssumption DEF Pushing, Reserving, Inductive, TypeOK, GatewayTypeOK
  <1>2. MoneyOf(r, u) = SumFunctionOnSet(f, H)
    BY <1>1 DEF MoneyOf
  <1>3. /\ c \in Carts /\ IsFiniteSet(D) /\ D = 1..Len(c) /\ Len(c) \in Nat
        /\ \A k \in D : c[k] \in Line /\ Known(c[k]) /\ c[k].qty > 0
    BY <1>1, CartTypes DEF Inductive, QuantitiesPositive, LinesKnown, Reserving, Order, Cart
  <1>4. line[r] \in Nat \ {0} /\ H = line[r]..Len(c) /\ H \in SUBSET D
    BY <1>1, <1>3, CallTypes DEF Held
  <1>5. total[r] = SumFunctionOnSet(f, D) /\ total[r] \in Int
    BY <1>1, CartMoney
  <1>6. \A k \in D : /\ f[k] \in Int
                     /\ c[k].kind = "pickup" => f[k] >= 0
                     /\ c[k].kind # "pickup" => f[k] <= 0
    <2>1. \A k \in D : f[k] = Charge(c[k])
      BY DEF LineMoney
    <2>2. QED
      BY <1>3, <2>1, ReturnBrings
  <1>7. IsFiniteSet(H) /\ SumFunctionOnSet(f, H) \in Int
    <2>1. IsFiniteSet(H)
      BY <1>3, <1>4, FS_Subset
    <2> HIDE DEF f, H
    <2>2. QED
      BY <1>4, <1>6, <2>1, SumInt
  <1>8. CASE \A k \in H : c[k].kind = "pickup"
    <2>1. \A k \in H \ {} : f[k] >= 0
      BY <1>4, <1>6, <1>8
    <2>2. {} \in SUBSET H /\ \A k \in H : f[k] \in Int
      BY <1>4, <1>6
    <2> HIDE DEF f, H
    <2>3. SumFunctionOnSet(f, {}) <= SumFunctionOnSet(f, H)
      BY <1>7, <2>1, <2>2, SumOfPart
    <2>4. QED
      BY <1>2, <1>7, <2>3, SumNone
  <1>9. CASE \E k \in H : c[k].kind # "pickup"
    <2>1. PICK k \in H : c[k].kind # "pickup"
      BY <1>9
    <2>2. k \in D /\ c[k].kind = "return" /\ \A j \in D \ H : j < k
      BY <1>3, <1>4, <2>1 DEF Line, Known
    <2>3. \A j \in D \ H : c[j].kind # "pickup"
      BY <1>3, <2>2 DEF ReturnsFirst
    <2>4. \A j \in D \ H : f[j] <= 0
      BY <1>6, <2>3
    <2> HIDE DEF f, H, D
    <2>5. SumFunctionOnSet(f, D) <= SumFunctionOnSet(f, H)
      BY <1>3, <1>4, <1>6, <2>4, SumOfLess
    <2>6. QED
      BY <1>2, <1>5, <1>7, <2>5
  <1>10. QED
    BY <1>8, <1>9

\* No wallet falls below zero (WalletsUp), not even when a call that has passed the gate
\* takes back what its returns have brought.
Owing(r) == Pushing(r) \/ pc[r] = "undoWallet"
Spared == \A r \in Requests : Owing(r) => Counter(wallet[order[r].user]) + total[r] >= 0

\* What is on the counter of u with all that calls hold is not negative.
Solvent == \A u \in Users : Counter(wallet[u]) + HeldMoney(u) >= 0

\* Only one call of a member holds anything, and that is covered.
LEMMA HoldsSolvent ==
  ASSUME ReturnsFirst
  PROVE  Prepared /\ LockHeld /\ WalletsUp /\ Spared => Solvent
  <1> SUFFICES ASSUME Prepared, LockHeld, WalletsUp, Spared, NEW u \in Users
               PROVE  Counter(wallet[u]) + HeldMoney(u) >= 0
    BY DEF Solvent
  <1> DEFINE f == [s \in Requests |-> MoneyOf(s, u)]
             Holder(r) == Owing(r) /\ order[r].user = u
  <1>1. /\ HeldMoney(u) = SumFunctionOnSet(f, Requests) /\ Inductive /\ AddedUp
        /\ Counter(wallet[u]) \in Int /\ Counter(wallet[u]) >= 0
    BY WalletTypes DEF HeldMoney, SumFunction, Prepared, WalletsUp
  <1>2. \A s \in Requests : f[s] = MoneyOf(s, u) /\ f[s] \in Int
    BY <1>1, MoneyOfTypes
  <1>3. \A s \in Requests : ~Holder(s) => f[s] = 0
    <2>1. \A s \in Requests : order[s].user # u => MoneyOf(s, u) = 0
      BY DEF MoneyOf
    <2>2. QED
      BY <1>1, <1>2, <2>1, MoneyOfTypes DEF Owing
  <1>4. ASSUME NEW r \in Requests, Holder(r)
        PROVE  Counter(wallet[u]) + HeldMoney(u) >= 0
    <2>1. \A s \in Requests \ {r} : ~Holder(s)
      <3>1. \A s \in Requests : Holder(s) => lock[u] = s
        BY DEF LockHeld, Holds, InFlight, Pushing, Owing
      <3>2. QED
        BY <1>4, <3>1
    <2>2. \A s \in Requests \ {r} : f[s] = 0
      BY <1>3, <2>1
    <2>3. f[r] \in Int /\ (0 <= f[r] \/ total[r] <= f[r])
      BY <1>1, <1>2, <1>4, RestCovers DEF Owing
    <2>4. Counter(wallet[u]) + total[r] >= 0 /\ total[r] \in Int
      BY <1>1, <1>4, CartTypes DEF Spared
    <2>5. IsFiniteSet(Requests \ {r})
      BY CallsAssumption, FS_Subset
    <2> HIDE DEF f, Holder
    <2>6. SumFunctionOnSet(f, Requests) = f[r] + SumFunctionOnSet(f, Requests \ {r})
      BY <1>2, CallsAssumption, SumTakes
    <2>7. SumFunctionOnSet(f, Requests \ {r}) = 0
      BY <2>2, <2>5, SumZero
    <2>8. QED
      BY <1>1, <2>3, <2>4, <2>6, <2>7
  <1>5. ASSUME \A r \in Requests : ~Holder(r)
        PROVE  Counter(wallet[u]) + HeldMoney(u) >= 0
    <2>1. \A s \in Requests : f[s] = 0
      BY <1>3, <1>5
    <2> HIDE DEF f
    <2>2. SumFunctionOnSet(f, Requests) = 0
      BY <2>1, CallsAssumption, SumZero
    <2>3. QED
      BY <1>1, <2>2
  <1>6. QED
    BY <1>4, <1>5

\* A call passes the gate before it owes anything, and its cart stays as it was priced.
LEMMA OwingFrame ==
  ASSUME Inductive, [Next]_vars, NEW r \in Requests, Owing(r)'
  PROVE  /\ Owing(r) \/ Reserve(r)
         /\ total'[r] = total[r] /\ order'[r] = order[r]
  <1>t. pc \in [Requests -> Places] /\ order \in [Requests -> Order \cup {Absent}]
    BY CallTypes
  <1>0. pc'[r] \in {"push", "repush", "undoWallet"}
    BY DEF Owing, Pushing
  <1>1. CASE pc'[r] = pc[r] /\ order'[r] = order[r]
    <2>1. \A s \in Requests : PriceLine(s) => total'[r] = total[r]
      <3>1. \A s \in Requests : PriceLine(s) => s # r
        BY <1>0, <1>1 DEF PriceLine
      <3>2. QED
        BY <3>1, CartTypes DEF PriceLine
    <2>2. QED
      BY <1>0, <1>1, <2>1, TotalsFrame DEF Owing, Pushing
  <1>2. ASSUME NEW s \in Requests, Begin(s) \/ Call(s)
        PROVE  (pc'[r] = pc[r] /\ order'[r] = order[r]) \/ s = r
    BY <1>2, CallFrame
  <1>3. CASE Begin(r) \/ Call(r)
    BY <1>t, <1>0, <1>3 DEF Begin, Call, Acquire, Busy, AcquireFails, PriceLine, RejectLine,
       Priced, Reserve, Refuse, ReserveLost, ReserveAgain, XAdd, PushDone, PushFail, PushAgain,
       UndoWallet, UndoStock, UndoDone, Release, Goto, Owing, Pushing
  <1>4. CASE ~\E s \in Requests : Begin(s) \/ Call(s)
    <2>1. order' = order /\ (pc'[r] = pc[r] \/ pc'[r] = "dead")
      BY <1>4, OtherSteps
    <2>2. QED
      BY <1>0, <1>1, <2>1
  <1>5. QED
    BY <1>1, <1>2, <1>3, <1>4

\* A counter that a step lowers is lowered by a call that has the lock of its member.
LEMMA SparedStep ==
  ASSUME Prepared, InHand, LockHeld, NoDoubles, {"redis", "rerun"} \cap Faults = {},
         ReachTimes \subseteq {0, 1}, Times = {1}, PricesWhole, WalletsWhole, WalletsUp, Spared,
         PickupsRefused, [Next]_vars
  PROVE  WalletsUp' /\ Spared'
  <1>t. /\ Inductive /\ total \in [Requests -> Int]
        /\ \A u \in Users : Counter(wallet[u]) \in Int /\ Counter(wallet[u]) >= 0
        /\ \A r \in Requests : pc[r] # "idle" => order[r].user \in Users
    BY CartTypes, CallTypes, WalletTypes DEF Prepared, WalletsUp
  <1>0. \A r \in Requests : Owing(r) => pc[r] # "idle" /\ Holds(r)
    BY DEF Owing, Pushing, Holds, InFlight
  <1>1. ASSUME \A u \in Users : Counter(wallet[u])' \in Int /\ Counter(wallet[u])' >= Counter(wallet[u]),
               \A r \in Requests : ~Reserve(r)
        PROVE  WalletsUp' /\ Spared'
    <2>1. WalletsUp'
      BY <1>t, <1>1 DEF WalletsUp
    <2>2. ASSUME NEW r \in Requests, Owing(r)'
          PROVE  Counter(wallet[order[r].user])' + total'[r] >= 0
      <3>1. Owing(r) /\ total'[r] = total[r] /\ order'[r] = order[r]
        BY <1>t, <1>1, <2>2, OwingFrame
      <3>2. PICK u \in Users : u = order[r].user
        BY <1>t, <1>0, <3>1
      <3>3. Counter(wallet[u]) + total[r] >= 0
        BY <3>1, <3>2 DEF Spared
      <3>4. Counter(wallet[u])' + total[r] >= 0
        BY <1>t, <1>1, <3>3
      <3>5. Counter(wallet[order[r].user])' = Counter(wallet[u])'
        BY <3>1, <3>2
      <3>6. QED
        BY <3>1, <3>4, <3>5
    <2>3. QED
      BY <2>1, <2>2 DEF Spared
  <1>2. ASSUME wallet' = wallet, \A r \in Requests : ~Reserve(r)
        PROVE  WalletsUp' /\ Spared'
    BY <1>t, <1>1, <1>2 DEF Counter
  <1>3. ASSUME NEW r \in Requests, Holds(r), pc[r] # "idle",
               \A u \in Users \ {order[r].user} : wallet'[u] = wallet[u],
               Counter(wallet[order[r].user])' \in Int, Counter(wallet[order[r].user])' >= 0,
               order'[r] = order[r],
               Owing(r)' => Counter(wallet[order[r].user])' + total'[r] >= 0,
               \A s \in Requests \ {r} : ~Reserve(s)
        PROVE  WalletsUp' /\ Spared'
    <2>1. PICK v \in Users : v = order[r].user /\ v = order'[r].user
      BY <1>t, <1>3
    <2>2. \A u \in Users \ {v} : Counter(wallet[u])' = Counter(wallet[u])
      BY <1>3, <2>1 DEF Counter
    <2>3. Counter(wallet[v])' \in Int /\ Counter(wallet[v])' >= 0
      BY <1>3, <2>1
    <2>4. WalletsUp'
      BY <1>t, <2>2, <2>3 DEF WalletsUp
    <2>5. ASSUME NEW s \in Requests \ {r}, Owing(s)'
          PROVE  Counter(wallet[order[s].user])' + total'[s] >= 0
      <3>1. Owing(s) /\ total'[s] = total[s] /\ order'[s] = order[s]
        BY <1>t, <1>3, <2>5, OwingFrame
      <3>2. PICK u \in Users : u = order[s].user
        BY <1>t, <1>0, <3>1
      <3>3. u # v
        BY <1>0, <1>3, <2>1, <3>1, <3>2 DEF LockHeld
      <3>4. Counter(wallet[u]) + total[s] >= 0
        BY <3>1, <3>2 DEF Spared
      <3>5. Counter(wallet[order[s].user])' = Counter(wallet[u])'
        BY <3>1, <3>2
      <3>6. QED
        BY <2>2, <3>1, <3>3, <3>4, <3>5
    <2>6. QED
      BY <1>3, <2>4, <2>5 DEF Spared
  <1>4. ASSUME NEW r \in Requests, Reserve(r)
        PROVE  WalletsUp' /\ Spared'
    <2>1. AtGate(r) /\ Affordable(r) /\ Deduct(r) /\ order' = order /\ total' = total
      BY <1>4 DEF Reserve, Passes
    <2>2. Holds(r) /\ pc[r] # "idle" /\ pc[r] \in Reserving
      BY <2>1 DEF AtGate, Holds, InFlight, Reserving
    <2>3. PICK t \in Int : t = total[r] /\ Trunc(total[r]) = t
      BY <1>t, <2>2, CartMoney DEF Prepared
    <2>4. PICK v \in Users : v = order[r].user
      BY <1>t, <2>2
    <2>5. wallet' = [wallet EXCEPT ![v] = Counter(@) - t] /\ Counter(wallet[v]) >= t
      BY <2>1, <2>3, <2>4 DEF Deduct, Affordable
    <2>6. /\ wallet'[v] = Counter(wallet[v]) - t
          /\ \A u \in Users \ {v} : wallet'[u] = wallet[u]
      BY <1>t, <2>5, WalletTypes
    <2>7. Counter(wallet[v])' = Counter(wallet[v]) - t
      BY <1>t, <2>3, <2>6, MarkerAssumption DEF Counter
    <2>8. Counter(wallet[order[r].user])' = Counter(wallet[v])'
      BY <2>1, <2>4
    <2>9. \A s \in Requests \ {r} : ~Reserve(s)
      <3>1. pc[r] # "push" /\ pc'[r] = "push"
        BY <1>t, <1>4, <2>1, CallTypes DEF Reserve, Goto, AtGate
      <3>2. \A s \in Requests \ {r} : Reserve(s) => pc'[r] = pc[r]
        BY DEF Reserve, Goto
      <3>3. QED
        BY <3>1, <3>2
    <2>10. /\ Counter(wallet[order[r].user])' \in Int /\ Counter(wallet[order[r].user])' >= 0
           /\ Counter(wallet[order[r].user])' + total'[r] >= 0
      BY <1>t, <2>1, <2>3, <2>4, <2>5, <2>7, <2>8
    <2>11. QED
      BY <1>3, <2>1, <2>2, <2>4, <2>6, <2>9, <2>10
  <1>5. ASSUME NEW r \in Requests, UndoWallet(r)
        PROVE  WalletsUp' /\ Spared'
    <2>1. /\ pc[r] = "undoWallet" /\ pc' = [pc EXCEPT ![r] = "undoStock"]
          /\ order' = order /\ total' = total
          /\ wallet' = [wallet EXCEPT ![order[r].user] = IncrBy(@, Trunc(total[r]), 1)]
      BY <1>5 DEF UndoWallet, Goto
    <2>2. Holds(r) /\ Owing(r) /\ pc[r] # "idle" /\ pc[r] \in Reserving
      BY <2>1 DEF Owing, Holds, InFlight, Reserving
    <2>3. PICK t \in Int : t = total[r] /\ Trunc(total[r]) = t
      BY <1>t, <2>2, CartMoney DEF Prepared
    <2>4. PICK v \in Users : v = order[r].user
      BY <1>t, <2>2
    <2>5. /\ wallet'[v] = IncrBy(wallet[v], t, 1)
          /\ \A u \in Users \ {v} : wallet'[u] = wallet[u]
      BY <1>t, <2>1, <2>3, <2>4, WalletTypes
    <2>6. Counter(wallet[v])' = Counter(IncrBy(wallet[v], t, 1))
      BY <2>5 DEF Counter
    <2>7. Counter(IncrBy(wallet[v], t, 1)) = Counter(wallet[v]) + t
      BY <1>t, <2>3, WalletTypes DEF WalletsWhole
    <2>8. Counter(wallet[v]) + t >= 0
      BY <2>2, <2>3, <2>4 DEF Spared
    <2>9. Counter(wallet[order[r].user])' = Counter(wallet[v])'
      BY <2>1, <2>4
    <2>10. /\ Counter(wallet[order[r].user])' \in Int /\ Counter(wallet[order[r].user])' >= 0
      BY <1>t, <2>3, <2>4, <2>6, <2>7, <2>8, <2>9
    <2>11. ~Owing(r)' /\ \A s \in Requests \ {r} : ~Reserve(s)
      <3>1. pc'[r] = "undoStock" /\ pc[r] # "undoStock"
        BY <1>t, <2>1, CallTypes
      <3>2. \A s \in Requests \ {r} : Reserve(s) => pc'[r] = pc[r]
        BY DEF Reserve, Goto
      <3>3. QED
        BY <3>1, <3>2 DEF Owing, Pushing
    <2>12. QED
      BY <1>3, <2>1, <2>2, <2>4, <2>5, <2>10, <2>11
  <1>6. CASE RefundWallet /\ UNCHANGED gatewayVars
    <2>1. cur \in rejected /\ cur \in DOMAIN log
      BY <1>t, <1>6 DEF RefundWallet, InHand, Inductive, TypeOK, WorkerTypeOK
    <2>2. log[cur].kind = "pickup" /\ log[cur].amount >= 0
      BY <1>t, <2>1 DEF PickupsRefused, Inductive, QuantitiesPositive
    <2>3. \A u \in Users : Cost(log[cur], u) \in {0, log[cur].amount} /\ Cost(log[cur], u) \in Int
      <3>1. log[cur].amount \in Int
        <4>1. log[cur] \in Task
          BY <1>t, <2>1, CallTypes
        <4>2. QED
          BY <4>1 DEF Task
      <3>2. -(-1) * log[cur].amount = log[cur].amount
        BY <3>1
      <3>3. QED
        BY <1>6, <2>2, <3>1, <3>2, Repaid DEF Cost, Sign
    <2>4. \A u \in Users : Counter(wallet[u])' \in Int /\ Counter(wallet[u])' >= Counter(wallet[u])
      BY <1>t, <1>6, <2>2, <2>3, Repaid
    <2>5. \A r \in Requests : ~Reserve(r)
      <3>1. pc' = pc
        BY <1>6 DEF gatewayVars
      <3>2. QED
        BY <1>t, <3>1, CallTypes DEF Reserve, Goto, AtGate
    <2>6. QED
      BY <1>1, <2>4, <2>5
  <1>7. ASSUME NEW r \in Requests, Begin(r) \/ Call(r)
        PROVE  Reserve(r) \/ UndoWallet(r) \/ wallet' = wallet
    <2>1. ~ReserveLost(r) /\ ~ReserveAgain(r)
      BY DEF ReserveLost, ReserveAgain
    <2>2. QED
      BY <1>7, <2>1 DEF Begin, Call, Acquire, Busy, AcquireFails, PriceLine, RejectLine, Priced,
         Refuse, XAdd, PushDone, PushFail, PushAgain, UndoStock, UndoDone, Release, cacheVars
  <1>8. CASE GatewayStep
    <2>1. (\E v \in Users : Expire(v)) => wallet' = wallet
      BY DEF Expire
    <2>2. QED
      BY <1>2, <1>4, <1>5, <1>7, <1>8, <2>1 DEF GatewayStep, GatewayNext
  <1>9. CASE WorkerStep
    <2>1. RefundWallet \/ wallet' = wallet
      BY <1>9 DEF WorkerStep, WorkerNext, Settle, StartRead, Deliver, ReadNil,
         ReadError, Stop, Commit, Abort, CommitLost, RefundStock, Ack
    <2>2. QED
      BY <1>2, <1>4, <1>6, <1>9, <2>1 DEF WorkerStep
  <1>10. CASE Process \/ UNCHANGED vars
    <2>1. wallet' = wallet
      BY <1>10 DEF Process, Signal, GracefulStop, Exit, Crash, Restart, vars, cacheVars
    <2>2. QED
      BY <1>2, <1>4, <2>1
  <1>11. QED
    BY <1>8, <1>9, <1>10 DEF Next

-----------------------------------------------------------------------------
\* The counter of a member, with what is held and queued, is not above the balance.
PurseLow == \A u \in Users : Purse(u, Open(Repaying)) <= Counter(dbBalance[u])

\* A pickup that was turned down has cost its member something, and nobody else.
LEMMA RefusedCosts ==
  ASSUME Inductive, PickupsRefused, NEW i \in rejected, NEW u \in Users
  PROVE  i \in DOMAIN log /\ Cost(log[i], u) \in Int /\ Cost(log[i], u) >= 0
  <1>1. i \in DOMAIN log
    BY DEF Inductive, TypeOK, WorkerTypeOK
  <1>2. log[i] \in Task
    BY <1>1, CallTypes
  <1>3. log[i].amount \in Int /\ log[i].amount >= 0 /\ log[i].kind = "pickup"
    BY <1>1, <1>2 DEF Task, Inductive, QuantitiesPositive, PickupsRefused
  <1>4. Cost(log[i], u) \in {0, -(-1) * log[i].amount}
    BY <1>3 DEF Cost, Sign
  <1>5. -(-1) * log[i].amount = log[i].amount
    BY <1>3
  <1>6. QED
    BY <1>1, <1>3, <1>4, <1>5

\* The worker and the process put no more money on a counter than a task gives up.
LEMMA OthersPurseLow ==
  ASSUME Prepared, Prepared', InHand, "commit" \notin Faults, "crash" \notin Faults,
         ReachTimes \subseteq {0, 1}, PricesWhole, PickupsRefused, WorkerStep \/ Process,
         NEW u \in Users, Purse(u, Open(Repaying)) <= Counter(dbBalance[u])
  PROVE  Purse(u, Open(Repaying))' <= Counter(dbBalance[u])'
  <1>1. UNCHANGED <<gatewayVars, log>> /\ Inductive
    BY DEF WorkerStep, WorkerNext, Prepared, Process, Signal, GracefulStop, Exit, Crash, Restart,
       streamVars
  <1>2. PICK S \in SUBSET DOMAIN log : S = Open(Repaying)
    BY DEF Open
  <1>3. PICK T : T = Open(Repaying)'
    OBVIOUS
  <1>4. Purse(u, Open(Repaying))' = Purse(u, T)'
    BY <1>3 DEF Purse, TaskMoney
  <1>5. /\ Counter(wallet[u]) \in Int /\ Counter(dbBalance[u]) \in Int
        /\ Counter(wallet[u])' \in Int /\ Counter(dbBalance[u])' \in Int
        /\ Purse(u, S) \in Int /\ Purse(u, S) <= Counter(dbBalance[u])
    BY <1>2, PurseTypes DEF PursesTyped
  <1>6. Repaying \in SUBSET Refunding
    BY DEF Repaying, Refunding
  <1>7. ASSUME wallet'[u] = wallet[u], UNCHANGED dbBalance, T = S
        PROVE  Purse(u, T)' <= Counter(dbBalance[u])'
    <2>1. Purse(u, T)' = Purse(u, S)
      BY <1>1, <1>7, SamePurse
    <2>2. Counter(dbBalance[u])' = Counter(dbBalance[u])
      BY <1>7
    <2>3. QED
      BY <1>5, <2>1, <2>2
  <1>8. CASE StartRead \/ Deliver \/ ReadNil \/ ReadError \/ Stop \/ Ack \/ RefundStock
    <2>1. UNCHANGED <<wallet, dbBalance>>
      BY <1>8 DEF StartRead, Deliver, ReadNil, ReadError, Stop, Ack, RefundStock, dbVars
    <2>2. "refundStock" \notin Repaying
      BY DEF Repaying
    <2>3. T = S
      BY <1>1, <1>2, <1>3, <1>6, <1>8, <2>2, OpenWaits
    <2>4. QED
      BY <1>4, <1>7, <2>1, <2>3
  <1>9. CASE Abort
    <2>1. PICK i \in batch : IsOldest(i) /\ Take(i) /\ rejected' = rejected \cup {i}
      BY <1>9 DEF Abort
    <2>2. wpc = "batch" /\ wpc' \in Repaying /\ UNCHANGED <<wallet, dbVars>>
      BY <1>9 DEF Abort, Repaying
    <2>3. Handled' = Handled \cup {i}
      BY <2>1, <2>2 DEF Handled, Committed, dbVars
    <2>4. T = S
      BY <1>1, <1>2, <1>3, <1>6, <2>1, <2>2, <2>3, OpenTaken
    <2>5. QED
      BY <1>4, <1>7, <2>2, <2>4 DEF dbVars
  <1>10. CASE Commit
    <2>1. PICK i \in batch : IsOldest(i) /\ Settleable(log[i]) /\ Book(i) /\ Take(i)
      BY <1>10 DEF Commit
    <2>2. wpc = "batch" /\ wpc' = "ack" /\ rejected' = rejected /\ wallet' = wallet
      BY <1>10 DEF Commit
    <2>3. Handled' = Handled \cup {i}
      BY <1>1, <2>1, <2>2, BookAdds DEF Handled
    <2>4. i \in S /\ i \in DOMAIN log /\ T = S \ {i}
      BY <1>1, <1>2, <1>3, <1>6, <2>1, <2>2, <2>3, OpenTaken
    <2>5. /\ Purse(u, T)' = Purse(u, S) + (Counter(wallet[u])' - Counter(wallet[u]))
                             - Cost(log[i], u)
          /\ Cost(log[i], u) \in Int
      BY <1>1, <1>5, <2>4, TaskPurse
    <2>6. Counter(dbBalance[u])' = Counter(dbBalance[u]) - Cost(log[i], u)
      BY <2>1, <2>4, BookedMoney DEF Book, Settleable
    <2>7. Counter(wallet[u])' = Counter(wallet[u])
      BY <2>2
    <2>8. QED
      BY <1>4, <1>5, <2>5, <2>6, <2>7
  <1>11. ASSUME UNCHANGED <<log, history, cur, rejected, dbBalance>>,
                wpc \in Repaying, wpc' \notin Repaying,
                Counter(wallet[u])' \in {Counter(wallet[u]), Counter(wallet[u]) + Cost(log[cur], u)}
         PROVE  Purse(u, Open(Repaying))' <= Counter(dbBalance[u])'
    <2>1. cur \in S /\ T = S \ {cur}
      BY <1>1, <1>2, <1>3, <1>6, <1>11, OpenGone
    <2>2. cur \in rejected
      BY <1>11 DEF Repaying, InHand
    <2>3. Cost(log[cur], u) \in Int /\ Cost(log[cur], u) >= 0
      BY <1>1, <2>2, RefusedCosts
    <2>4. Purse(u, T)' = Purse(u, S) + (Counter(wallet[u])' - Counter(wallet[u]))
                           - Cost(log[cur], u)
      BY <1>1, <1>5, <2>1, TaskPurse
    <2>5. Counter(dbBalance[u])' = Counter(dbBalance[u])
      BY <1>11
    <2>6. QED
      BY <1>4, <1>5, <1>11, <2>3, <2>4, <2>5
  <1>12. CASE RefundWallet
    <2>1. UNCHANGED <<log, history, cur, rejected, dbBalance>>
          /\ wpc \in Repaying /\ wpc' \notin Repaying
      BY <1>1, <1>12 DEF RefundWallet, dbVars, Repaying
    <2>2. QED
      BY <1>11, <1>12, <2>1, Repaid
  <1>13. CASE Exit
    <2>1. /\ UNCHANGED <<log, history, cur, rejected, dbBalance, wallet>> /\ wpc' \notin Repaying
      BY <1>13 DEF Exit, dbVars, streamVars, cacheVars, Repaying
    <2>2. Counter(wallet[u])' = Counter(wallet[u])
      BY <2>1
    <2>3. wpc \notin Repaying => T = S
      BY <1>2, <1>3, <2>1 DEF Open, Handled, Committed
    <2>4. QED
      BY <1>4, <1>7, <1>11, <2>1, <2>2, <2>3
  <1>14. CASE Signal \/ GracefulStop \/ Restart
    <2>1. UNCHANGED <<log, history, rejected, dbBalance, wallet>>
      BY <1>14 DEF Signal, GracefulStop, Restart, dbVars, streamVars, cacheVars, workerVars
    <2>2. T = S
      <3>1. CASE wpc' = wpc /\ cur' = cur
        BY <1>2, <1>3, <2>1, <3>1 DEF Open, Handled, Committed
      <3>2. CASE Restart
        <4>1. wpc = "down" /\ wpc' = "loop"
          BY <3>2 DEF Restart, InHand
        <4>2. QED
          BY <1>2, <1>3, <2>1, <4>1 DEF Open, Handled, Committed, Repaying
      <3>3. QED
        BY <1>14, <3>1, <3>2 DEF Signal, GracefulStop, workerVars
    <2>3. QED
      BY <1>4, <1>7, <2>1, <2>2
  <1>15. ~CommitLost /\ ~Crash
    BY DEF CommitLost, Crash
  <1>16. QED
    BY <1>8, <1>9, <1>10, <1>12, <1>13, <1>14, <1>15
       DEF WorkerStep, WorkerNext, Settle, Process

\* Neither does a call.
LEMMA PurseLowStep ==
  ASSUME Prepared, InHand, NoDoubles, {"redis", "rerun"} \cap Faults = {}, "crash" \notin Faults,
         ReachTimes \subseteq {0, 1}, PricesWhole, WalletsWhole, PickupsRefused, PurseLow,
         [Next]_vars
  PROVE  PurseLow' /\ Prepared'
  <1>1. Prepared'
    BY InductiveStep, AddedUpStep, AsPricedStep DEF Prepared
  <1>2. ASSUME NEW u \in Users
        PROVE  Purse(u, Open(Repaying))' <= Counter(dbBalance[u])'
    <2>1. Purse(u, Open(Repaying)) <= Counter(dbBalance[u])
      BY DEF PurseLow
    <2>2. PICK S \in SUBSET DOMAIN log : S = Open(Repaying)
      BY DEF Open
    <2>3. PICK T : T = Open(Repaying)'
      OBVIOUS
    <2>4. Purse(u, Open(Repaying))' = Purse(u, T)'
      BY <2>3 DEF Purse, TaskMoney
    <2>5. CASE \E r \in Requests : (Begin(r) \/ Call(r)) /\ UNCHANGED <<dbVars, workerVars>>
      <3>1. PICK r \in Requests : (Begin(r) \/ Call(r)) /\ UNCHANGED <<dbVars, workerVars>>
        BY <2>5
      <3>2. T = S \cup (IF log' = log THEN {} ELSE {Len(log) + 1})
        <4>1. CASE log' = log
          <5>1. Repaying \in SUBSET Refunding
            BY DEF Repaying, Refunding
          <5>2. T = S
            BY <2>2, <2>3, <3>1, <4>1, <5>1, OpenWaits DEF Prepared
          <5>3. QED
            BY <4>1, <5>2
        <4>2. CASE log' # log
          <5>1. XAdd(r)
            BY <3>1, <4>2, CallFrame DEF Prepared
          <5>2. T = S \cup {Len(log) + 1}
            BY <2>2, <2>3, <3>1, <5>1, OpenAdds DEF Prepared
          <5>3. QED
            BY <4>2, <5>2
        <4>3. QED
          BY <4>1, <4>2
      <3>3. Purse(u, T)' = Purse(u, S)
        <4>1. T \in SUBSET (S \cup (IF log' = log THEN {} ELSE {Len(log) + 1}))
          BY <3>2
        <4>2. QED
          BY <1>1, <3>1, <3>2, <4>1, CallPurse DEF WalletsWhole
      <3>4. QED
        BY <2>1, <2>2, <2>4, <3>1, <3>3 DEF dbVars
    <2>6. CASE WorkerStep \/ Process
      BY <1>1, <2>1, <2>6, OthersPurseLow DEF NoDoubles
    <2>7. CASE UNCHANGED <<gatewayVars, log, wallet, dbVars, workerVars>>
      <3>1. T = S
        BY <2>2, <2>3, <2>7 DEF Open, Handled, Committed, workerVars, dbVars
      <3>2. Purse(u, T)' = Purse(u, S)
        BY <2>7, <3>1, SamePurse
      <3>3. QED
        BY <2>1, <2>2, <2>4, <2>7, <3>2 DEF dbVars
    <2>8. (\E v \in Users : Expire(v)) => UNCHANGED <<gatewayVars, log, wallet>>
      BY DEF Expire
    <2>9. UNCHANGED vars => UNCHANGED <<gatewayVars, log, wallet, dbVars, workerVars>>
      BY DEF vars, cacheVars, streamVars
    <2>10. QED
      BY <2>5, <2>6, <2>7, <2>8, <2>9 DEF Next, GatewayStep, GatewayNext
  <1>3. QED
    BY <1>1, <1>2 DEF PurseLow

-----------------------------------------------------------------------------
\* The tasks that are younger than everything that has its outcome.
Ahead == {i \in DOMAIN log : \A h \in Handled : h < i}

\* Whatever has no outcome up to one of these tasks, the balance can bear it.
FundsAhead ==
  \A u \in Users : \A i \in Ahead :
    TaskMoney(u, Open(Repaying) \cap 1..i) <= Counter(dbBalance[u])

\* Calls hold no less than nothing.
LEMMA HeldStockUp ==
  ASSUME Inductive, NEW p \in Products
  PROVE  HeldStock(p) \in Int /\ HeldStock(p) >= 0
  <1> DEFINE f == [s \in Requests |-> StockOf(s, p)]
  <1>1. HeldStock(p) = SumFunctionOnSet(f, Requests)
    BY DEF HeldStock, SumFunction
  <1>2. \A s \in Requests : f[s] \in Int /\ f[s] >= 0
    BY StockOfTypes
  <1>3. {} \in SUBSET Requests
    OBVIOUS
  <1> HIDE DEF f
  <1>4. SumFunctionOnSet(f, {}) <= SumFunctionOnSet(f, Requests)
    BY <1>2, <1>3, CallsAssumption, SumOfPart
  <1>5. SumFunctionOnSet(f, Requests) \in Int
    BY <1>2, CallsAssumption, SumInt
  <1>6. QED
    BY <1>1, <1>4, <1>5, SumNone

\* The goods for a task that the worker comes to are there.
LEMMA GoodsAreThere ==
  ASSUME Inductive, StocksUp, StockCovered, NEW i \in Live, log[i].kind = "pickup"
  PROVE  dbStock[log[i].product] >= log[i].qty
  <1>1. i \in DOMAIN log /\ Live \in SUBSET DOMAIN log
    BY DEF Live
  <1>2. log[i] \in Task
    BY <1>1, CallTypes
  <1>3. PICK p \in Products : p = log[i].product
    BY <1>2 DEF Task
  <1>4. Taken(log[i], p) = log[i].qty /\ log[i].qty \in Int
    BY <1>2, <1>3 DEF Taken, Task
  <1>5. TaskStock(p, Live) = Taken(log[i], p) + TaskStock(p, Live \ {i})
    BY <1>1, FewerTasks
  <1>6. TaskStock(p, Live \ {i}) >= 0 /\ TaskStock(p, Live \ {i}) \in Int
    <2>1. Live \ {i} \in SUBSET DOMAIN log /\ {} \in SUBSET (Live \ {i})
      BY <1>1
    <2>2. TaskStock(p, {}) <= TaskStock(p, Live \ {i})
      BY <2>1, FewerTasks
    <2>3. TaskStock(p, {}) = 0
      BY SumNone DEF TaskStock
    <2>4. QED
      BY <2>1, <2>2, <2>3, TaskTypes
  <1>7. stock[p] + HeldStock(p) + TaskStock(p, Live) <= dbStock[p]
    BY DEF StockCovered
  <1>8. stock[p] \in Int /\ stock[p] >= 0 /\ dbStock[p] \in Int
    BY CartTypes DEF StocksUp
  <1>9. HeldStock(p) \in Int /\ HeldStock(p) >= 0
    BY HeldStockUp
  <1>10. QED
    BY <1>3, <1>4, <1>5, <1>6, <1>7, <1>8, <1>9

\* The money for a pickup that the worker comes to is there, unless an older return of
\* its member has no outcome.
LEMMA MoneyIsThere ==
  ASSUME Prepared, FundsAhead, RowsThere, wpc = "batch", cur = 0, NEW i \in Ahead,
         log[i].kind = "pickup", i \notin Handled, dbBalance[log[i].user] < log[i].amount
  PROVE  \E j \in DOMAIN log \ Handled :
           j < i /\ log[j].user = log[i].user /\ log[j].kind = "return"
  <1>t. Inductive /\ i \in DOMAIN log /\ DOMAIN log = 1..Len(log) /\ Len(log) \in Nat
    BY CallTypes DEF Prepared, Ahead
  <1>1. log[i] \in Task
    BY <1>t, CallTypes
  <1>2. PICK u \in Users : u = log[i].user
    BY <1>1 DEF Task
  <1> DEFINE S == Open(Repaying) \cap 1..i
             R == S \ {i}
             f == TasksCost(u)
  <1>3. Open(Repaying) = DOMAIN log \ Handled /\ S \in SUBSET DOMAIN log
    BY <1>t DEF Open, Repaying
  <1>4. i \in S /\ R \in SUBSET DOMAIN log /\ IsFiniteSet(R)
    BY <1>t, <1>3, CostTypes, <1>2 DEF Prepared
  <1>5. TaskMoney(u, S) <= Counter(dbBalance[u])
    BY DEF FundsAhead
  <1>6. TaskMoney(u, S) = Cost(log[i], u) + TaskMoney(u, R)
    BY <1>t, <1>3, <1>4, FewerCosts DEF Prepared
  <1>7. Cost(log[i], u) = log[i].amount /\ log[i].amount \in Int
    <2>1. log[i].amount \in Int
      BY <1>1 DEF Task
    <2>2. -(-1) * log[i].amount = log[i].amount
      BY <2>1
    <2>3. QED
      BY <1>2, <2>1, <2>2 DEF Cost, Sign
  <1>8. Counter(dbBalance[u]) = dbBalance[u] /\ dbBalance[u] \in Int
    BY <1>t DEF Counter, RowsThere, Inductive, TypeOK, StoreTypeOK
  <1>9. TaskMoney(u, R) \in Int
    BY <1>4, CostTypes DEF Prepared
  <1>10. TaskMoney(u, R) < 0
    BY <1>2, <1>5, <1>6, <1>7, <1>8, <1>9
  <1>11. SUFFICES ASSUME \A j \in R : ~(log[j].user = u /\ log[j].kind = "return")
                  PROVE  FALSE
    <2>1. \A j \in R : j \in DOMAIN log \ Handled /\ j < i
      BY <1>t, <1>3
    <2>2. QED
      BY <1>2, <1>11, <2>1
  <1>12. \A j \in R : f[j] \in Int /\ f[j] >= 0
    <2> SUFFICES ASSUME NEW j \in R
                 PROVE  f[j] \in Int /\ f[j] >= 0
      OBVIOUS
    <2>1. j \in DOMAIN log /\ log[j] \in Task
      BY <1>4, <1>t, CallTypes
    <2>2. f[j] = Cost(log[j], u)
      BY <2>1, CostTypes DEF Prepared
    <2>3. log[j].amount \in Int /\ log[j].amount >= 0 /\ log[j].kind \in {"pickup", "return"}
      BY <1>t, <2>1 DEF Task, Inductive, QuantitiesPositive
    <2>4. Cost(log[j], u) \in {0, -(-1) * log[j].amount}
      BY <1>11, <2>3 DEF Cost, Sign
    <2>5. -(-1) * log[j].amount = log[j].amount
      BY <2>3
    <2>6. QED
      BY <2>2, <2>3, <2>4, <2>5
  <1>13. {} \in SUBSET R
    OBVIOUS
  <1>14. TaskMoney(u, R) = SumFunctionOnSet(f, R)
    BY DEF TaskMoney
  <1> HIDE DEF f, R
  <1>15. SumFunctionOnSet(f, {}) <= SumFunctionOnSet(f, R)
    BY <1>4, <1>12, <1>13, SumOfPart
  <1>16. QED
    BY <1>9, <1>10, <1>14, <1>15, SumNone

\* So the worker turns down a pickup only for want of a return that it has passed over.
LEMMA TurnedDownForReturn ==
  ASSUME Prepared, InHand, FundsAhead, RowsThere, TasksKnown, StocksUp, StockCovered,
         wpc = "batch", NEW i \in batch, IsOldest(i), ~Settleable(log[i])
  PROVE  /\ i \in Ahead /\ log[i].kind = "pickup"
         /\ \E j \in DOMAIN log \ Handled :
              j < i /\ log[j].user = log[i].user /\ log[j].kind = "return"
  <1>1. i \in DOMAIN log /\ Inductive /\ cur = 0
    BY DEF Prepared, Inductive, TypeOK, WorkerTypeOK, InHand
  <1>2. i \in Ahead /\ i \notin Handled /\ i \in Live
    <2>1. i \in Ahead
      BY <1>1 DEF Inductive, Frontier, Ahead
    <2>2. i \notin Handled
      BY <1>1, <2>1, CallTypes DEF Ahead
    <2>3. QED
      BY <1>1, <2>1, <2>2 DEF Live
  <1>3. log[i] \in Task
    BY <1>1, CallTypes
  <1>4. ProductExists(log[i]) /\ MemberExists(log[i])
    BY <1>1, <1>3 DEF TasksKnown, RowsThere, MemberExists, Task
  <1>5. log[i].kind = "pickup"
    BY <1>4 DEF Settleable, WithinLimits
  <1>6. dbStock[log[i].product] >= log[i].qty
    BY <1>1, <1>2, <1>5, GoodsAreThere
  <1>7. dbBalance[log[i].user] < log[i].amount
    <2>1. ~(dbBalance[log[i].user] >= log[i].amount)
      BY <1>4, <1>5, <1>6 DEF Settleable, WithinLimits
    <2>2. dbBalance[log[i].user] \in Int /\ log[i].amount \in Int
      BY <1>1, <1>3 DEF RowsThere, Task, Inductive, TypeOK, StoreTypeOK
    <2>3. QED
      BY <2>1, <2>2
  <1>8. QED
    BY <1>1, <1>2, <1>5, <1>7, MoneyIsThere

-----------------------------------------------------------------------------
\* What a step does to the tasks that still count for a wallet, and to the balances.
LEMMA OpenMoves ==
  ASSUME Prepared, InHand, "commit" \notin Faults, "crash" \notin Faults, [Next]_vars,
         NEW S, S = Open(Repaying), NEW T, T = Open(Repaying)'
  PROVE  \/ UNCHANGED <<log, dbBalance>> /\ T = S
         \/ \E r \in Requests : XAdd(r) /\ dbBalance' = dbBalance /\ T = S \cup {Len(log) + 1}
         \/ \E k \in S : /\ log' = log /\ T = S \ {k} /\ k \in Handled'
                         /\ \A u \in Users :
                              Counter(dbBalance[u])' = Counter(dbBalance[u]) - Cost(log[k], u)
         \/ UNCHANGED <<log, dbBalance>> /\ cur \in S \cap rejected /\ T = S \ {cur}
  <1>1. Inductive /\ Repaying \in SUBSET Refunding /\ S \in SUBSET DOMAIN log
    BY DEF Prepared, Repaying, Refunding, Open
  <1>2. ASSUME NEW r \in Requests, Begin(r) \/ Call(r), UNCHANGED <<dbVars, workerVars>>
        PROVE  \/ UNCHANGED <<log, dbBalance>> /\ T = S
               \/ XAdd(r) /\ dbBalance' = dbBalance /\ T = S \cup {Len(log) + 1}
    <2>1. CASE log' = log
      <3>1. T = S
        BY <1>1, <1>2, <2>1, OpenWaits
      <3>2. QED
        BY <1>2, <2>1, <3>1 DEF dbVars
    <2>2. CASE log' # log
      <3>1. XAdd(r)
        BY <1>1, <1>2, <2>2, CallFrame
      <3>2. T = S \cup {Len(log) + 1}
        BY <1>1, <1>2, <3>1, OpenAdds
      <3>3. QED
        BY <1>2, <3>1, <3>2 DEF dbVars
    <2>3. QED
      BY <2>1, <2>2
  <1>3. CASE UNCHANGED <<log, history, cur, rejected, dbBalance, wpc>>
    BY <1>3 DEF Open, Handled, Committed
  <1>4. CASE GatewayStep \/ UNCHANGED vars
    <2>1. (\E v \in Users : Expire(v)) => UNCHANGED log
      BY DEF Expire
    <2>2. QED
      BY <1>2, <1>3, <1>4, <2>1 DEF GatewayStep, GatewayNext, vars, workerVars, dbVars, streamVars
  <1>5. CASE WorkerStep
    <2>1. log' = log
      BY <1>5 DEF WorkerStep, WorkerNext
    <2>2. CASE StartRead \/ Deliver \/ ReadNil \/ ReadError \/ Stop \/ Ack \/ RefundStock
      <3>1. dbBalance' = dbBalance
        BY <2>2 DEF StartRead, Deliver, ReadNil, ReadError, Stop, Ack, RefundStock, dbVars
      <3>2. "refundStock" \notin Repaying
        BY DEF Repaying
      <3>3. T = S
        BY <1>1, <2>1, <2>2, <3>2, OpenWaits
      <3>4. QED
        BY <2>1, <3>1, <3>3
    <2>3. CASE Abort
      <3>1. PICK i \in batch : IsOldest(i) /\ Take(i) /\ rejected' = rejected \cup {i}
        BY <2>3 DEF Abort
      <3>2. wpc = "batch" /\ wpc' \in Repaying /\ UNCHANGED dbVars
        BY <2>3 DEF Abort, Repaying
      <3>3. Handled' = Handled \cup {i}
        BY <3>1, <3>2 DEF Handled, Committed, dbVars
      <3>4. T = S
        BY <1>1, <2>1, <3>1, <3>2, <3>3, OpenTaken
      <3>5. QED
        BY <2>1, <3>2, <3>4 DEF dbVars
    <2>4. CASE Commit
      <3>1. PICK i \in batch : IsOldest(i) /\ Settleable(log[i]) /\ Book(i) /\ Take(i)
        BY <2>4 DEF Commit
      <3>2. wpc = "batch" /\ wpc' = "ack" /\ rejected' = rejected
        BY <2>4 DEF Commit
      <3>3. Handled' = Handled \cup {i}
        BY <1>1, <3>1, <3>2, BookAdds DEF Handled
      <3>4. i \in S /\ i \in DOMAIN log /\ T = S \ {i}
        BY <1>1, <2>1, <3>1, <3>2, <3>3, OpenTaken
      <3>5. \A u \in Users : Counter(dbBalance[u])' = Counter(dbBalance[u]) - Cost(log[i], u)
        BY <3>1, <3>4, BookedMoney DEF Book, Settleable
      <3>6. QED
        BY <2>1, <3>3, <3>4, <3>5
    <2>5. CASE RefundWallet
      <3>1. UNCHANGED <<log, history, cur, rejected, dbBalance>>
            /\ wpc \in Repaying /\ wpc' \notin Repaying
        BY <2>1, <2>5 DEF RefundWallet, dbVars, Repaying
      <3>2. cur \in S /\ T = S \ {cur}
        BY <1>1, <3>1, OpenGone
      <3>3. QED
        BY <3>1, <3>2 DEF Repaying, InHand
    <2>6. ~CommitLost
      BY DEF CommitLost
    <2>7. QED
      BY <1>5, <2>2, <2>3, <2>4, <2>5, <2>6 DEF WorkerStep, WorkerNext, Settle
  <1>6. CASE Exit
    <2>1. UNCHANGED <<log, history, cur, rejected, dbBalance>> /\ wpc' \notin Repaying
      BY <1>6 DEF Exit, dbVars, streamVars, Repaying
    <2>2. wpc \notin Repaying => T = S
      BY <2>1 DEF Open, Handled, Committed
    <2>3. wpc \in Repaying => cur \in S /\ T = S \ {cur} /\ cur \in rejected
      BY <1>1, <2>1, OpenGone DEF Repaying, InHand
    <2>4. QED
      BY <2>1, <2>2, <2>3
  <1>7. CASE Signal \/ GracefulStop
    BY <1>3, <1>7 DEF Signal, GracefulStop, dbVars, streamVars, workerVars
  <1>8. CASE Restart
    <2>1. UNCHANGED <<log, history, rejected, dbBalance>> /\ wpc' = "loop"
      BY <1>8 DEF Restart, dbVars, streamVars
    <2>2. wpc = "down"
      BY <1>8 DEF Restart, InHand
    <2>3. QED
      BY <2>1, <2>2 DEF Open, Handled, Committed, Repaying
  <1>9. ~Crash
    BY DEF Crash
  <1>10. QED
    BY <1>4, <1>5, <1>6, <1>7, <1>8, <1>9 DEF Next, Process

\* The new task finds the wallet and the balance agreeing; behind the others, whatever
\* got its outcome was older and has paid or brought what it was worth.
LEMMA FundsAheadStep ==
  ASSUME Prepared, Prepared', InHand, "commit" \notin Faults, "crash" \notin Faults,
         PickupsRefused, FundsAhead, PurseLow', Solvent', [Next]_vars
  PROVE  FundsAhead'
  <1> SUFFICES ASSUME NEW u \in Users, NEW i \in Ahead'
               PROVE  TaskMoney(u, Open(Repaying) \cap 1..i)' <= Counter(dbBalance[u])'
    BY DEF FundsAhead
  <1>s. PICK S \in SUBSET DOMAIN log : S = Open(Repaying)
    BY DEF Open
  <1>r. PICK T : T = Open(Repaying)'
    OBVIOUS
  <1>1. /\ Inductive /\ DOMAIN log = 1..Len(log) /\ Len(log) \in Nat
        /\ i \in DOMAIN log' /\ \A h \in Handled' : h < i
    BY CallTypes DEF Prepared, Ahead
  <1>2. S \in SUBSET DOMAIN log /\ T \in SUBSET DOMAIN log'
    BY <1>r DEF Open
  <1>3. \A h \in Handled : h < i
    BY <1>1, HandledGrows
  <1>4. /\ Counter(dbBalance[u]) \in Int /\ Counter(dbBalance[u])' \in Int
        /\ \A R \in SUBSET DOMAIN log : TaskMoney(u, R) \in Int
    BY PurseTypes DEF PursesTyped
  <1>5. i \in DOMAIN log => TaskMoney(u, S \cap 1..i) <= Counter(dbBalance[u])
    BY <1>s, <1>3 DEF FundsAhead, Ahead
  <1>6. ASSUME log' = log, NEW R
        PROVE  TaskMoney(u, R)' = TaskMoney(u, R)
    BY <1>6 DEF TaskMoney, TasksCost
  <1>7. ASSUME UNCHANGED <<log, dbBalance>>, T = S
        PROVE  TaskMoney(u, T \cap 1..i)' <= Counter(dbBalance[u])'
    <2>1. TaskMoney(u, S \cap 1..i)' = TaskMoney(u, S \cap 1..i)
      BY <1>6, <1>7
    <2>2. QED
      BY <1>1, <1>5, <1>7, <2>1
  <1>8. ASSUME log' = log, NEW k \in S, T = S \ {k}, k < i
        PROVE  /\ TaskMoney(u, T \cap 1..i)' = TaskMoney(u, S \cap 1..i) - Cost(log[k], u)
               /\ TaskMoney(u, S \cap 1..i) \in Int /\ Cost(log[k], u) \in Int
               /\ TaskMoney(u, S \cap 1..i) <= Counter(dbBalance[u])
    <2> DEFINE R == S \cap 1..i
    <2>1. k \in DOMAIN log /\ k \in R /\ R \in SUBSET DOMAIN log /\ T \cap 1..i = R \ {k}
      BY <1>1, <1>2, <1>8
    <2> HIDE DEF R
    <2>2. TaskMoney(u, R) = Cost(log[k], u) + TaskMoney(u, R \ {k})
      BY <1>1, <2>1, FewerCosts DEF Prepared
    <2>3. Cost(log[k], u) \in Int
      BY <1>1, <2>1, CostTypes DEF Prepared
    <2>4. R \ {k} \in SUBSET DOMAIN log
      BY <2>1
    <2>5. TaskMoney(u, R) \in Int /\ TaskMoney(u, R \ {k}) \in Int
      BY <1>4, <2>1, <2>4
    <2>6. TaskMoney(u, R \ {k})' = TaskMoney(u, R \ {k})
      BY <1>6, <1>8
    <2>7. TaskMoney(u, T \cap 1..i)' = TaskMoney(u, R \ {k})'
      BY <2>1
    <2>8. QED
      BY <1>1, <1>5, <1>8, <2>2, <2>3, <2>5, <2>6, <2>7 DEF R
  <1>9. ASSUME NEW r \in Requests, XAdd(r), dbBalance' = dbBalance, T = S \cup {Len(log) + 1}
        PROVE  TaskMoney(u, T \cap 1..i)' <= Counter(dbBalance[u])'
    <2>1. DOMAIN log' = 1..(Len(log) + 1) /\ \A j \in DOMAIN log : log'[j] = log[j]
      <3>1. DOMAIN log' = DOMAIN log \cup {Len(log) + 1} /\ \A j \in DOMAIN log : log'[j] = log[j]
        BY <1>1, <1>9, Added
      <3>2. 1..Len(log) \cup {Len(log) + 1} = 1..(Len(log) + 1)
        BY <1>1
      <3>3. QED
        BY <1>1, <3>1, <3>2
    <2>2. CASE i = Len(log) + 1
      <3>1. T \cap 1..i = T
        BY <1>2, <2>1, <2>2
      <3>2. Purse(u, T)' <= Counter(dbBalance[u])'
        BY <1>r DEF PurseLow
      <3>3. (Counter(wallet[u]) + HeldMoney(u))' >= 0
        BY DEF Solvent
      <3>4. /\ Purse(u, T)' = (Counter(wallet[u]) + HeldMoney(u))' + TaskMoney(u, T)'
            /\ Counter(wallet[u])' \in Int /\ HeldMoney(u)' \in Int /\ TaskMoney(u, T)' \in Int
        BY <1>2, PurseTypes DEF PursesTyped, Purse
      <3>5. QED
        BY <1>4, <3>1, <3>2, <3>3, <3>4
    <2>3. CASE i \in DOMAIN log
      <3> DEFINE R == S \cap 1..i
      <3>1. T \cap 1..i = R /\ R \in SUBSET DOMAIN log /\ IsFiniteSet(R)
        <4>1. R \in SUBSET DOMAIN log /\ T \cap 1..i = R
          BY <1>1, <1>2, <1>9, <2>3
        <4>2. QED
          BY <1>1, <4>1, CostTypes DEF Prepared
      <3> HIDE DEF R
      <3>2. TaskMoney(u, R)' = TaskMoney(u, R)
        <4>1. \A x \in R : x \in DOMAIN log /\ x \in DOMAIN log' /\ log'[x] = log[x]
          BY <1>1, <2>1, <3>1
        <4>2. PICK f, g : f = TasksCost(u) /\ g = TasksCost(u)'
          OBVIOUS
        <4>3. \A x \in R : g[x] = f[x]
          BY <4>1, <4>2 DEF TasksCost, Sign
        <4>4. SumFunctionOnSet(g, R) = SumFunctionOnSet(f, R)
          BY <3>1, <4>3, SumSame
        <4>5. QED
          BY <4>2, <4>4 DEF TaskMoney
      <3>3. TaskMoney(u, R) <= Counter(dbBalance[u])
        BY <1>5, <2>3 DEF R
      <3>4. TaskMoney(u, T \cap 1..i)' = TaskMoney(u, R)'
        BY <3>1
      <3>5. QED
        BY <1>9, <3>2, <3>3, <3>4
    <2>4. QED
      BY <1>1, <2>1, <2>2, <2>3
  <1>10. ASSUME log' = log, NEW k \in S, T = S \ {k}, k \in Handled',
                Counter(dbBalance[u])' = Counter(dbBalance[u]) - Cost(log[k], u)
         PROVE  TaskMoney(u, T \cap 1..i)' <= Counter(dbBalance[u])'
    <2>1. k < i
      BY <1>1, <1>10
    <2>2. /\ TaskMoney(u, T \cap 1..i)' = TaskMoney(u, S \cap 1..i) - Cost(log[k], u)
          /\ TaskMoney(u, S \cap 1..i) \in Int /\ Cost(log[k], u) \in Int
          /\ TaskMoney(u, S \cap 1..i) <= Counter(dbBalance[u])
      BY <1>8, <1>10, <2>1
    <2>3. QED
      BY <1>4, <1>10, <2>2
  <1>11. ASSUME UNCHANGED <<log, dbBalance>>, cur \in S \cap rejected, T = S \ {cur}
         PROVE  TaskMoney(u, T \cap 1..i)' <= Counter(dbBalance[u])'
    <2>1. cur < i
      BY <1>3, <1>11 DEF Handled
    <2>2. Cost(log[cur], u) >= 0
      BY <1>1, <1>11, RefusedCosts
    <2>3. Counter(dbBalance[u])' = Counter(dbBalance[u])
      BY <1>11
    <2>4. /\ TaskMoney(u, T \cap 1..i)' = TaskMoney(u, S \cap 1..i) - Cost(log[cur], u)
          /\ TaskMoney(u, S \cap 1..i) \in Int /\ Cost(log[cur], u) \in Int
          /\ TaskMoney(u, S \cap 1..i) <= Counter(dbBalance[u])
      BY <1>8, <1>11, <2>1
    <2>5. QED
      BY <1>4, <2>2, <2>3, <2>4
  <1>12. \/ UNCHANGED <<log, dbBalance>> /\ T = S
         \/ \E r \in Requests : XAdd(r) /\ dbBalance' = dbBalance /\ T = S \cup {Len(log) + 1}
         \/ \E k \in S : /\ log' = log /\ T = S \ {k} /\ k \in Handled'
                         /\ Counter(dbBalance[u])' = Counter(dbBalance[u]) - Cost(log[k], u)
         \/ UNCHANGED <<log, dbBalance>> /\ cur \in S \cap rejected /\ T = S \ {cur}
    BY <1>s, <1>r, OpenMoves
  <1>13. TaskMoney(u, Open(Repaying) \cap 1..i)' = TaskMoney(u, T \cap 1..i)'
    BY <1>r
  <1>14. QED
    BY <1>7, <1>9, <1>10, <1>11, <1>12, <1>13

-----------------------------------------------------------------------------
\* A return that a pickup was waiting for and that was passed over stays passed over.
LEMMA GateSoundStep ==
  ASSUME Prepared, InHand, {"db", "commit"} \cap Faults = {}, PickupsRefused, FundsAhead,
         RowsThere, TasksKnown, StocksUp, StockCovered, GateSound, [Next]_vars
  PROVE  PickupsRefused' /\ GateSound'
  <1>1. Inductive /\ DOMAIN log = 1..Len(log) /\ rejected \subseteq DOMAIN log
    BY CallTypes DEF Prepared, Inductive, TypeOK, WorkerTypeOK
  <1>2. \A i \in DOMAIN log : i \in DOMAIN log' /\ log'[i] = log[i]
    <2>1. CASE log' = log
      BY <2>1
    <2>2. CASE log' # log
      <3>1. PICK r \in Requests : XAdd(r)
        BY <1>1, <2>2, CallFrame, OtherSteps
      <3>2. QED
        BY <1>1, <3>1, Added
    <2>3. QED
      BY <2>1, <2>2
  <1>3. CASE Handled' = Handled /\ rejected' = rejected
    BY <1>1, <1>2, <1>3 DEF PickupsRefused, GateSound
  <1>4. ASSUME NEW k \in batch, wpc = "batch", Handled' = Handled \cup {k},
               \/ rejected' = rejected
               \/ rejected' = rejected \cup {k} /\ IsOldest(k) /\ ~Settleable(log[k])
        PROVE  PickupsRefused' /\ GateSound'
    <2>1. k \in DOMAIN log /\ \A h \in Handled : h < k
      BY <1>1, <1>4 DEF Inductive, Frontier, TypeOK, WorkerTypeOK
    <2>2. \A i \in rejected :
            /\ i \in DOMAIN log /\ log'[i].kind = "pickup"
            /\ \E j \in DOMAIN log' \ Handled' :
                 j < i /\ log'[j].user = log'[i].user /\ log'[j].kind = "return"
      <3> SUFFICES ASSUME NEW i \in rejected
                   PROVE  /\ i \in DOMAIN log /\ log'[i].kind = "pickup"
                          /\ \E j \in DOMAIN log' \ Handled' :
                               j < i /\ log'[j].user = log'[i].user /\ log'[j].kind = "return"
        OBVIOUS
      <3>1. i \in DOMAIN log /\ i < k
        BY <1>1, <2>1 DEF Handled
      <3>2. PICK j \in DOMAIN log \ Handled :
              j < i /\ log[j].user = log[i].user /\ log[j].kind = "return"
        BY DEF GateSound
      <3>3. j # k
        BY <1>1, <2>1, <3>1, <3>2
      <3>4. QED
        BY <1>2, <1>4, <3>1, <3>2, <3>3 DEF PickupsRefused
    <2>3. CASE rejected' = rejected
      BY <2>2, <2>3 DEF PickupsRefused, GateSound
    <2>4. CASE rejected' = rejected \cup {k} /\ IsOldest(k) /\ ~Settleable(log[k])
      <3>1. log[k].kind = "pickup"
        BY <1>4, <2>4, TurnedDownForReturn
      <3>2. PICK j \in DOMAIN log \ Handled :
              j < k /\ log[j].user = log[k].user /\ log[j].kind = "return"
        BY <1>4, <2>4, TurnedDownForReturn
      <3>3. j \in DOMAIN log' \ Handled' /\ log'[j] = log[j] /\ log'[k] = log[k]
        BY <1>1, <1>2, <1>4, <2>1, <3>2
      <3>4. QED
        BY <2>2, <2>4, <3>1, <3>2, <3>3 DEF PickupsRefused, GateSound
    <2>5. QED
      BY <1>4, <2>3, <2>4
  <1>5. CASE UNCHANGED <<history, rejected>>
    BY <1>3, <1>5 DEF Handled, Committed
  <1>6. CASE WorkerStep
    <2>1. CASE Commit
      <3>1. PICK k \in batch : IsOldest(k) /\ Settleable(log[k]) /\ Book(k)
        BY <2>1 DEF Commit
      <3>2. wpc = "batch" /\ rejected' = rejected
        BY <2>1 DEF Commit
      <3>3. Handled' = Handled \cup {k}
        BY <1>1, <3>1, <3>2, BookAdds DEF Handled
      <3>4. QED
        BY <1>4, <3>2, <3>3
    <2>2. CASE Abort
      <3>1. PICK k \in batch : /\ IsOldest(k) /\ ~Settleable(log[k])
                               /\ rejected' = rejected \cup {k}
        BY <2>2 DEF Abort
      <3>2. wpc = "batch" /\ history' = history
        BY <2>2 DEF Abort, dbVars
      <3>3. Handled' = Handled \cup {k}
        BY <3>1, <3>2 DEF Handled, Committed
      <3>4. QED
        BY <1>4, <3>1, <3>2, <3>3
    <2>3. ~CommitLost
      BY DEF CommitLost
    <2>4. QED
      BY <1>5, <1>6, <2>1, <2>2, <2>3 DEF WorkerStep, WorkerNext, Settle, StartRead, Deliver,
         ReadNil, ReadError, Stop, RefundWallet, RefundStock, Ack, dbVars
  <1>7. CASE GatewayStep \/ Process \/ UNCHANGED vars
    BY <1>5, <1>7 DEF GatewayStep, GatewayNext, Process, Signal, GracefulStop, Exit, Crash,
       Restart, vars, dbVars, workerVars
  <1>8. QED
    BY <1>6, <1>7 DEF Next

\* What the gateway lets through the worker can book, unless an older return of the same
\* member was passed over: when every command counts once and no transaction fails by
\* itself, when what is returned comes first in a cart and no product comes twice, and
\* when the books start with a row for every member and no counter above its balance
\* (ExecuteOrderV2's gate against the checks under FOR UPDATE in TradeWorker.Start).
THEOREM GateIsSound ==
  ASSUME GateFaults, PricesWhole, ReturnsFirst, NamedOnce, OpensSound
  PROVE  Spec => []GateSound
  <1> DEFINE Kept == /\ Prepared /\ InHand /\ LockHeld /\ WalletsWhole /\ StocksUp
                     /\ PickupsRefused /\ WalletsUp /\ Spared /\ RowsThere /\ TasksKnown
                     /\ PurseLow /\ GateSound
  <1>1. /\ NoDoubles /\ {"redis", "rerun"} \cap Faults = {}
        /\ {"expiry", "db", "commit", "crash"} \cap Faults = {}
        /\ Times = {1} /\ ReachTimes \subseteq {0, 1}
    BY OnceOrNotAtAll
  <1>2. Init => Kept /\ FundsAhead
    <2> SUFFICES ASSUME Init
                 PROVE  Kept /\ FundsAhead
      OBVIOUS
    <2>1. Prepared /\ InHand /\ PurseLow
      BY PurseInit DEF PurseLow, OpensSound, OpensCovered
    <2>2. LockHeld
      BY DEF Init, GatewayInit, LockHeld, Holds, InFlight
    <2>3. WalletsWhole /\ RowsThere /\ StocksUp /\ WalletsUp
      BY OpeningAssumption DEF Init, StoreInit, WalletsWhole, RowsThere, OpensSound, StocksUp,
         WalletsUp, Counter
    <2>4. PickupsRefused /\ GateSound
      BY DEF Init, WorkerInit, PickupsRefused, GateSound
    <2>5. TasksKnown /\ FundsAhead
      BY DEF Init, StoreInit, TasksKnown, FundsAhead, Ahead
    <2>6. Spared
      BY DEF Init, GatewayInit, Spared, Owing, Pushing
    <2>7. QED
      BY <2>1, <2>2, <2>3, <2>4, <2>5, <2>6
  <1>3. Kept => Solvent
    BY HoldsSolvent
  <1>4. Kept /\ FundsAhead /\ StockCovered /\ DbNonNegative /\ [Next]_vars => Kept'
    <2> SUFFICES ASSUME Kept, FundsAhead, StockCovered, DbNonNegative, [Next]_vars
                 PROVE  Kept'
      OBVIOUS
    <2>1. InHand' /\ LockHeld' /\ RowsThere' /\ TasksKnown'
      BY <1>1, InHandStep, LockHeldStep, RowsThereStep, TasksKnownStep DEF Prepared
    <2>2. PurseLow' /\ Prepared'
      BY <1>1, PurseLowStep
    <2>3. WalletsWhole' /\ StocksUp'
      BY <1>1, WholeStep, StocksUpStep
    <2>4. WalletsUp' /\ Spared'
      BY <1>1, SparedStep
    <2>5. PickupsRefused' /\ GateSound'
      BY <1>1, GateSoundStep
    <2>6. QED
      BY <2>1, <2>2, <2>3, <2>4, <2>5
  <1>5. Kept /\ FundsAhead /\ Kept' /\ Solvent' /\ [Next]_vars => FundsAhead'
    BY <1>1, FundsAheadStep
  <1>6. Kept => GateSound
    OBVIOUS
  <1> HIDE DEF Kept
  <1>7. Spec => []StockCovered
    BY <1>1, StockIsCovered
  <1>8. QED
    BY <1>2, <1>3, <1>4, <1>5, <1>6, <1>7, BooksNonNegative, PTL DEF Spec

=============================================================================

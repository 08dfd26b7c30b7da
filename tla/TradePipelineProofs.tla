------------------------- MODULE TradePipelineProofs ------------------------
(***************************************************************************)
(* Proofs about the order pipeline, for every set of users, products,      *)
(* calls and carts and every set of faults.                                *)
(***************************************************************************)
EXTENDS TradePipeline, TLAPS

\* Truncating an amount of money gives an amount of money.
LEMMA TruncInt == \A x \in Int : Trunc(x) \in Int
  BY UnitAssumption DEF Trunc

\* A counter, read or incremented, holds a number.
LEMMA CounterInt ==
  ASSUME NEW c \in Int \cup {Absent}, NEW n \in Int, NEW k \in Int
  PROVE  Counter(c) \in Int /\ IncrBy(c, n, k) \in Int \cup {Absent}
  BY DEF Counter, IncrBy

\* How often a command takes effect is a number.
LEMMA TimesInt == Times \subseteq Int /\ ReachTimes \subseteq Int
  BY DEF Times, ReachTimes

\* What a call that has begun knows of its order.
LEMMA OrderOfCall ==
  ASSUME TypeOK, NEW r \in Requests, pc[r] # "idle"
  PROVE  /\ order[r] \in Order
         /\ order[r].user \in Users
         /\ Cart(r) \in Seq(Line)
         /\ \A k \in DOMAIN Cart(r) : Cart(r)[k] \in Line
         /\ MoreLines(r) => line[r] \in DOMAIN Cart(r)
  <1>1. order[r] \in Order
    BY DEF TypeOK, GatewayTypeOK
  <1>2. order[r].user \in Users /\ Cart(r) \in Seq(Line)
    BY <1>1, CartAssumption DEF Order, Cart
  <1>3. \A k \in DOMAIN Cart(r) : Cart(r)[k] \in Line
    BY <1>2
  <1>4. MoreLines(r) => line[r] \in DOMAIN Cart(r)
    BY <1>2 DEF TypeOK, GatewayTypeOK, MoreLines
  <1>5. QED
    BY <1>1, <1>2, <1>3, <1>4

\* A known line has numbers for its price and for what it charges and takes.
LEMMA KnownLine ==
  ASSUME NEW l \in Line, Known(l)
  PROVE  /\ Price[l.product] \in Nat
         /\ l.kind \in {"pickup", "return"}
         /\ Charge(l) \in Int
         /\ \A p \in Products : Taken(l, p) \in Int
  <1>1. Price[l.product] \in Nat /\ l.kind \in {"pickup", "return"} /\ l.qty \in Int
    BY PriceAssumption DEF Known, Line
  <1>2. Price[l.product] * l.qty \in Int
    BY <1>1
  <1>3. QED
    BY <1>1, <1>2 DEF Charge, Taken

\* A step that moves one call on, and may set its line and its answer.
LEMMA MoveCall ==
  ASSUME TypeOK, LinesKnown, NEW r \in Requests, pc[r] # "idle",
         NEW l \in Places \ {"idle", "dead"},
         NEW n \in Nat \ {0},
         NEW a \in {"none", "pending", "error"},
         pc' = [pc EXCEPT ![r] = l],
         line' = [line EXCEPT ![r] = n],
         reply' = [reply EXCEPT ![r] = a],
         order' = order,
         total' \in [Requests -> Int],
         need' \in [Requests -> [Products -> Int]],
         l = "lock" => n = 1,
         l = "price" => \A k \in DOMAIN Cart(r) : k < n => Known(Cart(r)[k]),
         l \in {"gate", "regate", "push", "repush", "undoWallet", "undoStock"} =>
           \A k \in DOMAIN Cart(r) : Known(Cart(r)[k])
  PROVE  GatewayTypeOK' /\ LinesKnown'
  <1>t. GatewayTypeOK /\ Cart(r) \in Seq(Line)
    BY OrderOfCall DEF TypeOK
  <1>1. GatewayTypeOK'
    BY <1>t DEF GatewayTypeOK, Places
  <1>2. ASSUME NEW s \in Requests
        PROVE  /\ pc'[s] \in {"idle", "lock"} => line'[s] = 1
               /\ pc'[s] = "price" =>
                    \A k \in DOMAIN Cart(s)' : k < line'[s] => Known(Cart(s)'[k])
               /\ pc'[s] \in {"gate", "regate", "push", "repush", "undoWallet",
                              "undoStock"} =>
                    \A k \in DOMAIN Cart(s)' : Known(Cart(s)'[k])
    <2>1. Cart(s)' = Cart(s)
      BY DEF Cart
    <2>2. CASE s = r
      BY <1>t, <2>1, <2>2 DEF GatewayTypeOK
    <2>3. CASE s # r
      BY <1>t, <2>1, <2>3 DEF GatewayTypeOK, LinesKnown
    <2>4. QED
      BY <2>2, <2>3
  <1>3. QED
    BY <1>1, <1>2 DEF LinesKnown

\* The variables of a call keep their kinds, and its lines stay known.
LEMMA CallTyping ==
  ASSUME TypeOK, LinesKnown, NEW r \in Requests, Begin(r) \/ Call(r)
  PROVE  GatewayTypeOK' /\ LinesKnown'
  <1>t. /\ GatewayTypeOK
        /\ total \in [Requests -> Int] /\ need \in [Requests -> [Products -> Int]]
        /\ line[r] \in Nat \ {0} /\ line = [line EXCEPT ![r] = line[r]]
        /\ reply[r] \in {"none", "pending", "error"}
        /\ reply = [reply EXCEPT ![r] = reply[r]]
        /\ pc = [pc EXCEPT ![r] = pc[r]]
        /\ 1 \in Nat \ {0}
    BY DEF TypeOK, GatewayTypeOK
  <1>1. CASE Begin(r)
    <2>1. PICK u \in Users, cart \in Carts :
            /\ order' = [order EXCEPT ![r] = [user |-> u, cart |-> cart]]
            /\ \/ pc' = [pc EXCEPT ![r] = "done"] /\ reply' = [reply EXCEPT ![r] = "error"]
               \/ pc' = [pc EXCEPT ![r] = "lock"] /\ reply' = reply
      BY <1>1 DEF Begin, Goto, Answer
    <2>2. [user |-> u, cart |-> cart] \in Order
      BY DEF Order
    <2>3. order' \in [Requests -> Order \cup {Absent}]
          /\ order'[r] \in Order /\ \A s \in Requests \ {r} : order'[s] = order[s]
      BY <1>t, <2>1, <2>2 DEF GatewayTypeOK
    <2>4. line' = line /\ total' = total /\ need' = need /\ pc[r] = "idle"
      BY <1>1 DEF Begin
    <2>5. GatewayTypeOK'
      BY <1>t, <2>1, <2>3, <2>4 DEF GatewayTypeOK, Places
    <2>6. LinesKnown'
      BY <1>t, <2>1, <2>3, <2>4 DEF Cart, LinesKnown, GatewayTypeOK, Places
    <2>7. QED
      BY <2>5, <2>6
  <1>2. CASE Acquire(r) \/ Busy(r) \/ AcquireFails(r)
    <2>1. /\ pc[r] = "lock" /\ line[r] = 1
          /\ order' = order /\ total' \in [Requests -> Int]
          /\ need' \in [Requests -> [Products -> Int]]
          /\ line' = [line EXCEPT ![r] = line[r]]
          /\ \/ /\ pc' = [pc EXCEPT ![r] = "price"]
                /\ reply' = [reply EXCEPT ![r] = reply[r]]
             \/ /\ pc' = [pc EXCEPT ![r] = "done"]
                /\ reply' = [reply EXCEPT ![r] = "error"]
      BY <1>t, <1>2 DEF Acquire, Busy, AcquireFails, Goto, Answer, LinesKnown
    <2>2. \A k \in DOMAIN Cart(r) : ~(k < 1)
      BY <2>1, OrderOfCall
    <2>3. CASE pc' = [pc EXCEPT ![r] = "price"]
      <3>1. reply' = [reply EXCEPT ![r] = reply[r]]
        BY <1>t, <2>1, <2>3 DEF GatewayTypeOK
      <3>2. QED
        BY <1>t, <2>1, <2>2, <2>3, <3>1, MoveCall DEF Places
    <2>4. CASE pc' = [pc EXCEPT ![r] = "done"]
      <3>1. reply' = [reply EXCEPT ![r] = "error"]
        BY <1>t, <2>1, <2>4 DEF GatewayTypeOK
      <3>2. QED
        BY <1>t, <2>1, <2>4, <3>1, MoveCall DEF Places
    <2>5. QED
      BY <2>1, <2>3, <2>4
  <1>3. CASE PriceLine(r)
    <2>1. pc[r] = "price" /\ line[r] \in DOMAIN Cart(r) /\ At(r) = Cart(r)[line[r]]
          /\ At(r) \in Line /\ Known(At(r))
      BY <1>3, OrderOfCall DEF PriceLine, At, Known
    <2>2. Charge(At(r)) \in Int /\ \A p \in Products : Taken(At(r), p) \in Int
      BY <2>1, KnownLine
    <2>3. total' \in [Requests -> Int] /\ need' \in [Requests -> [Products -> Int]]
      BY <1>t, <1>3, <2>2 DEF PriceLine
    <2>4. /\ line' = [line EXCEPT ![r] = line[r] + 1]
          /\ pc' = [pc EXCEPT ![r] = "price"] /\ order' = order
          /\ reply' = [reply EXCEPT ![r] = reply[r]]
      BY <1>t, <1>3 DEF PriceLine
    <2>5. \A k \in DOMAIN Cart(r) : k < line[r] + 1 => Known(Cart(r)[k])
      BY <1>t, <2>1, OrderOfCall DEF LinesKnown
    <2>6. line[r] + 1 \in Nat \ {0}
      BY <1>t
    <2>7. QED
      BY <1>t, <2>1, <2>3, <2>4, <2>5, <2>6, MoveCall DEF Places
  <1>4. CASE RejectLine(r) \/ Refuse(r) \/ ReserveLost(r)
    <2>1. /\ pc[r] \in {"price", "gate", "regate"}
          /\ order' = order /\ total' \in [Requests -> Int]
          /\ need' \in [Requests -> [Products -> Int]]
          /\ line' = [line EXCEPT ![r] = line[r]]
          /\ pc' = [pc EXCEPT ![r] = "release"]
          /\ reply' = [reply EXCEPT ![r] = "error"]
      BY <1>t, <1>4 DEF RejectLine, Refuse, ReserveLost, ReserveAgain, AtGate, Goto, Answer
    <2>2. QED
      BY <1>t, <2>1, MoveCall DEF Places
  <1>5. CASE Priced(r)
    <2>1. /\ pc[r] = "price"
          /\ order' = order /\ total' \in [Requests -> Int]
          /\ need' \in [Requests -> [Products -> Int]]
          /\ reply' = [reply EXCEPT ![r] = reply[r]]
          /\ pc' = [pc EXCEPT ![r] = "gate"] /\ line' = [line EXCEPT ![r] = 1]
      BY <1>t, <1>5 DEF Priced, Goto
    <2>2. \A k \in DOMAIN Cart(r) : Known(Cart(r)[k])
      <3>1. \A k \in DOMAIN Cart(r) : k < line[r]
        BY <1>t, <1>5, <2>1, OrderOfCall DEF Priced, MoreLines
      <3>2. QED
        BY <2>1, <3>1 DEF LinesKnown
    <2>3. QED
      BY <1>t, <2>1, <2>2, MoveCall DEF Places
  <1>6. CASE Reserve(r) \/ ReserveAgain(r)
    <2>1. /\ pc[r] \in {"gate", "regate"}
          /\ order' = order /\ total' \in [Requests -> Int]
          /\ need' \in [Requests -> [Products -> Int]]
          /\ line' = [line EXCEPT ![r] = line[r]]
          /\ reply' = [reply EXCEPT ![r] = reply[r]]
          /\ pc' = [pc EXCEPT ![r] = "push"] \/ pc' = [pc EXCEPT ![r] = "regate"]
          /\ \A k \in DOMAIN Cart(r) : Known(Cart(r)[k])
      BY <1>t, <1>6 DEF Reserve, ReserveAgain, AtGate, Goto, LinesKnown
    <2>2. QED
      BY <1>t, <2>1, MoveCall DEF Places
  <1>7. CASE XAdd(r) \/ UndoStock(r)
    <2>1. /\ pc[r] \in {"push", "repush", "undoStock"}
          /\ order' = order /\ total' \in [Requests -> Int]
          /\ need' \in [Requests -> [Products -> Int]]
          /\ reply' = [reply EXCEPT ![r] = reply[r]]
          /\ pc' = [pc EXCEPT ![r] = pc[r]]
          /\ line' = [line EXCEPT ![r] = line[r] + 1]
          /\ \A k \in DOMAIN Cart(r) : Known(Cart(r)[k])
      BY <1>t, <1>7 DEF XAdd, Pushing, UndoStock, LinesKnown
    <2>2. line[r] + 1 \in Nat \ {0}
      BY <1>t
    <2>3. QED
      BY <1>t, <2>1, <2>2, MoveCall DEF Places
  <1>8. CASE PushDone(r) \/ UndoDone(r) \/ Release(r)
    <2>1. PICK l \in {"release", "done"}, a \in {"pending", "none", "error"} :
            /\ pc[r] # "idle"
            /\ order' = order /\ total' \in [Requests -> Int]
            /\ need' \in [Requests -> [Products -> Int]]
            /\ line' = [line EXCEPT ![r] = line[r]]
            /\ pc' = [pc EXCEPT ![r] = l] /\ reply' = [reply EXCEPT ![r] = a]
      BY <1>t, <1>8 DEF PushDone, Pushing, UndoDone, Release, Goto, Answer
    <2>2. QED
      BY <1>t, <2>1, MoveCall DEF Places
  <1>9. CASE PushFail(r) \/ PushAgain(r)
    <2>1. /\ pc[r] \in {"push", "repush"}
          /\ order' = order /\ total' \in [Requests -> Int]
          /\ need' \in [Requests -> [Products -> Int]]
          /\ line' = [line EXCEPT ![r] = 1]
          /\ \A k \in DOMAIN Cart(r) : Known(Cart(r)[k])
      BY <1>t, <1>9 DEF PushFail, PushAgain, Pushing, Goto, Answer, LinesKnown
    <2>2. CASE PushFail(r)
      <3>1. /\ pc' = [pc EXCEPT ![r] = "undoWallet"]
            /\ reply' = [reply EXCEPT ![r] = "error"]
        BY <2>2 DEF PushFail, Goto, Answer
      <3>2. QED
        BY <1>t, <2>1, <3>1, MoveCall DEF Places
    <2>3. CASE PushAgain(r)
      <3>1. /\ pc' = [pc EXCEPT ![r] = "repush"]
            /\ reply' = [reply EXCEPT ![r] = reply[r]]
        BY <1>t, <2>3 DEF PushAgain, Goto
      <3>2. QED
        BY <1>t, <2>1, <3>1, MoveCall DEF Places
    <2>4. QED
      BY <1>9, <2>2, <2>3
  <1>10. CASE UndoWallet(r)
    <2>1. /\ pc[r] = "undoWallet"
          /\ order' = order /\ total' \in [Requests -> Int]
          /\ need' \in [Requests -> [Products -> Int]]
          /\ line' = [line EXCEPT ![r] = line[r]]
          /\ reply' = [reply EXCEPT ![r] = reply[r]]
          /\ pc' = [pc EXCEPT ![r] = "undoStock"]
          /\ \A k \in DOMAIN Cart(r) : Known(Cart(r)[k])
      BY <1>t, <1>10 DEF UndoWallet, Goto, LinesKnown
    <2>2. QED
      BY <1>t, <2>1, MoveCall DEF Places
  <1>11. QED
    BY <1>1, <1>2, <1>3, <1>4, <1>5, <1>6, <1>7, <1>8, <1>9, <1>10 DEF Call

\* The stream only grows, by tasks.
LEMMA LogGrows ==
  ASSUME TypeOK, LinesKnown, NEW r \in Requests, Begin(r) \/ Call(r)
  PROVE  log' = log \/ \E t \in Task : log' = Append(log, t)
  <1>1. CASE XAdd(r)
    <2>1. At(r) \in Line /\ Known(At(r)) /\ order[r].user \in Users
      <3>1. pc[r] \in {"push", "repush"} /\ line[r] \in DOMAIN Cart(r)
        BY <1>1, OrderOfCall DEF XAdd, Pushing
      <3>2. QED
        BY <3>1, OrderOfCall DEF At, LinesKnown
    <2>2. /\ Price[At(r).product] \in Nat /\ At(r).kind \in {"pickup", "return"}
          /\ At(r).product \in Products /\ At(r).qty \in Int
      BY <2>1, KnownLine DEF Line
    <2>3. Price[At(r).product] * At(r).qty \in Int
      BY <2>2
    <2>4. line[r] \in Nat \ {0}
      BY DEF TypeOK, GatewayTypeOK
    <2>5. TaskOf(r) \in Task
      BY <2>1, <2>2, <2>3, <2>4 DEF TaskOf, Task
    <2>6. QED
      BY <1>1, <2>5 DEF XAdd
  <1>2. CASE ~XAdd(r)
    BY <1>2 DEF Begin, Call, Acquire, Busy, AcquireFails, PriceLine, RejectLine, Priced,
       Reserve, Refuse, ReserveLost, ReserveAgain, AtGate, PushDone, PushFail, PushAgain,
       Pushing, UndoWallet, UndoStock,
       UndoDone, Release
  <1>3. QED
    BY <1>1, <1>2

\* What a growing stream leaves as it is.
LEMMA LogAppend ==
  ASSUME TypeOK, log' = log \/ \E t \in Task : log' = Append(log, t)
  PROVE  /\ log' \in Seq(Task)
         /\ DOMAIN log \subseteq DOMAIN log'
         /\ Len(log) <= Len(log')
         /\ \A i \in DOMAIN log : log'[i] = log[i]
  <1>1. log \in Seq(Task)
    BY DEF TypeOK, StoreTypeOK
  <1>2. CASE log' = log
    BY <1>1, <1>2
  <1>3. ASSUME NEW t \in Task, log' = Append(log, t)
        PROVE  /\ log' \in Seq(Task)
               /\ Len(log') = Len(log) + 1
               /\ \A i \in DOMAIN log : log'[i] = log[i]
    BY <1>1, <1>3
  <1>4. \A s \in Seq(Task) : DOMAIN s = 1..Len(s) /\ Len(s) \in Nat
    OBVIOUS
  <1>5. QED
    BY <1>1, <1>2, <1>3, <1>4

\* The cache keeps its kinds under every step of a call.
LEMMA CallCache ==
  ASSUME TypeOK, LinesKnown, NEW r \in Requests, Begin(r) \/ Call(r)
  PROVE  /\ wallet' \in [Users -> Int \cup {Absent}]
         /\ stock' \in [Products -> Int]
         /\ lock' \in [Users -> Requests \cup {Free}]
  <1>t. /\ wallet \in [Users -> Int \cup {Absent}]
        /\ stock \in [Products -> Int]
        /\ lock \in [Users -> Requests \cup {Free}]
        /\ total[r] \in Int /\ need[r] \in [Products -> Int]
        /\ Trunc(total[r]) \in Int
    BY TruncInt DEF TypeOK, StoreTypeOK, GatewayTypeOK
  <1>1. CASE Acquire(r) \/ AcquireFails(r) \/ Release(r)
    <2>1. /\ wallet' = wallet /\ stock' = stock
          /\ pc[r] # "idle"
      BY <1>1 DEF Acquire, AcquireFails, Release
    <2>2. order[r].user \in Users
      BY <2>1, OrderOfCall
    <2>3. lock' \in [Users -> Requests \cup {Free}]
      BY <1>t, <1>1, <2>2 DEF Acquire, AcquireFails, Release
    <2>4. QED
      BY <1>t, <2>1, <2>3
  <1>2. CASE Reserve(r) \/ ReserveLost(r) \/ ReserveAgain(r)
    <2>1. pc[r] # "idle" /\ lock' = lock /\ Deduct(r)
      BY <1>2 DEF Reserve, ReserveLost, ReserveAgain, AtGate
    <2>2. Counter(wallet[order[r].user]) \in Int
      BY <1>t, <2>1, OrderOfCall, CounterInt
    <2>3. wallet' \in [Users -> Int \cup {Absent}]
      <3>1. Counter(wallet[order[r].user]) - Trunc(total[r]) \in Int
        BY <1>t, <2>2
      <3>2. wallet' = [wallet EXCEPT ![order[r].user] =
                         Counter(wallet[order[r].user]) - Trunc(total[r])]
        BY <2>1 DEF Deduct
      <3>3. QED
        BY <1>t, <3>1, <3>2
    <2>4. stock' \in [Products -> Int]
      <3>1. \A p \in Products : stock[p] - need[r][p] \in Int
        BY <1>t
      <3>2. QED
        BY <2>1, <3>1 DEF Deduct
    <2>5. QED
      BY <1>t, <2>1, <2>3, <2>4
  <1>3. CASE UndoWallet(r)
    <2>1. pc[r] # "idle" /\ lock' = lock /\ stock' = stock
      BY <1>3 DEF UndoWallet
    <2>2. ASSUME NEW k \in Times
          PROVE  IncrBy(wallet[order[r].user], Trunc(total[r]), k) \in Int \cup {Absent}
      <3>1. wallet[order[r].user] \in Int \cup {Absent} /\ k \in Int
        BY <1>t, <2>1, OrderOfCall, TimesInt
      <3>2. QED
        BY <1>t, <3>1, CounterInt
    <2>3. QED
      BY <1>t, <1>3, <2>1, <2>2 DEF UndoWallet
  <1>4. CASE UndoStock(r)
    <2>1. pc[r] = "undoStock" /\ lock' = lock /\ wallet' = wallet
          /\ line[r] \in DOMAIN Cart(r)
      BY <1>4, OrderOfCall DEF UndoStock
    <2>2. At(r) \in Line /\ Known(At(r))
      BY <2>1, OrderOfCall DEF At, LinesKnown
    <2>3. Taken(At(r), At(r).product) \in Int
      BY <2>2, KnownLine DEF Line
    <2>4. PICK k \in Times :
            stock' = [stock EXCEPT ![At(r).product] = @ + k * Taken(At(r), At(r).product)]
      BY <1>4 DEF UndoStock
    <2>5. stock' \in [Products -> Int]
      <3>1. At(r).product \in Products
        BY <2>2 DEF Line
      <3>2. stock[At(r).product] + k * Taken(At(r), At(r).product) \in Int
        BY <1>t, <2>3, <3>1 DEF Times
      <3>3. QED
        BY <1>t, <2>4, <3>2
    <2>6. QED
      BY <1>t, <2>1, <2>5
  <1>5. CASE /\ ~Acquire(r) /\ ~AcquireFails(r) /\ ~Release(r) /\ ~Reserve(r)
             /\ ~ReserveLost(r) /\ ~ReserveAgain(r) /\ ~UndoWallet(r) /\ ~UndoStock(r)
    <2>1. UNCHANGED cacheVars
      BY <1>5 DEF cacheVars, Begin, Call, Busy, PriceLine, RejectLine, Priced, Refuse,
         XAdd, PushDone, PushFail, PushAgain, Pushing, UndoDone
    <2>2. QED
      BY <1>t, <2>1 DEF cacheVars
  <1>6. QED
    BY <1>1, <1>2, <1>3, <1>4, <1>5

\* Steps of the gateway keep every variable of its kind.
LEMMA GatewayTyping ==
  ASSUME TypeOK, LinesKnown, GatewayStep
  PROVE  TypeOK' /\ LinesKnown'
  <1>t. /\ UNCHANGED <<appVars, deleted, dbVars, workerVars>>
        /\ (\E r \in Requests : Begin(r) \/ Call(r)) \/ (\E u \in Users : Expire(u))
    BY DEF GatewayStep, GatewayNext
  <1>1. ASSUME NEW r \in Requests, Begin(r) \/ Call(r)
        PROVE  TypeOK' /\ LinesKnown'
    <2>1. GatewayTypeOK' /\ LinesKnown'
      BY <1>1, CallTyping
    <2>2. /\ log' \in Seq(Task) /\ DOMAIN log \subseteq DOMAIN log'
          /\ Len(log) <= Len(log') /\ Len(log') \in Nat
      BY <1>1, LogGrows, LogAppend
    <2>3. StoreTypeOK'
      BY <1>t, <1>1, <2>2, CallCache
         DEF TypeOK, StoreTypeOK, Committed, appVars, dbVars
    <2>4. WorkerTypeOK'
      <3>1. 0..Len(log) \subseteq 0..Len(log')
        BY <2>2 DEF TypeOK, StoreTypeOK
      <3>2. QED
        BY <1>t, <2>2, <3>1 DEF TypeOK, WorkerTypeOK, workerVars
    <2>5. QED
      BY <2>1, <2>3, <2>4 DEF TypeOK
  <1>2. ASSUME NEW u \in Users, Expire(u)
        PROVE  TypeOK' /\ LinesKnown'
    <2>1. /\ lock' = [lock EXCEPT ![u] = Free]
          /\ UNCHANGED <<gatewayVars, wallet, stock, log>>
      BY <1>2 DEF Expire
    <2>2. StoreTypeOK'
      BY <1>t, <2>1 DEF TypeOK, StoreTypeOK, Committed, appVars, dbVars
    <2>3. WorkerTypeOK'
      BY <1>t, <2>1 DEF TypeOK, WorkerTypeOK, workerVars
    <2>4. GatewayTypeOK' /\ LinesKnown'
      BY <2>1 DEF TypeOK, GatewayTypeOK, LinesKnown, gatewayVars, Cart
    <2>5. QED
      BY <2>2, <2>3, <2>4 DEF TypeOK
  <1>3. QED
    BY <1>t, <1>1, <1>2

\* Booking task i keeps the tables of their kinds.
LEMMA BookTyping ==
  ASSUME TypeOK, NEW i \in DOMAIN log, Settleable(log[i]), Book(i)
  PROVE  /\ dbBalance' \in [Users -> Int \cup {Absent}]
         /\ dbStock' \in [Products -> Int]
         /\ history' \in Seq(Nat)
         /\ Committed' = Committed \cup {i}
  <1> DEFINE t == log[i]
  <1>1. t \in Task /\ i \in Nat
    BY DEF TypeOK, StoreTypeOK
  <1>2. /\ t.user \in Users /\ t.product \in Products
        /\ t.qty \in Int /\ t.amount \in Int /\ Sign(t) \in Int
    BY <1>1 DEF Task, Sign
  <1>3. Sign(t) * t.amount \in Int /\ Sign(t) * t.qty \in Int
    BY <1>2
  <1>4. dbBalance[t.user] \in Int
    BY <1>2 DEF TypeOK, StoreTypeOK, Settleable, MemberExists
  <1>5. dbBalance' \in [Users -> Int \cup {Absent}]
    <2>1. dbBalance[t.user] + Sign(t) * t.amount \in Int
      BY <1>3, <1>4
    <2>2. QED
      BY <2>1 DEF TypeOK, StoreTypeOK, Book, UpdateMember
  <1>6. dbStock' \in [Products -> Int]
    <2>1. dbStock[t.product] + Sign(t) * t.qty \in Int
      BY <1>2, <1>3 DEF TypeOK, StoreTypeOK
    <2>2. QED
      BY <2>1 DEF TypeOK, StoreTypeOK, Book, UpdateProduct
  <1>7. history' \in Seq(Nat) /\ Committed' = Committed \cup {i}
    <2>1. history \in Seq(Nat) /\ history' = Append(history, i)
      BY DEF TypeOK, StoreTypeOK, Book, CreateTransaction
    <2>2. /\ history' \in Seq(Nat) /\ Len(history') = Len(history) + 1
          /\ \A k \in 1..Len(history) : history'[k] = history[k]
          /\ history'[Len(history) + 1] = i
      BY <1>1, <2>1
    <2>3. DOMAIN history = 1..Len(history) /\ DOMAIN history' = 1..(Len(history) + 1)
          /\ Len(history) \in Nat
      BY <2>1, <2>2
    <2>4. Committed' \subseteq Committed \cup {i}
      BY <2>2, <2>3 DEF Committed
    <2>5. Committed \cup {i} \subseteq Committed'
      BY <2>2, <2>3 DEF Committed
    <2>6. QED
      BY <2>2, <2>4, <2>5
  <1>8. QED
    BY <1>5, <1>6, <1>7

\* Steps of the worker keep every variable of its kind.
LEMMA WorkerTyping ==
  ASSUME TypeOK, LinesKnown, WorkerStep
  PROVE  TypeOK' /\ LinesKnown'
  <1>t. UNCHANGED <<appVars, lock, log, gatewayVars>>
    BY DEF WorkerStep, WorkerNext
  <1>g. GatewayTypeOK' /\ LinesKnown'
    BY <1>t DEF TypeOK, GatewayTypeOK, LinesKnown, gatewayVars, Cart
  <1>s. \/ StartRead \/ Deliver \/ ReadNil \/ ReadError \/ Stop
        \/ Commit \/ Abort \/ CommitLost \/ RefundWallet \/ RefundStock \/ Ack
    BY DEF WorkerStep, WorkerNext, Settle
  <1>n. Len(log) \in Nat /\ DOMAIN log = 1..Len(log) /\ log' = log
    BY <1>t DEF TypeOK, StoreTypeOK
  <1>1. CASE StartRead \/ Deliver \/ ReadNil \/ ReadError \/ Stop
    <2>1. UNCHANGED <<wallet, stock, deleted, dbVars, cursor, cur, rejected>>
      BY <1>1 DEF StartRead, Deliver, ReadNil, ReadError, Stop
    <2>2. StoreTypeOK'
      BY <1>t, <2>1 DEF TypeOK, StoreTypeOK, Committed, appVars, dbVars
    <2>3. rpos' \in 0..Len(log) /\ batch' \subseteq DOMAIN log
          /\ wpc' \in {"loop", "reading", "batch", "stopped"}
      <3>1. CASE StartRead
        BY <1>n, <3>1 DEF StartRead, Resolve, TypeOK, WorkerTypeOK
      <3>2. CASE Deliver
        BY <1>n, <3>2 DEF Deliver, NextBatch, Available, TypeOK, WorkerTypeOK
      <3>3. CASE ReadNil \/ ReadError \/ Stop
        BY <3>3 DEF ReadNil, ReadError, Stop, TypeOK, WorkerTypeOK
      <3>4. QED
        BY <1>1, <3>1, <3>2, <3>3
    <2>4. WorkerTypeOK'
      BY <1>n, <2>1, <2>3 DEF TypeOK, WorkerTypeOK
    <2>5. QED
      BY <1>g, <2>2, <2>4 DEF TypeOK
  <1>2. CASE Commit \/ CommitLost
    <2>1. PICK i \in batch : Settleable(log[i]) /\ Book(i) /\ Take(i)
      BY <1>2 DEF Commit, CommitLost
    <2>2. i \in DOMAIN log
      BY <2>1 DEF TypeOK, WorkerTypeOK
    <2>3. /\ dbBalance' \in [Users -> Int \cup {Absent}]
          /\ dbStock' \in [Products -> Int]
          /\ history' \in Seq(Nat)
          /\ Committed' = Committed \cup {i}
      BY <2>1, <2>2, BookTyping
    <2>4. /\ UNCHANGED <<wallet, stock, deleted, cursor, rpos>>
          /\ wpc' \in {"ack", "refundWallet"}
          /\ rejected' \subseteq rejected \cup {i}
      <3>1. rejected' = rejected \/ rejected' = rejected \cup {cur'}
        BY <1>2 DEF Commit, CommitLost, Take
      <3>2. QED
        BY <1>2, <2>1, <3>1 DEF Commit, CommitLost, Take
    <2>5. StoreTypeOK'
      BY <1>t, <1>n, <2>2, <2>3, <2>4 DEF TypeOK, StoreTypeOK, appVars
    <2>6. WorkerTypeOK'
      BY <1>n, <2>1, <2>2, <2>4 DEF TypeOK, WorkerTypeOK, Take
    <2>7. QED
      BY <1>g, <2>5, <2>6 DEF TypeOK
  <1>3. CASE Abort
    <2>1. PICK i \in batch : Take(i) /\ rejected' = rejected \cup {i}
      BY <1>3 DEF Abort
    <2>2. i \in DOMAIN log
      BY <2>1 DEF TypeOK, WorkerTypeOK
    <2>3. UNCHANGED <<wallet, stock, deleted, dbVars, cursor, rpos>> /\ wpc' = "refundWallet"
      BY <1>3 DEF Abort
    <2>4. StoreTypeOK'
      BY <1>t, <2>3 DEF TypeOK, StoreTypeOK, Committed, appVars, dbVars
    <2>5. WorkerTypeOK'
      BY <1>n, <2>1, <2>2, <2>3 DEF TypeOK, WorkerTypeOK, Take
    <2>6. QED
      BY <1>g, <2>4, <2>5 DEF TypeOK
  <1>4. CASE RefundWallet \/ RefundStock
    <2>1. cur \in DOMAIN log
      BY <1>n, <1>4 DEF RefundWallet, RefundStock, TypeOK, WorkerTypeOK
    <2> DEFINE t == log[cur]
    <2>2. /\ t.user \in Users /\ t.product \in Products
          /\ t.qty \in Int /\ t.amount \in Int /\ Sign(t) \in Int
      <3>1. t \in Task
        BY <2>1 DEF TypeOK, StoreTypeOK
      <3>2. QED
        BY <3>1 DEF Task, Sign
    <2>3. UNCHANGED <<deleted, dbVars, cursor, rpos, batch, cur, rejected>>
      BY <1>4 DEF RefundWallet, RefundStock
    <2>4. wallet' \in [Users -> Int \cup {Absent}]
      <3>1. -Sign(t) * Trunc(t.amount) \in Int
        BY <2>2, TruncInt
      <3>2. ASSUME NEW k \in ReachTimes
            PROVE  IncrBy(wallet[t.user], -Sign(t) * Trunc(t.amount), k) \in Int \cup {Absent}
        <4>1. wallet[t.user] \in Int \cup {Absent} /\ k \in Int
          BY <2>2, TimesInt DEF TypeOK, StoreTypeOK
        <4>2. QED
          BY <3>1, <4>1, CounterInt
      <3>3. QED
        BY <1>4, <3>2 DEF RefundWallet, RefundStock, TypeOK, StoreTypeOK
    <2>5. stock' \in [Products -> Int]
      <3>1. Sign(t) * t.qty \in Int
        BY <2>2
      <3>2. \A k \in ReachTimes : stock[t.product] - k * Sign(t) * t.qty \in Int
        BY <2>2, <3>1 DEF TypeOK, StoreTypeOK, ReachTimes, Times
      <3>3. QED
        BY <1>4, <3>2 DEF RefundWallet, RefundStock, TypeOK, StoreTypeOK
    <2>6. StoreTypeOK'
      BY <1>t, <2>3, <2>4, <2>5 DEF TypeOK, StoreTypeOK, Committed, appVars, dbVars
    <2>7. WorkerTypeOK'
      BY <1>n, <1>4, <2>3 DEF RefundWallet, RefundStock, TypeOK, WorkerTypeOK
    <2>8. QED
      BY <1>g, <2>6, <2>7 DEF TypeOK
  <1>5. CASE Ack
    <2>1. cur \in DOMAIN log
      BY <1>n, <1>5 DEF Ack, TypeOK, WorkerTypeOK
    <2>2. /\ deleted' \subseteq deleted \cup {cur}
          /\ cursor' = cur /\ cur' = 0
          /\ UNCHANGED <<rpos, batch, rejected, wallet, stock, dbVars>>
          /\ wpc' \in {"loop", "batch"}
      BY <1>5 DEF Ack, Acked
    <2>3. StoreTypeOK'
      BY <1>t, <2>1, <2>2 DEF TypeOK, StoreTypeOK, Committed, appVars, dbVars
    <2>4. WorkerTypeOK'
      BY <1>n, <2>1, <2>2 DEF TypeOK, WorkerTypeOK
    <2>5. QED
      BY <1>g, <2>3, <2>4 DEF TypeOK
  <1>6. QED
    BY <1>s, <1>1, <1>2, <1>3, <1>4, <1>5

\* Steps of the process keep every variable of its kind.
LEMMA ProcessTyping ==
  ASSUME TypeOK, LinesKnown, Process
  PROVE  TypeOK' /\ LinesKnown'
  <1>n. Len(log) \in Nat /\ DOMAIN log = 1..Len(log)
    BY DEF TypeOK, StoreTypeOK
  <1>1. CASE Signal \/ GracefulStop \/ Exit \/ Crash
    <2>1. /\ UNCHANGED <<restarts, cacheVars, streamVars, dbVars,
                         cursor, rpos, batch, cur, rejected>>
          /\ app' \in {"stopping", "draining", "down"}
          /\ wpc' = wpc \/ wpc' = "down"
          /\ UNCHANGED <<order, line, total, need, reply>>
          /\ pc' = pc \/ pc' = [r \in Requests |-> IF InFlight(r) THEN "dead" ELSE pc[r]]
      BY <1>1 DEF Signal, GracefulStop, Exit, Crash, gatewayVars, workerVars
    <2>2. StoreTypeOK'
      BY <2>1 DEF TypeOK, StoreTypeOK, Committed, cacheVars, streamVars, dbVars
    <2>3. WorkerTypeOK'
      BY <2>1 DEF TypeOK, WorkerTypeOK, streamVars
    <2>4. GatewayTypeOK
      BY DEF TypeOK
    <2>5. \A r \in Requests :
            pc'[r] = pc[r] \/ (pc'[r] = "dead" /\ pc[r] # "idle")
      BY <2>1, <2>4 DEF GatewayTypeOK, InFlight
    <2>6. pc' \in [Requests -> Places]
      BY <2>1, <2>4 DEF GatewayTypeOK, Places
    <2>7. GatewayTypeOK'
      BY <2>1, <2>4, <2>5, <2>6 DEF GatewayTypeOK
    <2>8. LinesKnown'
      BY <2>1, <2>5 DEF LinesKnown, Cart
    <2>9. QED
      BY <2>2, <2>3, <2>7, <2>8 DEF TypeOK
  <1>2. CASE Restart
    <2>1. /\ app' = "up" /\ restarts' = restarts + 1 /\ restarts < MaxRestarts
          /\ wpc' = "loop" /\ cursor' = Latest /\ rpos' = 0 /\ batch' = {} /\ cur' = 0
          /\ UNCHANGED <<wallet, lock, streamVars, dbVars, gatewayVars, rejected>>
          /\ PreheatProducts
      BY <1>2 DEF Restart, StartId
    <2>2. stock' \in [Products -> Int]
      BY <2>1 DEF PreheatProducts, TypeOK, StoreTypeOK
    <2>3. restarts' \in 0..MaxRestarts
      BY <2>1, BoundAssumption DEF TypeOK, StoreTypeOK
    <2>4. StoreTypeOK'
      BY <2>1, <2>2, <2>3 DEF TypeOK, StoreTypeOK, Committed, streamVars, dbVars
    <2>5. WorkerTypeOK'
      BY <1>n, <2>1 DEF TypeOK, WorkerTypeOK, streamVars
    <2>6. GatewayTypeOK' /\ LinesKnown'
      BY <2>1 DEF TypeOK, GatewayTypeOK, LinesKnown, gatewayVars, Cart
    <2>7. QED
      BY <2>4, <2>5, <2>6 DEF TypeOK
  <1>3. QED
    BY <1>1, <1>2 DEF Process

LEMMA TypingInit == Init => TypeOK /\ LinesKnown
  <1> SUFFICES ASSUME Init PROVE TypeOK /\ LinesKnown
    OBVIOUS
  <1>1. StoreTypeOK
    BY OpeningAssumption, BoundAssumption
       DEF Init, StoreInit, StoreTypeOK, Committed
  <1>2. GatewayTypeOK /\ LinesKnown
    BY DEF Init, GatewayInit, GatewayTypeOK, LinesKnown, Places
  <1>3. WorkerTypeOK
    BY DEF Init, StoreInit, WorkerInit, WorkerTypeOK, StartId
  <1>4. QED
    BY <1>1, <1>2, <1>3 DEF TypeOK

LEMMA TypingStep == TypeOK /\ LinesKnown /\ [Next]_vars => TypeOK' /\ LinesKnown'
  <1> SUFFICES ASSUME TypeOK, LinesKnown, [Next]_vars PROVE TypeOK' /\ LinesKnown'
    OBVIOUS
  <1>1. CASE UNCHANGED vars
    BY <1>1 DEF TypeOK, StoreTypeOK, GatewayTypeOK, WorkerTypeOK, LinesKnown, Committed,
       Cart, vars, appVars, cacheVars, streamVars, dbVars, gatewayVars, workerVars
  <1>2. QED
    BY <1>1, GatewayTyping, WorkerTyping, ProcessTyping DEF Next

\* Type correctness, for every instance.
THEOREM TypeCorrect == Spec => []TypeOK
  <1>1. Spec => [](TypeOK /\ LinesKnown)
    BY TypingInit, TypingStep, PTL DEF Spec
  <1>2. QED
    BY <1>1, PTL

-----------------------------------------------------------------------------
\* The stream holds only tasks of positive quantity and no negative amount.
LEMMA QuantitiesStep ==
  ASSUME TypeOK, LinesKnown, QuantitiesPositive, [Next]_vars
  PROVE  QuantitiesPositive'
  <1> DEFINE Early == {"lock", "price", "gate", "regate", "push", "repush", "undoWallet",
                       "undoStock"}
             Positive(r) == \A k \in DOMAIN Cart(r) : Cart(r)[k].qty > 0
  <1>1. ASSUME NEW r \in Requests, Begin(r) \/ Call(r)
        PROVE  QuantitiesPositive'
    <2>1. ASSUME NEW s \in Requests, pc'[s] \in Early
          PROVE  Positive(s)'
      <3>1. CASE Begin(r) /\ s = r
        <4>1. PICK u \in Users, cart \in Carts :
                /\ order' = [order EXCEPT ![r] = [user |-> u, cart |-> cart]]
                /\ IF Malformed(cart) THEN pc' = [pc EXCEPT ![r] = "done"]
                                      ELSE pc' = [pc EXCEPT ![r] = "lock"]
          BY <3>1 DEF Begin, Goto
        <4>2. ~Malformed(cart) /\ order'[r].cart = cart
          BY <2>1, <3>1, <4>1 DEF TypeOK, GatewayTypeOK
        <4>3. \A k \in DOMAIN cart : cart[k].qty \in Int
          <5>1. cart \in Seq(Line)
            BY <4>1, CartAssumption
          <5>2. \A k \in DOMAIN cart : cart[k] \in Line
            BY <5>1
          <5>3. QED
            BY <5>2 DEF Line
        <4>4. QED
          BY <3>1, <4>2, <4>3 DEF Malformed, Cart
      <3>2. CASE ~(Begin(r) /\ s = r)
        <4>1. Cart(s)' = Cart(s) /\ pc[s] \in Early
          <5>1. CASE Begin(r)
            BY <2>1, <3>2, <5>1 DEF Begin, Goto, Cart, TypeOK, GatewayTypeOK
          <5>2. CASE Call(r)
            <6>1. order' = order /\ pc[r] \in Early \cup {"release"}
              BY <5>2 DEF Call, Acquire, Busy, AcquireFails, PriceLine, RejectLine, Priced,
                 Reserve, Refuse, ReserveLost, ReserveAgain, AtGate, XAdd, PushDone,
                 PushFail, PushAgain, Pushing, UndoWallet,
                 UndoStock, UndoDone, Release
            <6>2. s # r => pc'[s] = pc[s]
              BY <5>2 DEF Call, Acquire, Busy, AcquireFails, PriceLine, RejectLine, Priced,
                 Reserve, Refuse, ReserveLost, ReserveAgain, AtGate, XAdd, PushDone,
                 PushFail, PushAgain, Pushing, UndoWallet,
                 UndoStock, UndoDone, Release, Goto, TypeOK, GatewayTypeOK
            <6>3. pc[r] = "release" => pc'[r] = "done"
              BY <5>2 DEF Call, Acquire, Busy, AcquireFails, PriceLine, RejectLine, Priced,
                 Reserve, Refuse, ReserveLost, ReserveAgain, AtGate, XAdd, PushDone,
                 PushFail, PushAgain, Pushing, UndoWallet,
                 UndoStock, UndoDone, Release, Goto, TypeOK, GatewayTypeOK
            <6>4. QED
              BY <2>1, <6>1, <6>2, <6>3 DEF Cart
          <5>3. QED
            BY <1>1, <5>1, <5>2
        <4>2. QED
          BY <4>1 DEF QuantitiesPositive
      <3>3. QED
        BY <3>1, <3>2
    <2>2. \A i \in DOMAIN log' : log'[i].qty > 0 /\ log'[i].amount >= 0
      <3>1. CASE XAdd(r)
        <4>1. pc[r] \in {"push", "repush"} /\ line[r] \in DOMAIN Cart(r)
              /\ log' = Append(log, TaskOf(r))
          BY <3>1, OrderOfCall DEF XAdd, Pushing
        <4>2. At(r) \in Line /\ Known(At(r)) /\ At(r).qty > 0
          BY <4>1, OrderOfCall DEF At, LinesKnown, QuantitiesPositive
        <4>3. Price[At(r).product] \in Nat /\ At(r).qty \in Nat
          BY <4>2, KnownLine DEF Line
        <4>4. Price[At(r).product] * At(r).qty >= 0
          BY <4>3
        <4>5. TaskOf(r).qty > 0 /\ TaskOf(r).amount >= 0
          BY <4>2, <4>4 DEF TaskOf
        <4>6. log \in Seq(Task)
          BY DEF TypeOK, StoreTypeOK
        <4>7. \A i \in DOMAIN log' : (i \in DOMAIN log /\ log'[i] = log[i])
                                     \/ log'[i] = TaskOf(r)
          BY <4>1, <4>6
        <4>8. QED
          BY <4>5, <4>7 DEF QuantitiesPositive
      <3>2. CASE ~XAdd(r)
        <4>1. log' = log
          BY <1>1, <3>2 DEF Begin, Call, Acquire, Busy, AcquireFails, PriceLine, RejectLine,
             Priced, Reserve, Refuse, ReserveLost, ReserveAgain, AtGate, PushDone,
             PushFail, PushAgain, Pushing, UndoWallet, UndoStock,
             UndoDone, Release
        <4>2. QED
          BY <4>1 DEF QuantitiesPositive
      <3>3. QED
        BY <3>1, <3>2
    <2>3. QED
      BY <2>1, <2>2 DEF QuantitiesPositive
  <1>2. CASE \/ UNCHANGED vars \/ WorkerStep \/ Process
             \/ (GatewayStep /\ \E u \in Users : Expire(u))
    <2>1. /\ log' = log /\ order' = order
          /\ pc' = pc \/ pc' = [r \in Requests |-> IF InFlight(r) THEN "dead" ELSE pc[r]]
      BY <1>2 DEF vars, WorkerStep, WorkerNext, Process, Signal, GracefulStop, Exit,
         Crash, Restart, Expire,
         gatewayVars, streamVars
    <2>2. \A r \in Requests : pc'[r] \in Early => pc[r] \in Early
      BY <2>1 DEF TypeOK, GatewayTypeOK
    <2>3. QED
      BY <2>1, <2>2 DEF QuantitiesPositive, Cart
  <1>3. QED
    BY <1>1, <1>2 DEF Next, GatewayStep, GatewayNext

\* Every step keeps the order of booking.
LEMMA OrderStep ==
  ASSUME TypeOK, CommittedInOrder, Frontier, CurrentFirst, [Next]_vars
  PROVE  CommittedInOrder' /\ Frontier' /\ CurrentFirst'
  <1> USE DEF Handled
  <1>n. /\ Len(log) \in Nat /\ DOMAIN log = 1..Len(log)
        /\ Handled \subseteq Nat /\ batch \subseteq Nat
        /\ cur \in Nat /\ rpos \in Nat /\ cursor \in Nat \cup {Latest}
        /\ Latest \notin Int
        /\ \A h \in Handled : h <= Len(log)
    BY MarkerAssumption DEF TypeOK, StoreTypeOK, WorkerTypeOK
  <1>1. CASE UNCHANGED <<dbVars, workerVars>>
    BY <1>1 DEF CommittedInOrder, Frontier, CurrentFirst, Committed, dbVars, workerVars
  <1>2. CASE StartRead \/ Deliver \/ ReadNil \/ ReadError \/ Stop
    <2>1. UNCHANGED <<dbVars, cursor, cur, rejected>> /\ Committed' = Committed
      BY <1>2 DEF StartRead, Deliver, ReadNil, ReadError, Stop, dbVars, Committed
    <2>2. CommittedInOrder'
      BY <2>1 DEF CommittedInOrder, dbVars
    <2>3. CurrentFirst'
      BY <1>2 DEF CurrentFirst, StartRead, Deliver, ReadNil, ReadError, Stop
    <2>4. Frontier'
      <3>1. CASE StartRead
        BY <1>n, <2>1, <3>1 DEF StartRead, Resolve, Frontier
      <3>2. CASE Deliver
        <4>1. \A i \in batch' : i \in Nat /\ i > rpos
          BY <1>n, <3>2 DEF Deliver, NextBatch, Available
        <4>2. QED
          BY <1>n, <2>1, <3>2, <4>1 DEF Deliver, Frontier
      <3>3. CASE ReadNil \/ ReadError \/ Stop
        BY <1>n, <2>1, <3>3 DEF ReadNil, ReadError, Stop, Frontier
      <3>4. QED
        BY <1>2, <3>1, <3>2, <3>3
    <2>5. QED
      BY <2>2, <2>3, <2>4
  <1>3. CASE Commit \/ CommitLost
    <2>1. PICK i \in batch : IsOldest(i) /\ Settleable(log[i]) /\ Book(i) /\ Take(i)
      BY <1>3 DEF Commit, CommitLost
    <2>2. i \in DOMAIN log /\ i \in Nat /\ \A h \in Handled : h < i
      BY <1>3, <2>1 DEF TypeOK, WorkerTypeOK, Commit, CommitLost, Frontier
    <2>3. Committed' = Committed \cup {i} /\ history' = Append(history, i)
      BY <2>1, <2>2, BookTyping DEF Book, CreateTransaction
    <2>4. CommittedInOrder'
      <3>1. history \in Seq(Nat) /\ Len(history) \in Nat
        BY DEF TypeOK, StoreTypeOK
      <3>2. /\ DOMAIN history' = 1..(Len(history) + 1) /\ DOMAIN history = 1..Len(history)
            /\ \A k \in DOMAIN history : history'[k] = history[k]
            /\ history'[Len(history) + 1] = i
        BY <2>2, <2>3, <3>1
      <3>3. \A k \in DOMAIN history : history[k] < i
        BY <2>2 DEF Committed
      <3>4. QED
        BY <3>1, <3>2, <3>3 DEF CommittedInOrder
    <2>5. /\ rejected' \subseteq rejected \cup {i}
          /\ wpc' \in {"ack", "refundWallet"}
          /\ cur' = i /\ batch' = batch \ {i}
      <3>1. rejected' = rejected \/ rejected' = rejected \cup {cur'}
        BY <1>3 DEF Commit, CommitLost, Take
      <3>2. QED
        BY <1>3, <2>1, <3>1 DEF Commit, CommitLost, Take
    <2>6. Frontier'
      BY <1>n, <2>2, <2>3, <2>5 DEF Frontier
    <2>7. CurrentFirst'
      BY <1>n, <2>1, <2>2, <2>5 DEF CurrentFirst, IsOldest
    <2>8. QED
      BY <2>4, <2>6, <2>7
  <1>4. CASE Abort
    <2>1. PICK i \in batch : IsOldest(i) /\ Take(i) /\ rejected' = rejected \cup {i}
      BY <1>4 DEF Abort
    <2>2. i \in Nat /\ \A h \in Handled : h < i
      BY <1>n, <1>4, <2>1 DEF Abort, Frontier
    <2>3. UNCHANGED dbVars /\ Committed' = Committed /\ wpc' = "refundWallet"
      BY <1>4 DEF Abort, dbVars, Committed
    <2>4. CommittedInOrder'
      BY <2>3 DEF CommittedInOrder, dbVars
    <2>5. Frontier'
      BY <1>n, <2>1, <2>2, <2>3 DEF Frontier, Take
    <2>6. CurrentFirst'
      BY <1>n, <2>1, <2>2, <2>3 DEF CurrentFirst, Take, IsOldest
    <2>7. QED
      BY <2>4, <2>5, <2>6
  <1>5. CASE RefundWallet \/ RefundStock
    <2>1. /\ UNCHANGED <<dbVars, cursor, rpos, batch, cur, rejected>>
          /\ Committed' = Committed
          /\ wpc \in {"refundWallet", "refundStock"} /\ wpc' \in {"refundStock", "ack"}
      BY <1>5 DEF RefundWallet, RefundStock, dbVars, Committed
    <2>2. QED
      BY <2>1 DEF CommittedInOrder, Frontier, CurrentFirst, dbVars
  <1>6. CASE Ack
    <2>1. /\ UNCHANGED <<dbVars, rpos, batch, rejected>> /\ Committed' = Committed
          /\ wpc = "ack" /\ cursor' = cur
          /\ wpc' = (IF batch = {} THEN "loop" ELSE "batch")
      BY <1>6 DEF Ack, dbVars, Committed
    <2>2. Frontier'
      BY <1>n, <2>1 DEF Frontier, CurrentFirst
    <2>3. QED
      BY <2>1, <2>2 DEF CommittedInOrder, CurrentFirst, dbVars
  <1>7. CASE Process
    <2>1. /\ UNCHANGED dbVars /\ rejected' = rejected /\ Committed' = Committed
          /\ \/ UNCHANGED workerVars
             \/ wpc' = "down"
             \/ wpc' = "loop" /\ cursor' = Latest
      BY <1>7 DEF Process, Signal, GracefulStop, Exit, Crash, Restart, StartId,
         workerVars, dbVars, Committed
    <2>2. QED
      BY <2>1 DEF CommittedInOrder, Frontier, CurrentFirst, dbVars, workerVars
  <1>8. QED
    BY <1>1, <1>2, <1>3, <1>4, <1>5, <1>6, <1>7
       DEF Next, vars, GatewayStep, GatewayNext, WorkerStep, WorkerNext, Settle

\* The whole invariant holds at the start and is kept by every step.
LEMMA InductiveInit == Init => Inductive
  <1> SUFFICES ASSUME Init PROVE Inductive
    OBVIOUS
  <1>1. log = <<>> /\ history = <<>> /\ rejected = {} /\ Committed = {}
        /\ wpc = "loop" /\ \A r \in Requests : pc[r] = "idle"
    BY DEF Init, StoreInit, GatewayInit, WorkerInit, Committed
  <1>2. QuantitiesPositive /\ CommittedInOrder /\ Frontier /\ CurrentFirst
    BY <1>1 DEF QuantitiesPositive, CommittedInOrder, Frontier, CurrentFirst, Handled
  <1>3. QED
    BY <1>2, TypingInit DEF Inductive

LEMMA InductiveStep == Inductive /\ [Next]_vars => Inductive'
  BY TypingStep, QuantitiesStep, OrderStep DEF Inductive

\* The invariant that the other theorems rest on.
THEOREM InductiveHolds == Spec => []Inductive
  BY InductiveInit, InductiveStep, PTL DEF Spec

\* Whatever crashes, restarts and failures come between, no task is booked twice
\* and none is booked after a younger one.
THEOREM BookedOnceInOrder == Spec => []CommittedInOrder
  <1>1. Inductive => CommittedInOrder
    BY DEF Inductive
  <1>2. QED
    BY <1>1, InductiveHolds, PTL

-----------------------------------------------------------------------------
\* The check under the row locks keeps the books from going below zero.
LEMMA NonNegativeStep ==
  ASSUME Inductive, DbNonNegative, [Next]_vars
  PROVE  DbNonNegative'
  <1>t. /\ dbBalance \in [Users -> Int \cup {Absent}] /\ dbStock \in [Products -> Int]
        /\ log \in Seq(Task)
    BY DEF Inductive, TypeOK, StoreTypeOK
  <1>1. ASSUME NEW i \in batch, Settleable(log[i]), Book(i)
        PROVE  DbNonNegative'
    <2>1. i \in DOMAIN log /\ log[i] \in Task /\ log[i].qty > 0 /\ log[i].amount >= 0
      BY <1>t DEF Inductive, TypeOK, WorkerTypeOK, QuantitiesPositive
    <2> DEFINE t == log[i]
    <2>2. /\ t.user \in Users /\ t.product \in Products /\ t.kind \in {"pickup", "return"}
          /\ t.amount \in Int /\ t.qty \in Int
      BY <2>1 DEF Task
    <2>3. dbBalance[t.user] \in Int /\ dbStock[t.product] \in Int
      BY <1>1, <1>t, <2>2 DEF Settleable, MemberExists
    <2>4. dbBalance[t.user] >= 0 /\ dbStock[t.product] >= 0
      BY <1>1, <2>2 DEF DbNonNegative, Settleable, MemberExists
    <2>5. dbBalance[t.user] + Sign(t) * t.amount >= 0
      BY <1>1, <2>1, <2>2, <2>3, <2>4 DEF Settleable, WithinLimits, Sign
    <2>6. dbStock[t.product] + Sign(t) * t.qty >= 0
      BY <1>1, <2>1, <2>2, <2>3, <2>4 DEF Settleable, WithinLimits, Sign
    <2>7. /\ dbBalance' = [dbBalance EXCEPT ![t.user] = @ + Sign(t) * t.amount]
          /\ dbStock' = [dbStock EXCEPT ![t.product] = @ + Sign(t) * t.qty]
      BY <1>1 DEF Book, UpdateMember, UpdateProduct
    <2> HIDE DEF t
    <2>8. \A u \in Users : dbBalance'[u] # Absent => dbBalance'[u] >= 0
      BY <1>t, <2>2, <2>5, <2>7 DEF DbNonNegative
    <2>9. \A p \in Products : dbStock'[p] >= 0
      BY <1>t, <2>2, <2>6, <2>7 DEF DbNonNegative
    <2>10. QED
      BY <2>8, <2>9 DEF DbNonNegative
  <1>2. CASE UNCHANGED <<dbBalance, dbStock>>
    BY <1>2 DEF DbNonNegative
  <1>3. CASE Commit \/ CommitLost
    BY <1>1, <1>3 DEF Commit, CommitLost
  <1>4. (Commit \/ CommitLost) \/ UNCHANGED <<dbBalance, dbStock>>
    BY DEF Next, vars, GatewayStep, GatewayNext, WorkerStep, WorkerNext, Settle, StartRead,
       Deliver, ReadNil, ReadError, Stop, Abort, RefundWallet, RefundStock, Ack, Process,
       Signal, GracefulStop, Exit, Crash, Restart, dbVars
  <1>5. QED
    BY <1>2, <1>3, <1>4

\* Neither balances nor stock in the database are ever negative, however wrong
\* the counters are and whatever fails.
THEOREM BooksNonNegative == Spec => []DbNonNegative
  <1>1. Init => DbNonNegative
    BY OpeningAssumption, MarkerAssumption DEF Init, StoreInit, DbNonNegative
  <1>2. QED
    BY <1>1, InductiveInit, InductiveStep, NonNegativeStep, PTL DEF Spec

-----------------------------------------------------------------------------
(***************************************************************************)
(* The order pipeline implements the abstract ledger, and the promises     *)
(* that hold as long as one kind of fault is absent.                       *)
(***************************************************************************)

\* A step of the pipeline adds one task, or books one, or leaves the books alone.
LEMMA BooksStep ==
  ASSUME Inductive, DbNonNegative, Inductive', DbNonNegative', [Next]_vars
  PROVE  [Books!Next]_(Books!vars)
  <1>t. /\ dbBalance \in [Users -> Int \cup {Absent}] /\ dbStock \in [Products -> Int]
        /\ log \in Seq(Task) /\ history \in Seq(Nat)
    BY DEF Inductive, TypeOK, StoreTypeOK
  <1>1. CASE UNCHANGED <<log, dbVars>>
    BY <1>1 DEF Books!vars, dbVars
  <1>2. ASSUME NEW r \in Requests, XAdd(r), UNCHANGED dbVars
        PROVE  Books!Record
    <2>1. log' = Append(log, TaskOf(r))
      BY <1>2 DEF XAdd
    <2>2. log' \in Seq(Task)
      BY DEF Inductive, TypeOK, StoreTypeOK
    <2>3. Len(log') = Len(log) + 1 /\ log'[Len(log')] \in Task
      BY <1>t, <2>1, <2>2
    <2>4. log' = Append(log, log'[Len(log')])
      BY <1>t, <2>1, <2>3
    <2>5. QED
      BY <1>2, <2>3, <2>4 DEF Books!Record, dbVars
  <1>3. ASSUME NEW i \in batch, wpc = "batch", Settleable(log[i]), Book(i), log' = log
        PROVE  Books!Settle(i) /\ i \in DOMAIN log
    <2>1. i \in DOMAIN log /\ log[i] \in Task
      BY <1>t DEF Inductive, TypeOK, WorkerTypeOK
    <2>2. log[i].user \in Users /\ log[i].product \in Products
      BY <2>1 DEF Task
    <2>3. \A k \in DOMAIN history : history[k] < i
      BY <1>3 DEF Inductive, Frontier, Handled, Committed
    <2>4. dbBalance[log[i].user] # Absent
      BY <1>3 DEF Settleable, MemberExists
    <2>5. /\ dbBalance' = [dbBalance EXCEPT ![log[i].user] = @ + Sign(log[i]) * log[i].amount]
          /\ dbStock' = [dbStock EXCEPT ![log[i].product] = @ + Sign(log[i]) * log[i].qty]
          /\ history' = Append(history, i)
      BY <1>3 DEF Book, UpdateMember, UpdateProduct, CreateTransaction
    <2>6. dbBalance'[log[i].user] # Absent
      <3>1. dbBalance[log[i].user] \in Int /\ log[i].amount \in Int /\ Sign(log[i]) \in Int
        BY <1>t, <2>1, <2>2, <2>4 DEF Task, Sign
      <3>2. dbBalance'[log[i].user] \in Int
        BY <1>t, <2>2, <2>5, <3>1
      <3>3. QED
        BY <3>2, MarkerAssumption
    <2>7. dbBalance'[log[i].user] >= 0 /\ dbStock'[log[i].product] >= 0
      BY <2>2, <2>6 DEF DbNonNegative
    <2>8. QED
      BY <1>3, <2>1, <2>3, <2>4, <2>5, <2>7 DEF Books!Settle, Books!InTurn, Sign
  <1>4. CASE Commit \/ CommitLost
    <2>1. PICK i \in batch : Settleable(log[i]) /\ Book(i)
      BY <1>4 DEF Commit, CommitLost
    <2>2. wpc = "batch"
      BY <1>4 DEF Commit, CommitLost
    <2>3. CASE log' = log
      BY <1>3, <2>1, <2>2, <2>3 DEF Books!Next
    <2>4. CASE log' # log
      BY <1>4, <2>4 DEF Next, vars, GatewayStep, GatewayNext, WorkerStep, WorkerNext,
         Commit, CommitLost, Process, Signal, GracefulStop, Exit, Crash, Restart,
         streamVars, workerVars
    <2>5. QED
      BY <2>3, <2>4
  <1>5. CASE \E r \in Requests : XAdd(r) /\ UNCHANGED dbVars
    BY <1>2, <1>5 DEF Books!Next
  <1>6. \/ UNCHANGED <<log, dbVars>>
        \/ Commit \/ CommitLost
        \/ \E r \in Requests : XAdd(r) /\ UNCHANGED dbVars
    <2>1. CASE GatewayStep
      <3>1. UNCHANGED dbVars
        BY <2>1 DEF GatewayStep, GatewayNext
      <3>2. CASE \E u \in Users : Expire(u)
        BY <3>1, <3>2 DEF Expire
      <3>3. CASE \E r \in Requests : Begin(r) \/ Call(r)
        <4>1. PICK r \in Requests : Begin(r) \/ Call(r)
          BY <3>3
        <4>2. XAdd(r) \/ log' = log
          BY <4>1 DEF Begin, Call, Acquire, Busy, AcquireFails, PriceLine, RejectLine, Priced,
             Reserve, Refuse, ReserveLost, ReserveAgain, AtGate, PushDone, PushFail,
             PushAgain, Pushing, UndoWallet, UndoStock,
             UndoDone, Release
        <4>3. QED
          BY <3>1, <4>2
      <3>4. QED
        BY <2>1, <3>2, <3>3 DEF GatewayStep, GatewayNext
    <2>2. CASE WorkerStep \/ Process \/ UNCHANGED vars
      BY <2>2 DEF vars, WorkerStep, WorkerNext, Settle, StartRead, Deliver, ReadNil, ReadError,
         Stop, Abort, RefundWallet, RefundStock, Ack, Process, Signal, GracefulStop, Exit,
         Crash, Restart,
         dbVars, streamVars
    <2>3. QED
      BY <2>1, <2>2 DEF Next
  <1>7. QED
    BY <1>1, <1>4, <1>5, <1>6

\* The database of the pipeline behaves like the ledger: at most once, in order,
\* money and goods together, never below zero.
THEOREM Refinement == Spec => ImplementsLedger
  <1>1. Init => Books!Init /\ DbNonNegative
    BY OpeningAssumption, MarkerAssumption DEF Init, StoreInit, Books!Init, DbNonNegative
  <1>2. Inductive /\ DbNonNegative /\ [Next]_vars => Inductive' /\ DbNonNegative'
    BY InductiveStep, NonNegativeStep
  <1>3. Inductive /\ DbNonNegative /\ [Next]_vars => [Books!Next]_(Books!vars)
    BY <1>2, BooksStep
  <1>4. QED
    BY <1>1, <1>2, <1>3, InductiveInit, PTL DEF Spec, ImplementsLedger, Books!Spec

-----------------------------------------------------------------------------
\* No fault makes a call take away a lock that another call has taken.
THEOREM ReleasesOnlyOwn == Spec => ReleaseOnlyOwn
  <1> DEFINE Own == \A u \in Users :
                      lock[u] # Free /\ lock'[u] # lock[u] =>
                        \/ pc' = pc
                        \/ pc[lock[u]] = "release" /\ pc'[lock[u]] = "done"
  <1>1. ASSUME Inductive, [Next]_vars PROVE Own
    <2>t. /\ pc \in [Requests -> Places]
          /\ lock \in [Users -> Requests \cup {Free}]
      BY <1>1 DEF Inductive, TypeOK, StoreTypeOK, GatewayTypeOK
    <2>1. CASE UNCHANGED vars \/ WorkerStep \/ Process
      BY <2>1 DEF vars, WorkerStep, WorkerNext, Process, Signal, GracefulStop, Exit,
         Crash, Restart,
         cacheVars, gatewayVars
    <2>2. ASSUME NEW r \in Requests, Begin(r) \/ Call(r) PROVE Own
      <3>1. CASE Acquire(r) \/ AcquireFails(r)
        BY <2>t, <3>1 DEF Acquire, LockFree, AcquireFails
      <3>2. CASE Release(r)
        BY <2>t, <3>2 DEF Release, Owns, Goto
      <3>3. CASE ~(Acquire(r) \/ AcquireFails(r) \/ Release(r))
        <4>1. lock' = lock
          BY <2>2, <3>3 DEF Begin, Call, Busy, PriceLine, RejectLine, Priced, Reserve, Refuse,
             ReserveLost, ReserveAgain, AtGate, Deduct, XAdd, PushDone, PushFail,
             PushAgain, Pushing, UndoWallet, UndoStock, UndoDone,
             cacheVars
        <4>2. QED
          BY <4>1
      <3>4. QED
        BY <3>1, <3>2, <3>3
    <2>3. ASSUME NEW u \in Users, Expire(u) PROVE Own
      BY <2>3 DEF Expire, gatewayVars
    <2> HIDE DEF Own
    <2>4. QED
      BY <1>1, <2>1, <2>2, <2>3 DEF Next, GatewayStep, GatewayNext
  <1>2. Inductive /\ [Next]_vars => [Own]_vars
    BY <1>1
  <1>3. QED
    BY <1>2, InductiveHolds, PTL DEF Spec, ReleaseOnlyOwn

\* A call past the lock is the one that its user's lock names.
Holds(r) == InFlight(r) /\ pc[r] # "lock"
LockHeld == \A r \in Requests : Holds(r) => lock[order[r].user] = r

\* Without a lock running out under its holder, the lock stays with the call.
LEMMA LockHeldStep ==
  ASSUME "expiry" \notin Faults, Inductive, LockHeld, [Next]_vars
  PROVE  LockHeld'
  <1>t. /\ pc \in [Requests -> Places]
        /\ lock \in [Users -> Requests \cup {Free}]
        /\ order \in [Requests -> Order \cup {Absent}]
        /\ \A r \in Requests : pc[r] # "idle" => order[r].user \in Users
        /\ Free \notin Requests
    BY OrderOfCall, MarkerAssumption
       DEF Inductive, TypeOK, StoreTypeOK, GatewayTypeOK
  <1>1. CASE UNCHANGED vars \/ WorkerStep \/ Process
    <2>1. /\ lock' = lock /\ order' = order
          /\ pc' = pc \/ pc' = [r \in Requests |-> IF InFlight(r) THEN "dead" ELSE pc[r]]
      BY <1>1 DEF vars, WorkerStep, WorkerNext, Process, Signal, GracefulStop, Exit,
         Crash, Restart,
         cacheVars, gatewayVars
    <2>2. \A r \in Requests : Holds(r)' => Holds(r)
      BY <1>t, <2>1 DEF Holds, InFlight
    <2>3. QED
      BY <2>1, <2>2 DEF LockHeld
  <1>2. ASSUME NEW u \in Users, Expire(u) PROVE LockHeld'
    <2>1. /\ Finished(lock[u]) /\ lock' = [lock EXCEPT ![u] = Free]
          /\ pc' = pc /\ order' = order
      BY <1>2 DEF Expire, Overdue, gatewayVars
    <2>2. \A r \in Requests : Holds(r) => order[r].user # u
      BY <2>1 DEF LockHeld, Holds, InFlight, Finished
    <2>3. QED
      BY <1>t, <2>1, <2>2 DEF LockHeld, Holds, InFlight
  <1>3. ASSUME NEW r \in Requests, Begin(r) \/ Call(r) PROVE LockHeld'
    <2>1. CASE Begin(r)
      <3>1. /\ lock' = lock /\ pc'[r] \in {"lock", "done"}
            /\ \A s \in Requests \ {r} : pc'[s] = pc[s] /\ order'[s] = order[s]
        BY <1>t, <2>1 DEF Begin, Goto, cacheVars
      <3>2. QED
        BY <3>1 DEF LockHeld, Holds, InFlight
    <2>2. CASE Acquire(r)
      BY <1>t, <2>2 DEF Acquire, LockFree, Goto, LockHeld, Holds, InFlight
    <2>3. CASE Busy(r)
      BY <1>t, <2>3 DEF Busy, Goto, cacheVars, LockHeld, Holds, InFlight
    <2>4. CASE AcquireFails(r)
      <3>1. /\ \A u \in Users : lock'[u] = lock[u] \/ lock[u] = Free
            /\ pc' = [pc EXCEPT ![r] = "done"] /\ order' = order
        BY <1>t, <2>4 DEF AcquireFails, LockFree, Goto
      <3>2. \A s \in Requests : Holds(s)' => Holds(s)
        BY <1>t, <3>1 DEF Holds, InFlight
      <3>3. \A s \in Requests : Holds(s) => order[s].user \in Users /\ lock[order[s].user] = s
        BY <1>t DEF Holds, InFlight, LockHeld
      <3>4. QED
        BY <1>t, <3>1, <3>2, <3>3 DEF LockHeld
    <2>5. CASE Release(r)
      <3>1. /\ \A u \in Users : lock'[u] = lock[u] \/ lock[u] = r
            /\ pc' = [pc EXCEPT ![r] = "done"] /\ order' = order
        BY <1>t, <2>5 DEF Release, Owns, Goto
      <3>2. \A s \in Requests : Holds(s)' => s # r /\ Holds(s)
        BY <1>t, <3>1 DEF Holds, InFlight
      <3>3. \A s \in Requests : Holds(s) => order[s].user \in Users
        BY <1>t DEF Holds, InFlight
      <3>4. QED
        BY <3>1, <3>2, <3>3 DEF LockHeld
    <2>6. CASE ~(Begin(r) \/ Acquire(r) \/ Busy(r) \/ AcquireFails(r) \/ Release(r))
      <3>1. /\ lock' = lock /\ order' = order
            /\ Holds(r)
            /\ \A s \in Requests \ {r} : pc'[s] = pc[s]
        BY <1>t, <1>3, <2>6 DEF Call, PriceLine, RejectLine, Priced, Reserve, Refuse,
           ReserveLost, ReserveAgain, AtGate, Deduct, XAdd, PushDone, PushFail, PushAgain,
           Pushing, UndoWallet, UndoStock, UndoDone,
           cacheVars, Goto, Holds, InFlight
      <3>2. \A s \in Requests : Holds(s)' => Holds(s)
        BY <3>1 DEF Holds, InFlight
      <3>3. QED
        BY <3>1, <3>2 DEF LockHeld
    <2>7. QED
      BY <2>1, <2>2, <2>3, <2>4, <2>5, <2>6
  <1>4. QED
    BY <1>1, <1>2, <1>3 DEF Next, GatewayStep, GatewayNext

\* As long as no lock runs out under its holder, a user has one call at work.
THEOREM OneOrderAtATime ==
  ASSUME "expiry" \notin Faults PROVE Spec => []OneOrderPerUser
  <1>1. Init => LockHeld
    BY DEF Init, GatewayInit, LockHeld, Holds, InFlight
  <1>2. Inductive /\ LockHeld /\ [Next]_vars => LockHeld'
    BY LockHeldStep
  <1>3. LockHeld => OneOrderPerUser
    BY DEF LockHeld, Holds, OneOrderPerUser
  <1>4. QED
    BY <1>1, <1>2, <1>3, InductiveHolds, PTL DEF Spec

-----------------------------------------------------------------------------
\* Booking a message adds its task to those committed.
LEMMA BookAdds ==
  ASSUME Inductive, NEW i \in batch, Settleable(log[i]), Book(i)
  PROVE  Committed' = Committed \cup {i} /\ i \in Nat
  <1>1. TypeOK /\ i \in DOMAIN log /\ log \in Seq(Task)
    BY DEF Inductive, TypeOK, StoreTypeOK, WorkerTypeOK
  <1>2. QED
    BY <1>1, BookTyping

\* The message in hand has its outcome.
CurrentHandled ==
  wpc \in {"refundWallet", "refundStock", "ack"} => cur \in Handled

\* Only a message whose transaction has ended is deleted.
LEMMA DeletedStep ==
  ASSUME Inductive, CurrentHandled, DeletedAreHandled, [Next]_vars
  PROVE  CurrentHandled' /\ DeletedAreHandled'
  <1>1. Committed \subseteq Committed' /\ rejected \subseteq rejected'
    <2>1. UNCHANGED dbVars => Committed' = Committed
      BY DEF dbVars, Committed
    <2>2. CASE UNCHANGED dbVars
      BY <2>1, <2>2 DEF Next, vars, GatewayStep, WorkerStep, WorkerNext, Settle, StartRead,
         Deliver, ReadNil, ReadError, Stop, Commit, Abort, CommitLost, RefundWallet,
         RefundStock, Ack, Process, Signal, GracefulStop, Exit, Crash, Restart, workerVars
    <2>3. CASE Commit \/ CommitLost
      <3>1. PICK i \in batch : Settleable(log[i]) /\ Book(i)
        BY <2>3 DEF Commit, CommitLost
      <3>2. Committed' = Committed \cup {i}
        BY <3>1, BookAdds
      <3>3. QED
        BY <2>3, <3>2 DEF Commit, CommitLost
    <2>4. QED
      BY <2>2, <2>3 DEF Next, vars, GatewayStep, GatewayNext, WorkerStep, WorkerNext, Settle,
         StartRead, Deliver, ReadNil, ReadError, Stop, Abort, RefundWallet, RefundStock, Ack,
         Process, Signal, GracefulStop, Exit, Crash, Restart
  <1>2. Handled \subseteq Handled'
    BY <1>1 DEF Handled
  <1>3. CASE Ack
    BY <1>2, <1>3 DEF Ack, Acked, CurrentHandled, DeletedAreHandled
  <1>4. CASE ~Ack
    <2>1. deleted' = deleted
      BY <1>4 DEF Next, vars, GatewayStep, GatewayNext, WorkerStep, WorkerNext, Settle,
         StartRead, Deliver, ReadNil, ReadError, Stop, Commit, Abort, CommitLost, RefundWallet,
         RefundStock, Process, Signal, GracefulStop, Exit, Crash, Restart, streamVars
    <2>2. CASE Commit \/ CommitLost
      <3>1. PICK i \in batch : Settleable(log[i]) /\ Book(i) /\ Take(i)
        BY <2>2 DEF Commit, CommitLost
      <3>2. i \in Committed' /\ cur' = i
        BY <3>1, BookAdds DEF Take
      <3>3. QED
        BY <1>2, <2>1, <3>2 DEF CurrentHandled, DeletedAreHandled, Handled
    <2>3. CASE Abort
      BY <1>2, <2>1, <2>3 DEF Abort, Take, CurrentHandled, DeletedAreHandled, Handled
    <2>4. CASE ~(Commit \/ CommitLost \/ Abort)
      <3>1. \/ wpc' \notin {"refundWallet", "refundStock", "ack"}
            \/ wpc \in {"refundWallet", "refundStock", "ack"} /\ cur' = cur
        BY <1>4, <2>4 DEF Next, vars, GatewayStep, GatewayNext, WorkerStep, WorkerNext, Settle,
           StartRead, Deliver, ReadNil, ReadError, Stop, RefundWallet, RefundStock, Process,
           Signal, GracefulStop, Exit, Crash, Restart, workerVars
      <3>2. QED
        BY <1>2, <2>1, <3>1 DEF CurrentHandled, DeletedAreHandled
    <2>5. QED
      BY <2>2, <2>3, <2>4
  <1>5. QED
    BY <1>3, <1>4

\* A task without an outcome keeps its message, under every fault.
THEOREM NoUnhandledDeletion == Spec => []DeletedAreHandled
  <1>1. Init => CurrentHandled /\ DeletedAreHandled
    BY DEF Init, StoreInit, WorkerInit, CurrentHandled, DeletedAreHandled
  <1>2. QED
    BY <1>1, DeletedStep, InductiveHolds, PTL DEF Spec

\* The frontier keeps a task from being booked and turned down.
LEMMA NeverBothStep ==
  ASSUME "commit" \notin Faults, Inductive, NeverBoth, [Next]_vars
  PROVE  NeverBoth'
  <1>1. CASE Commit
    <2>1. PICK i \in batch : Settleable(log[i]) /\ Book(i)
      BY <1>1 DEF Commit
    <2>2. Committed' = Committed \cup {i} /\ rejected' = rejected
      BY <1>1, <2>1, BookAdds DEF Commit
    <2>3. i \in Nat /\ \A h \in rejected : h < i
      BY <1>1 DEF Commit, Inductive, Frontier, Handled, TypeOK, WorkerTypeOK, StoreTypeOK
    <2>4. QED
      BY <2>2, <2>3 DEF NeverBoth
  <1>2. CASE Abort
    <2>1. PICK i \in batch : rejected' = rejected \cup {i}
      BY <1>2 DEF Abort
    <2>2. Committed' = Committed
      BY <1>2 DEF Abort, dbVars, Committed
    <2>3. i \in Nat /\ \A h \in Committed : h < i
      BY <1>2 DEF Abort, Inductive, Frontier, Handled, TypeOK, WorkerTypeOK, StoreTypeOK
    <2>4. QED
      BY <2>1, <2>2, <2>3 DEF NeverBoth
  <1>3. CASE ~(Commit \/ Abort)
    <2>1. UNCHANGED <<history, rejected>>
      BY <1>3 DEF Next, vars, GatewayStep, GatewayNext, WorkerStep, WorkerNext, Settle,
         StartRead, Deliver, ReadNil, ReadError, Stop, CommitLost, RefundWallet, RefundStock,
         Ack, Process, Signal, GracefulStop, Exit, Crash, Restart, dbVars, workerVars
    <2>2. QED
      BY <2>1 DEF NeverBoth, Committed
  <1>4. QED
    BY <1>1, <1>2, <1>3

\* As long as no COMMIT loses its reply, no task is both booked and compensated.
THEOREM NeverBookedAndCompensated ==
  ASSUME "commit" \notin Faults PROVE Spec => []NeverBoth
  <1>1. Init => NeverBoth
    BY DEF Init, WorkerInit, NeverBoth
  <1>2. Inductive /\ NeverBoth /\ [Next]_vars => NeverBoth'
    BY NeverBothStep
  <1>3. QED
    BY <1>1, <1>2, InductiveHolds, PTL DEF Spec
=============================================================================

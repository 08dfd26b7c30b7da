------------------------------ MODULE HopProofs -----------------------------
(***************************************************************************)
(* Proofs about POST /trade, for every set of users, products, clicks and  *)
(* carts: what the handler tells whoever clicked is what Checkout          *)
(* promises.                                                               *)
(***************************************************************************)
EXTENDS TradeHop, TradeCallProofs

\* The click behind each call, and what it asked for.
AsAsked ==
  \A r \in Requests :
    /\ hop[r] # "idle" => asked[r] \in [user : Users, cart : Baskets]
    /\ hop[r] = "idle" => asked[r] = Absent
    /\ pc[r] # "idle" =>
         /\ hop[r] # "idle"
         /\ order[r] = [user |-> asked[r].user, cart |-> Wire(asked[r].cart)]

\* Every task is that of a line of its call's order.
Copied ==
  \A i \in DOMAIN log :
    /\ log[i].part \in DOMAIN order[log[i].by].cart
    /\ LineOf(log[i]) = LineAt(order[log[i].by], log[i].part)

\* A task of line k of call r is in the stream, perhaps twice.
InStream(r, k) == \E i \in DOMAIN log : log[i].by = r /\ log[i].part = k

\* The call has no task.
NoTask(r) == \A i \in DOMAIN log : log[i].by # r

\* How far a call has come with its tasks and its answer.
TasksOf(r) ==
  /\ pc[r] \in {"gate", "regate"} => line[r] = 1
  /\ pc[r] \in {"push", "repush"} =>
       \A k \in DOMAIN Cart(r) : k < line[r] => InStream(r, k)
  /\ pc[r] = "push" /\ line[r] = 1 => NoTask(r)
  /\ pc[r] \in {"undoWallet", "undoStock"} => reply[r] = "error"
  /\ pc[r] \in {"release", "done"} => reply[r] # "none"
  /\ pc[r] \in {"idle", "lock", "price", "gate", "regate", "push", "repush"} =>
       reply[r] = "none"
  /\ reply[r] = "pending" => \A k \in DOMAIN Cart(r) : InStream(r, k)
  /\ reply[r] = "error" => NoTask(r)

\* So it is for every call.
TasksAsAnswered == \A r \in Requests : TasksOf(r)

-----------------------------------------------------------------------------
\* Seen from the pipeline, the hop in front of it adds no step of its own.
LEMMA HopIsNext == [HopNext]_allVars => [Next]_vars
  <1>1. ASSUME NEW r \in Requests, Click(r) \/ SendFails(r) \/ GiveUp(r) \/ Reply(r)
        PROVE  UNCHANGED vars
    BY <1>1 DEF Click, SendFails, GiveUp, Reply
  <1>2. ASSUME NEW r \in Requests, Arrive(r) \/ CallStep(r)
        PROVE  Next
    BY <1>2 DEF Arrive, CallStep, Next, GatewayStep, GatewayNext
  <1>3. ASSUME NEW u \in Users, ExpireStep(u)
        PROVE  Next
    BY <1>3 DEF ExpireStep, Next, GatewayStep, GatewayNext
  <1>4. HopProcess => Next
    BY DEF HopProcess, Shutdown, Next, Process
  <1>5. UNCHANGED allVars => UNCHANGED vars
    BY DEF allVars
  <1>6. QED
    BY <1>1, <1>2, <1>3, <1>4, <1>5 DEF HopNext, Behind, Next

\* So whatever holds of the pipeline holds behind POST /trade.
LEMMA HopRunsPipeline == HopSpec => Spec
  <1>1. HopInit => Init
    BY DEF HopInit
  <1>2. QED
    BY <1>1, HopIsNext, PTL DEF HopSpec, Spec

\* A step of the pipeline that is no arrival leaves the idle calls idle and the
\* orders of the others alone.
LEMMA OrdersStay ==
  ASSUME Inductive, [Next]_vars, NEW r \in Requests, ~Begin(r)
  PROVE  /\ pc'[r] # "idle" => pc[r] # "idle" /\ order'[r] = order[r]
         /\ InFlight(r)' => InFlight(r)
  <1>1. CASE \E s \in Requests : Begin(s) \/ Call(s)
    <2>1. PICK s \in Requests : Begin(s) \/ Call(s)
      BY <1>1
    <2>2. CASE s # r
      BY <2>1, <2>2, CallFrame DEF InFlight
    <2>3. CASE s = r
      <3>1. Call(r)
        BY <2>1, <2>3
      <3>2. order' = order
        BY <3>1, CallFrame
      <3>3. pc[r] \notin {"idle", "done", "dead"}
        BY <3>1 DEF Call, Acquire, Busy, AcquireFails, PriceLine, RejectLine, Priced, Reserve,
           Refuse, ReserveLost, ReserveAgain, AtGate, XAdd, PushDone, PushFail, PushAgain, Pushing,
           UndoWallet, UndoStock, UndoDone, Release
      <3>4. QED
        BY <3>2, <3>3 DEF InFlight
    <2>4. QED
      BY <2>2, <2>3
  <1>2. CASE ~\E s \in Requests : Begin(s) \/ Call(s)
    BY <1>2, OtherSteps DEF InFlight
  <1>3. QED
    BY <1>1, <1>2

\* A cart on the wire.
LEMMA OnTheWire ==
  ASSUME NEW a \in [user : Users, cart : Baskets]
  PROVE  /\ a \in Order /\ a.user \in Users /\ Wire(a.cart) \in Carts
         /\ a.cart \in Seq(Line) /\ DOMAIN Wire(a.cart) = DOMAIN a.cart
         /\ \A k \in DOMAIN a.cart :
              /\ a.cart[k] \in Line /\ a.cart[k].product \in Products
              /\ Wire(a.cart)[k] = [a.cart[k] EXCEPT !.product = OnWire[a.cart[k].product]]
         /\ [a EXCEPT !.cart = Wire(a.cart)] = [user |-> a.user, cart |-> Wire(a.cart)]
  <1>1. a.cart \in Baskets /\ a.user \in Users /\ a.cart \in Carts
    BY WireAssumption
  <1>2. a \in Order /\ Wire(a.cart) \in Carts /\ a.cart \in Seq(Line)
    BY <1>1, WireAssumption, CartAssumption DEF Order
  <1>3. \A k \in DOMAIN a.cart : a.cart[k] \in Line /\ a.cart[k].product \in Products
    <2>1. \A c \in Seq(Line) : \A k \in DOMAIN c : c[k] \in Line
      OBVIOUS
    <2>2. \A l \in Line : l.product \in Products
      BY DEF Line
    <2>3. QED
      BY <1>2, <2>1, <2>2
  <1>4. [a EXCEPT !.cart = Wire(a.cart)] = [user |-> a.user, cart |-> Wire(a.cart)]
    OBVIOUS
  <1>5. QED
    BY <1>1, <1>2, <1>3, <1>4 DEF Wire

\* Each click has the call that carries its cart, and a call at work is that of a
\* click without an answer.
LEMMA ClickStep ==
  ASSUME Inductive, HopTypeOK, AsAsked, [HopNext]_allVars
  PROVE  HopTypeOK' /\ AsAsked'
  <1> DEFINE Hops == {"idle", "sent", "left", "pending", "error", "cut"}
  <1>t. /\ hop \in [Requests -> Hops] /\ asked \in [Requests -> Order \cup {Absent}]
        /\ \A r \in Requests : InFlight(r) => Unanswered(r)
        /\ pc \in [Requests -> Places]
    BY CallTypes DEF HopTypeOK
  <1>n. [Next]_vars
    BY HopIsNext
  <1>i. TypeOK'
    BY <1>n, InductiveStep DEF Inductive
  <1>1. ASSUME NEW r \in Requests, Click(r) PROVE HopTypeOK' /\ AsAsked'
    <2>1. PICK o \in [user : Users, cart : Baskets] :
            /\ asked' = [asked EXCEPT ![r] = o]
            /\ hop' \in {[hop EXCEPT ![r] = "error"], [hop EXCEPT ![r] = "sent"]}
      BY <1>1 DEF Click, Move
    <2>2. hop[r] = "idle" /\ UNCHANGED vars
      BY <1>1 DEF Click
    <2>3. o \in Order /\ o # Absent
      <3>1. o \in Order
        BY OnTheWire
      <3>2. QED
        BY <3>1, NoOrderAssumption
    <2>4. pc' = pc /\ order' = order
      BY <2>2 DEF vars, gatewayVars
    <2>5. pc[r] = "idle" /\ ~InFlight(r)
      BY <1>t, <2>2 DEF AsAsked, InFlight
    <2>6. HopTypeOK'
      BY <1>t, <1>i, <2>1, <2>3, <2>4, <2>5 DEF HopTypeOK, InFlight, Unanswered
    <2>7. AsAsked'
      BY <1>t, <2>1, <2>4, <2>5 DEF AsAsked
    <2>8. QED
      BY <2>6, <2>7
  <1>2. ASSUME NEW r \in Requests, SendFails(r) \/ GiveUp(r) \/ Reply(r)
        PROVE  HopTypeOK' /\ AsAsked'
    <2>1. /\ asked' = asked /\ pc' = pc /\ order' = order /\ hop[r] = "sent"
          /\ \E l \in {"error", "left", "pending"} :
               /\ hop' = [hop EXCEPT ![r] = l]
               /\ l = "left" \/ ~InFlight(r)
      BY <1>2 DEF SendFails, GiveUp, Reply, Returned, Move, vars, gatewayVars, InFlight
    <2>2. HopTypeOK'
      BY <1>t, <1>i, <2>1 DEF HopTypeOK, InFlight, Unanswered
    <2>3. AsAsked'
      BY <1>t, <2>1 DEF AsAsked
    <2>4. QED
      BY <2>2, <2>3
  <1>3. ASSUME NEW r \in Requests, Arrive(r) PROVE HopTypeOK' /\ AsAsked'
    <2>1. /\ Unanswered(r) /\ Begin(r) /\ hop' = hop /\ asked' = asked
          /\ order'[r] = [asked[r] EXCEPT !.cart = Wire(asked[r].cart)]
      BY <1>3 DEF Arrive, hopVars
    <2>2. \A s \in Requests \ {r} : pc'[s] = pc[s] /\ order'[s] = order[s]
      BY <2>1, CallFrame
    <2>3. asked[r] \in [user : Users, cart : Baskets] /\ hop[r] # "idle"
      BY <2>1 DEF AsAsked, Unanswered
    <2>4. order'[r] = [user |-> asked[r].user, cart |-> Wire(asked[r].cart)]
      BY <2>1, <2>3, OnTheWire
    <2>5. HopTypeOK'
      BY <1>t, <1>i, <2>1, <2>2 DEF HopTypeOK, InFlight, Unanswered
    <2>6. AsAsked'
      BY <1>t, <2>1, <2>2, <2>3, <2>4 DEF AsAsked
    <2>7. QED
      BY <2>5, <2>6
  <1>4. ASSUME Behind \/ Signal \/ GracefulStop \/ Restart \/ Exit \/ Crash
        PROVE  \A r \in Requests :
                 /\ pc'[r] # "idle" => pc[r] # "idle" /\ order'[r] = order[r]
                 /\ InFlight(r)' => InFlight(r)
    <2>1. ASSUME NEW r \in Requests, Begin(r) PROVE FALSE
      <3>1. pc'[r] \in {"lock", "done"} /\ pc[r] = "idle" /\ ~InFlight(r)
        BY <1>t, <2>1 DEF Begin, Goto, InFlight
      <3>2. CASE Behind
        <4>1. CASE \E s \in Requests : CallStep(s)
          <5>1. PICK s \in Requests : Call(s)
            BY <4>1 DEF CallStep
          <5>2. order' = order \/ Begin(s)
            BY <5>1, CallFrame
          <5>3. pc[s] # "idle"
            BY <5>1 DEF Call, Acquire, Busy, AcquireFails, PriceLine, RejectLine, Priced, Reserve,
               Refuse, ReserveLost, ReserveAgain, AtGate, XAdd, PushDone, PushFail, PushAgain,
               Pushing, UndoWallet, UndoStock, UndoDone, Release
          <5>4. pc'[r] = pc[r]
            BY <3>1, <5>1, <5>3, CallFrame
          <5>5. QED
            BY <3>1, <5>4
        <4>2. CASE \E u \in Users : ExpireStep(u)
          BY <3>1, <4>2 DEF ExpireStep, Expire, gatewayVars
        <4>3. CASE WorkerStep
          BY <3>1, <4>3 DEF WorkerStep, gatewayVars
        <4>4. QED
          BY <3>2, <4>1, <4>2, <4>3 DEF Behind
      <3>3. CASE Signal \/ GracefulStop \/ Restart \/ Exit \/ Crash
        BY <3>1, <3>3, <1>t DEF Signal, GracefulStop, Restart, Exit, Crash, gatewayVars
      <3>4. QED
        BY <1>4, <3>2, <3>3
    <2>2. QED
      BY <1>n, <2>1, OrdersStay
  <1>5. CASE (Behind \/ Signal \/ GracefulStop \/ Restart) /\ UNCHANGED hopVars
    <2>1. HopTypeOK'
      BY <1>t, <1>i, <1>4, <1>5 DEF HopTypeOK, hopVars, Unanswered
    <2>2. AsAsked'
      BY <1>4, <1>5 DEF AsAsked, hopVars
    <2>3. QED
      BY <2>1, <2>2
  <1>6. CASE (Exit \/ Crash) /\ Disconnect /\ UNCHANGED asked
    <2>1. \A r \in Requests : ~InFlight(r)'
      BY <1>t, <1>6 DEF Exit, Crash, InFlight, gatewayVars
    <2>2. /\ hop' \in [Requests -> Hops]
          /\ \A r \in Requests : hop'[r] = "idle" <=> hop[r] = "idle"
      BY <1>t, <1>6 DEF Disconnect, Unanswered
    <2>3. HopTypeOK'
      BY <1>t, <1>i, <1>6, <2>1, <2>2 DEF HopTypeOK
    <2>4. AsAsked'
      BY <1>4, <1>6, <2>2 DEF AsAsked
    <2>5. QED
      BY <2>3, <2>4
  <1>7. CASE UNCHANGED allVars
    BY <1>7, <1>i, <1>t DEF allVars, hopVars, vars, gatewayVars, HopTypeOK, AsAsked, InFlight,
       Unanswered
  <1>8. QED
    BY <1>1, <1>2, <1>3, <1>5, <1>6, <1>7 DEF HopNext, HopProcess, Shutdown

\* Every variable of the hop holds a value of its kind, and no call is at work for a
\* click that has been answered.
THEOREM HopTypeCorrect == HopSpec => []HopTypeOK
  <1>1. HopInit => HopTypeOK /\ AsAsked
    <2> SUFFICES ASSUME HopInit PROVE HopTypeOK /\ AsAsked
      OBVIOUS
    <2>1. TypeOK
      BY TypingInit DEF HopInit
    <2>2. QED
      BY <2>1 DEF HopInit, Init, GatewayInit, HopTypeOK, AsAsked, InFlight
  <1>2. Inductive /\ HopTypeOK /\ AsAsked /\ [HopNext]_allVars => HopTypeOK' /\ AsAsked'
    BY ClickStep
  <1>3. QED
    BY <1>1, <1>2, HopRunsPipeline, InductiveHolds, PTL DEF HopSpec

-----------------------------------------------------------------------------
\* A task keeps being the line of the cart that its call was given.
LEMMA CopiedStep ==
  ASSUME Inductive, Authored, Copied, [Next]_vars
  PROVE  Copied'
  <1>t. \A i \in DOMAIN log : log[i].by \in Requests
    BY CallTypes
  <1>1. ASSUME NEW r \in Requests, XAdd(r)
        PROVE  Copied'
    <2>1. line[r] \in DOMAIN Cart(r)
      <3>1. line[r] \in Nat \ {0} /\ Cart(r) \in Seq(Line) /\ line[r] <= Len(Cart(r))
        BY <1>1, CallTypes DEF XAdd, Pushing, MoreLines
      <3>2. \A c \in Seq(Line), k \in Nat \ {0} : k <= Len(c) => k \in DOMAIN c
        OBVIOUS
      <3>3. QED
        BY <3>1, <3>2
    <2>2. /\ TaskOf(r).by = r /\ TaskOf(r).part = line[r]
          /\ LineOf(TaskOf(r)) = LineAt(order[r], line[r])
      BY DEF LineOf, LineAt, TaskOf, At, Cart
    <2>3. \A i \in DOMAIN log' : (i \in DOMAIN log /\ log'[i] = log[i]) \/ log'[i] = TaskOf(r)
      BY <1>1, Added
    <2>4. order' = order
      BY <1>1, Added
    <2>5. QED
      BY <2>1, <2>2, <2>3, <2>4 DEF Copied, Cart
  <1>2. ASSUME log' = log, \A i \in DOMAIN log : order'[log[i].by] = order[log[i].by]
        PROVE  Copied'
    BY <1>2 DEF Copied
  <1>3. ASSUME NEW r \in Requests, Begin(r) \/ Call(r), ~XAdd(r)
        PROVE  Copied'
    <2>1. Begin(r) => pc[r] = "idle"
      BY DEF Begin
    <2>2. log' = log
      BY <1>3, CallFrame
    <2>3. \A i \in DOMAIN log : order'[log[i].by] = order[log[i].by]
      BY <1>t, <1>3, <2>1, CallFrame DEF Authored
    <2>4. QED
      BY <1>2, <2>2, <2>3
  <1>4. CASE ~\E r \in Requests : Begin(r) \/ Call(r)
    BY <1>2, <1>4, OtherSteps
  <1>5. QED
    BY <1>1, <1>3, <1>4

\* A step that leaves the stream and the call as they are, or cuts the call off.
LEMMA TasksStay ==
  ASSUME NEW r \in Requests, TasksOf(r), log' = log, order'[r] = order[r],
         line'[r] = line[r], reply'[r] = reply[r], pc'[r] \in {pc[r], "dead"}
  PROVE  TasksOf(r)'
  BY DEF TasksOf, InStream, NoTask, Cart

\* One more task takes nothing from the others.
LEMMA TasksAdd ==
  ASSUME Inductive, NEW s \in Requests, XAdd(s), NEW r \in Requests, TasksOf(r)
  PROVE  TasksOf(r)'
  <1>1. /\ pc'[r] = pc[r] /\ order'[r] = order[r] /\ reply'[r] = reply[r]
        /\ Cart(r)' = Cart(r)
    BY Added DEF Cart
  <1>2. \A k : InStream(r, k) => InStream(r, k)'
    BY Added DEF InStream
  <1>3. CASE r = s
    <2>1. /\ pc[r] \in {"push", "repush"} /\ reply[r] = "none" /\ line[r] \in Nat \ {0}
          /\ line'[r] = line[r] + 1
      BY <1>3, Added, CallTypes DEF Pushing, TasksOf
    <2>2. \A k : k = line[r] => InStream(r, k)'
      BY <1>3, Added DEF InStream
    <2>3. \A k \in DOMAIN Cart(r) : k \in Nat
      BY <2>1, CallTypes
    <2>4. \A k \in DOMAIN Cart(r) : k < line[r] + 1 => k < line[r] \/ k = line[r]
      BY <2>1, <2>3
    <2>5. QED
      BY <1>1, <1>2, <2>1, <2>2, <2>4 DEF TasksOf
  <1>4. CASE r # s
    <2>1. line'[r] = line[r]
      BY <1>4, Added, CallTypes
    <2>2. NoTask(r) => NoTask(r)'
      BY <1>4, Added DEF NoTask
    <2>3. QED
      BY <1>1, <1>2, <2>1, <2>2 DEF TasksOf
  <1>5. QED
    BY <1>3, <1>4

\* Without a pipeline that stops half-way, a call has its tasks in the stream up to the
\* line it is at, and none when it fails.
LEMMA TasksStep ==
  ASSUME "partial" \notin Faults, Inductive, Authored, TasksAsAnswered, [Next]_vars
  PROVE  TasksAsAnswered'
  <1>t. /\ pc \in [Requests -> Places] /\ line \in [Requests -> Nat \ {0}]
        /\ reply \in [Requests -> {"none", "pending", "error"}]
        /\ order \in [Requests -> Order \cup {Absent}]
        /\ \A r \in Requests : pc[r] \in Early => NoTask(r)
    BY CallTypes DEF Authored, Early, NoTask
  <1>h. \A r \in Requests : TasksOf(r)
    BY DEF TasksAsAnswered
  <1>1. CASE ~\E r \in Requests : Begin(r) \/ Call(r)
    BY <1>1, <1>h, OtherSteps, TasksStay DEF TasksAsAnswered
  <1>2. ASSUME NEW r \in Requests, XAdd(r)
        PROVE  TasksAsAnswered'
    BY <1>2, <1>h, TasksAdd DEF TasksAsAnswered
  <1>3. ASSUME NEW r \in Requests, Begin(r) \/ Call(r), ~XAdd(r)
        PROVE  TasksAsAnswered'
    <2>1. log' = log
      BY <1>3, CallFrame
    <2>. SUFFICES TasksOf(r)'
      BY <1>3, <1>h, <2>1, CallFrame, TasksStay DEF TasksAsAnswered
    <2>i. (\A k : InStream(r, k)' <=> InStream(r, k)) /\ (NoTask(r)' <=> NoTask(r))
      BY <2>1 DEF InStream, NoTask
    <2>2. ASSUME pc[r] \in Early, pc'[r] \in {"lock", "price"}, reply'[r] = reply[r]
          PROVE  TasksOf(r)'
      BY <1>h, <2>2 DEF TasksOf, Early
    <2>3. ASSUME pc[r] \in Early, pc'[r] \in {"gate", "regate"}, reply'[r] = reply[r], line'[r] = 1
          PROVE  TasksOf(r)'
      BY <1>h, <2>3 DEF TasksOf, Early
    <2>4. ASSUME NoTask(r), pc'[r] \in {"done", "release", "undoWallet"}, reply'[r] = "error"
          PROVE  TasksOf(r)'
      BY <2>4, <2>i DEF TasksOf
    <2>5. CASE Begin(r) \/ Acquire(r) \/ Busy(r) \/ AcquireFails(r) \/ PriceLine(r) \/ RejectLine(r)
      BY <1>t, <2>2, <2>4, <2>5 DEF Begin, Acquire, Busy, AcquireFails, PriceLine, RejectLine,
         Goto, Answer, Early
    <2>6. CASE Priced(r) \/ Refuse(r) \/ ReserveLost(r) \/ ReserveAgain(r)
      <3>1. AtGate(r) => line[r] = 1
        BY <1>h DEF TasksOf, AtGate
      <3>2. QED
        BY <1>t, <2>3, <2>4, <2>6, <3>1 DEF Priced, Refuse, ReserveLost, ReserveAgain, AtGate,
           Goto, Answer, Early
    <2>7. ASSUME pc'[r] \in {"push", "repush"}, line'[r] = 1, pc'[r] = "push" => NoTask(r),
                 reply'[r] = "none", Cart(r) \in Seq(Line), Cart(r)' = Cart(r)
          PROVE  TasksOf(r)'
      <3>1. \A c \in Seq(Line) : \A k \in DOMAIN c : ~(k < 1)
        OBVIOUS
      <3>2. QED
        BY <2>7, <2>i, <3>1 DEF TasksOf
    <2>8. CASE Reserve(r)
      <3>1. /\ pc[r] \in Early /\ pc'[r] = "push" /\ reply'[r] = "none" /\ line'[r] = 1
            /\ Cart(r)' = Cart(r)
        BY <1>t, <1>h, <2>8 DEF Reserve, AtGate, Goto, Early, TasksOf, Cart
      <3>2. Cart(r) \in Seq(Line)
        BY <2>8, CallTypes DEF Reserve, AtGate
      <3>3. QED
        BY <1>t, <2>7, <3>1, <3>2
    <2>9. CASE PushAgain(r)
      <3>1. /\ pc'[r] = "repush" /\ reply'[r] = "none" /\ line'[r] = 1 /\ Cart(r)' = Cart(r)
        BY <1>t, <1>h, <2>9 DEF PushAgain, Goto, TasksOf, Cart
      <3>2. Cart(r) \in Seq(Line)
        BY <2>9, CallTypes DEF PushAgain
      <3>3. QED
        BY <2>7, <3>1, <3>2
    <2>10. CASE PushDone(r)
      <3>1. /\ pc[r] \in {"push", "repush"} /\ pc'[r] = "release" /\ reply'[r] = "pending"
            /\ Cart(r)' = Cart(r)
        BY <1>t, <2>10 DEF PushDone, Pushing, Goto, Answer, Cart
      <3>2. \A k \in DOMAIN Cart(r) : k < line[r]
        BY <1>t, <2>10, <3>1, CallTypes DEF PushDone, MoreLines
      <3>3. QED
        BY <1>h, <2>i, <3>1, <3>2 DEF TasksOf
    <2>11. CASE PushFail(r)
      <3>1. pc[r] = "push" /\ line[r] = 1 /\ pc'[r] = "undoWallet" /\ reply'[r] = "error"
        BY <1>t, <2>11 DEF PushFail, PushMayFail, Pushing, Goto, Answer
      <3>2. QED
        BY <1>h, <2>4, <3>1 DEF TasksOf
    <2>12. CASE UndoWallet(r) \/ UndoStock(r) \/ UndoDone(r) \/ Release(r)
      <3>1. /\ pc[r] \in {"undoWallet", "undoStock", "release"} /\ reply'[r] = reply[r]
            /\ pc'[r] \in {"undoStock", "release", "done"} /\ Cart(r)' = Cart(r)
            /\ pc'[r] = "undoStock" => pc[r] \in {"undoWallet", "undoStock"}
        BY <1>t, <2>12 DEF UndoWallet, UndoStock, UndoDone, Release, Goto, Cart
      <3>2. QED
        BY <1>h, <2>i, <3>1 DEF TasksOf
    <2>13. QED
      BY <1>3, <2>5, <2>6, <2>8, <2>9, <2>10, <2>11, <2>12 DEF Call
  <1>4. QED
    BY <1>1, <1>2, <1>3

-----------------------------------------------------------------------------
\* What a click wants are the lines of the order that arrives.
LEMMA WantedLines ==
  ASSUME NEW a \in [user : Users, cart : Baskets],
         NEW o, o = [user |-> a.user, cart |-> Wire(a.cart)]
  PROVE  Lines(a) = {LineAt(o, k) : k \in DOMAIN o.cart} /\ Lines(a) \subseteq AnyLine
  <1> DEFINE W(l) == [l EXCEPT !.product = OnWire[l.product]]
  <1>1. Lines(a) = {W(LineAt(a, k)) : k \in DOMAIN a.cart}
    BY DEF Lines
  <1>2. DOMAIN o.cart = DOMAIN a.cart
    BY OnTheWire
  <1>3. ASSUME NEW k \in DOMAIN a.cart
        PROVE  W(LineAt(a, k)) = LineAt(o, k) /\ LineAt(o, k) \in AnyLine
    <2>1. /\ a.cart[k] \in Line /\ a.cart[k].product \in Products /\ a.user \in Users
          /\ o.cart[k] = [a.cart[k] EXCEPT !.product = OnWire[a.cart[k].product]]
      BY OnTheWire
    <2>2. /\ o.cart[k].product = OnWire[a.cart[k].product]
          /\ o.cart[k].qty = a.cart[k].qty /\ o.cart[k].kind = a.cart[k].kind
          /\ a.cart[k].qty \in Int /\ a.cart[k].kind \in {"pickup", "return", "exchange"}
      BY <2>1 DEF Line
    <2>3. k \in Nat \ {0}
      <3>1. \A c \in Seq(Line) : \A n \in DOMAIN c : n \in Nat \ {0}
        OBVIOUS
      <3>2. QED
        BY <3>1, OnTheWire
    <2>4. OnWire[a.cart[k].product] \in Products
      BY <2>1, WireAssumption
    <2>5. QED
      BY <2>1, <2>2, <2>3, <2>4 DEF LineAt, AnyLine
  <1> HIDE DEF W
  <1>4. QED
    BY <1>1, <1>2, <1>3

\* A line of the order that a call has in the stream is among what its click has queued.
LEMMA QueuedLines ==
  ASSUME Copied, NEW r \in Requests
  PROVE  /\ \A k : InStream(r, k) => LineAt(order[r], k) \in Queued(r)
         /\ \A l \in Queued(r) : \E k \in DOMAIN Cart(r) : l = LineAt(order[r], k)
         /\ NoTask(r) => Queued(r) = {}
  BY DEF Copied, Queued, InStream, NoTask, Cart

\* A click asks.
LEMMA AskStep ==
  ASSUME NEW r \in Requests, Told(r) = "nothing", Told(r)' \in {"waiting", "error"},
         Wanted(r)' \subseteq AnyLine,
         \A s \in Requests \ {r} : Told(s)' = Told(s) /\ Wanted(s)' = Wanted(s),
         \A s \in Requests : Queued(s)' = Queued(s)
  PROVE  Promise!Next
  <1>1. Promise!Ask(r)
    BY DEF Promise!Ask
  <1>2. QED
    BY <1>1 DEF Promise!Next

\* A line is queued.
LEMMA QueueStep ==
  ASSUME NEW r \in Requests, Told(r) \in {"waiting", "unsure"}, NEW l \in Wanted(r) \ Queued(r),
         \A m \in Wanted(r) \ Queued(r) : l.part <= m.part, Queued(r)' = Queued(r) \cup {l},
         \A s \in Requests \ {r} : Queued(s)' = Queued(s),
         \A s \in Requests : Told(s)' = Told(s) /\ Wanted(s)' = Wanted(s)
  PROVE  Promise!Next
  <1>1. Promise!Queue(r)
    BY DEF Promise!Queue
  <1>2. QED
    BY <1>1 DEF Promise!Next

\* The server answers.
LEMMA AnswerGiven ==
  ASSUME NEW r \in Requests, Told(r) = "waiting",
         \/ Told(r)' = "pending" /\ Queued(r) = Wanted(r)
         \/ Told(r)' = "error" /\ Queued(r) = {},
         \A s \in Requests \ {r} : Told(s)' = Told(s),
         \A s \in Requests : Queued(s)' = Queued(s) /\ Wanted(s)' = Wanted(s)
  PROVE  Promise!Next
  <1>1. Promise!Accept(r) \/ Promise!Refuse(r)
    BY DEF Promise!Accept, Promise!Refuse
  <1>2. QED
    BY <1>1 DEF Promise!Next

\* Clicks are left without an answer.
LEMMA LeaveStep ==
  ASSUME \A s \in Requests : Told(s)' = Told(s) \/ (Told(s) = "waiting" /\ Told(s)' = "unsure"),
         \A s \in Requests : Queued(s)' = Queued(s) /\ Wanted(s)' = Wanted(s)
  PROVE  Promise!Next
  <1> DEFINE S == {s \in Requests : Told(s) = "waiting" /\ Told(s)' = "unsure"}
  <1>1. S \in SUBSET {s \in Requests : Told(s) = "waiting"}
    OBVIOUS
  <1>2. \A s \in Requests : Told(s)' = IF s \in S THEN "unsure" ELSE Told(s)
    OBVIOUS
  <1>3. Promise!Leave
    BY <1>1, <1>2 DEF Promise!Leave
  <1>4. QED
    BY <1>3 DEF Promise!Next

\* What stays as it is.
LEMMA SameView ==
  ASSUME NEW r \in Requests
  PROVE  /\ hop'[r] = hop[r] => Told(r)' = Told(r)
         /\ asked'[r] = asked[r] => Wanted(r)' = Wanted(r)
         /\ log' = log => Queued(r)' = Queued(r)
  BY DEF Told, Wanted, Queued

\* Nothing that the promise is about changes.
LEMMA SameStep ==
  ASSUME \A s \in Requests : Queued(s)' = Queued(s) /\ Wanted(s)' = Wanted(s) /\ Told(s)' = Told(s)
  PROVE  UNCHANGED Promise!vars
  BY DEF Promise!vars

\* A task more in the stream is the next line of the cart, or one that was sent again.
LEMMA PushKeepsPromise ==
  ASSUME Inductive, HopTypeOK, AsAsked, Copied, TasksAsAnswered,
         NEW r \in Requests, XAdd(r), UNCHANGED hopVars
  PROVE  [Promise!Next]_(Promise!vars)
  <1> DEFINE l == LineAt(order[r], line[r])
  <1>1. \A s \in Requests : Told(s)' = Told(s) /\ Wanted(s)' = Wanted(s)
    BY SameView DEF hopVars
  <1>2. \A s \in Requests \ {r} : Queued(s)' = Queued(s)
    BY Added DEF Queued
  <1>3. Queued(r)' = Queued(r) \cup {l}
    <2>1. LineOf(TaskOf(r)) = l /\ TaskOf(r).by = r
      BY DEF LineOf, LineAt, TaskOf, At, Cart
    <2>2. \A i \in DOMAIN log' : (i \in DOMAIN log /\ log'[i] = log[i]) \/ log'[i] = TaskOf(r)
      BY Added
    <2> HIDE DEF l
    <2>3. QED
      BY <2>1, <2>2, Added DEF Queued
  <1>4. CASE l \in Queued(r)
    BY <1>1, <1>2, <1>3, <1>4, SameStep
  <1>5. CASE l \notin Queued(r)
    <2>1. Told(r) \in {"waiting", "unsure"}
      BY Added DEF HopTypeOK, InFlight, Pushing, Unanswered, Told
    <2>2. /\ asked[r] \in [user : Users, cart : Baskets]
          /\ order[r] = [user |-> asked[r].user, cart |-> Wire(asked[r].cart)]
      BY Added DEF AsAsked, Pushing
    <2>3. Wanted(r) = {LineAt(order[r], k) : k \in DOMAIN Cart(r)}
      BY <2>2, WantedLines, OnTheWire, NoOrderAssumption DEF Wanted, Cart
    <2>4. /\ line[r] \in DOMAIN Cart(r) /\ line[r] \in Nat
          /\ \A k \in DOMAIN Cart(r) : k \in Nat
      <3>1. line[r] \in Nat \ {0} /\ Cart(r) \in Seq(Line) /\ line[r] <= Len(Cart(r))
        BY CallTypes DEF XAdd, Pushing, MoreLines
      <3>2. \A c \in Seq(Line), k \in Nat \ {0} : k <= Len(c) => k \in DOMAIN c
        OBVIOUS
      <3>3. \A c \in Seq(Line) : \A k \in DOMAIN c : k \in Nat
        OBVIOUS
      <3>4. QED
        BY <3>1, <3>2, <3>3
    <2>5. ASSUME NEW m \in Wanted(r) \ Queued(r) PROVE l.part <= m.part
      <3>1. PICK k \in DOMAIN Cart(r) : m = LineAt(order[r], k)
        BY <2>3, <2>5
      <3>2. ~InStream(r, k)
        BY <2>5, <3>1, QueuedLines
      <3>3. ~(k < line[r])
        BY <3>2, Added DEF TasksAsAnswered, TasksOf, Pushing
      <3>4. QED
        BY <2>4, <3>1, <3>3 DEF LineAt
    <2>6. l \in Wanted(r) \ Queued(r)
      BY <1>5, <2>3, <2>4
    <2> HIDE DEF l
    <2>7. QED
      BY <1>1, <1>2, <1>3, <2>1, <2>5, <2>6, QueueStep
  <1>6. QED
    BY <1>4, <1>5

\* Every step of the hop and of the pipeline behind it keeps the promise.
LEMMA PromiseStep ==
  ASSUME Inductive, Authored, HopTypeOK, AsAsked, Copied, TasksAsAnswered, [HopNext]_allVars
  PROVE  [Promise!Next]_(Promise!vars)
  <1>t. hop \in [Requests -> {"idle", "sent", "left", "pending", "error", "cut"}]
        /\ asked \in [Requests -> Order \cup {Absent}]
    BY DEF HopTypeOK
  <1>1. ASSUME NEW r \in Requests, Click(r) PROVE Promise!Next
    <2>1. PICK o \in [user : Users, cart : Baskets] :
            /\ asked' = [asked EXCEPT ![r] = o]
            /\ hop' \in {[hop EXCEPT ![r] = "error"], [hop EXCEPT ![r] = "sent"]}
      BY <1>1 DEF Click, Move
    <2>2. hop[r] = "idle" /\ log' = log
      BY <1>1 DEF Click, vars, streamVars
    <2>3. Wanted(r)' \subseteq AnyLine
      BY <1>t, <2>1, WantedLines DEF Wanted
    <2>4. Told(r) = "nothing" /\ Told(r)' \in {"waiting", "error"}
      BY <1>t, <2>1, <2>2 DEF Told
    <2>5. \A s \in Requests \ {r} : hop'[s] = hop[s] /\ asked'[s] = asked[s]
      BY <1>t, <2>1
    <2>6. QED
      BY <2>2, <2>3, <2>4, <2>5, SameView, AskStep
  <1>2. ASSUME NEW r \in Requests, SendFails(r) \/ Reply(r) PROVE Promise!Next
    <2>1. hop[r] = "sent" /\ asked' = asked /\ log' = log
      BY <1>2 DEF SendFails, Reply, vars, streamVars
    <2>2. \A s \in Requests \ {r} : hop'[s] = hop[s]
      BY <1>t, <1>2 DEF SendFails, Reply, Move
    <2>3. \/ hop'[r] = "error" /\ Queued(r) = {}
          \/ hop'[r] = "pending" /\ Queued(r) = Wanted(r)
      <3>1. CASE SendFails(r)
        <4>1. hop'[r] = "error" /\ pc[r] = "idle"
          BY <1>t, <3>1 DEF SendFails, Move
        <4>2. NoTask(r)
          BY <4>1 DEF Authored, NoTask
        <4>3. QED
          BY <4>1, <4>2, QueuedLines
      <3>2. CASE Reply(r) /\ reply[r] = "error"
        <4>1. hop'[r] = "error"
          BY <1>t, <3>2 DEF Reply, Move
        <4>2. NoTask(r)
          BY <3>2 DEF TasksAsAnswered, TasksOf
        <4>3. QED
          BY <4>1, <4>2, QueuedLines
      <3>3. CASE Reply(r) /\ reply[r] # "error"
        <4>1. hop'[r] = "pending" /\ pc[r] = "done"
          BY <1>t, <3>3 DEF Reply, Move, Returned
        <4>2. reply[r] = "pending"
          BY <3>3, <4>1, CallTypes DEF TasksAsAnswered, TasksOf
        <4>3. \A k \in DOMAIN Cart(r) : InStream(r, k)
          BY <4>2 DEF TasksAsAnswered, TasksOf
        <4>4. /\ asked[r] \in [user : Users, cart : Baskets]
              /\ order[r] = [user |-> asked[r].user, cart |-> Wire(asked[r].cart)]
          BY <4>1 DEF AsAsked
        <4>5. Wanted(r) = {LineAt(order[r], k) : k \in DOMAIN Cart(r)}
          BY <4>4, WantedLines, OnTheWire, NoOrderAssumption DEF Wanted, Cart
        <4>6. QED
          BY <4>1, <4>3, <4>5, QueuedLines
      <3>4. QED
        BY <1>2, <3>1, <3>2, <3>3
    <2>4. Told(r) = "waiting" /\ Told(r)' = hop'[r]
      BY <2>1, <2>3 DEF Told
    <2>5. QED
      BY <2>1, <2>2, <2>3, <2>4, SameView, AnswerGiven
  <1>3. ASSUME NEW r \in Requests, GiveUp(r) PROVE Promise!Next
    <2>1. hop[r] = "sent" /\ hop' = [hop EXCEPT ![r] = "left"] /\ asked' = asked /\ log' = log
      BY <1>3 DEF GiveUp, Move, vars, streamVars
    <2>2. Told(r) = "waiting" /\ Told(r)' = "unsure"
      BY <1>t, <2>1 DEF Told
    <2>3. \A s \in Requests \ {r} : hop'[s] = hop[s]
      BY <1>t, <2>1
    <2>4. QED
      BY <2>1, <2>2, <2>3, SameView, LeaveStep
  <1>4. ASSUME NEW r \in Requests, CallStep(r), UNCHANGED hopVars
        PROVE  [Promise!Next]_(Promise!vars)
    <2>1. CASE XAdd(r)
      BY <1>4, <2>1, PushKeepsPromise
    <2>2. CASE log' = log
      BY <1>4, <2>2, SameView, SameStep DEF hopVars
    <2>3. QED
      BY <1>4, <2>1, <2>2, CallFrame DEF CallStep
  <1>5. CASE /\ UNCHANGED hopVars
             /\ \/ \E r \in Requests : Arrive(r)
                \/ \E u \in Users : ExpireStep(u)
                \/ WorkerStep \/ Signal \/ GracefulStop \/ Restart \/ UNCHANGED vars
    <2>1. log' = log
      BY <1>5 DEF Arrive, Begin, ExpireStep, Expire, WorkerStep, WorkerNext, Signal, GracefulStop,
         Restart, vars, streamVars
    <2>2. QED
      BY <1>5, <2>1, SameView, SameStep DEF hopVars
  <1>6. CASE (Exit \/ Crash) /\ Disconnect /\ UNCHANGED asked
    <2>1. log' = log
      BY <1>6 DEF Exit, Crash, streamVars
    <2>2. \A s \in Requests : Told(s)' = Told(s) \/ (Told(s) = "waiting" /\ Told(s)' = "unsure")
      BY <1>t, <1>6 DEF Disconnect, Unanswered, Told
    <2>3. QED
      BY <1>6, <2>1, <2>2, SameView, LeaveStep
  <1>7. QED
    BY <1>1, <1>2, <1>3, <1>4, <1>5, <1>6
    DEF HopNext, Behind, HopProcess, Shutdown, Arrive, allVars, hopVars

\* POST /trade keeps its promise, through crashes, shutdowns, lost replies, locks that
\* run out and pipelines that are sent twice, unless a pipeline stops half-way.
THEOREM PromiseKept ==
  ASSUME "partial" \notin Faults PROVE HopSpec => ImplementsCheckout
  <1> DEFINE Inv == Authored /\ HopTypeOK /\ AsAsked /\ Copied /\ TasksAsAnswered
  <1>1. HopInit => Inv /\ Promise!Init
    <2> SUFFICES ASSUME HopInit PROVE Inv /\ Promise!Init
      OBVIOUS
    <2>1. /\ log = <<>> /\ TypeOK
          /\ \A r \in Requests : /\ pc[r] = "idle" /\ reply[r] = "none" /\ hop[r] = "idle"
                                  /\ asked[r] = Absent
      BY TypingInit DEF HopInit, Init, StoreInit, GatewayInit
    <2>2. Authored /\ Copied
      BY <2>1 DEF Authored, Copied
    <2>3. HopTypeOK /\ AsAsked /\ TasksAsAnswered
      BY <2>1 DEF HopInit, HopTypeOK, AsAsked, InFlight, TasksAsAnswered, TasksOf
    <2>4. Promise!Init
      BY <2>1 DEF Promise!Init, Wanted, Queued, Told
    <2>5. QED
      BY <2>2, <2>3, <2>4
  <1>2. Inductive /\ Inv /\ [HopNext]_allVars => Inv'
    BY HopIsNext, AuthoredStep, ClickStep, CopiedStep, TasksStep
  <1>3. Inductive /\ Inv /\ [HopNext]_allVars => [Promise!Next]_(Promise!vars)
    BY PromiseStep
  <1>4. QED
    BY <1>1, <1>2, <1>3, HopRunsPipeline, InductiveHolds, PTL
    DEF HopSpec, ImplementsCheckout, Promise!Spec
=============================================================================

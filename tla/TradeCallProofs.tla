--------------------------- MODULE TradeCallProofs --------------------------
(***************************************************************************)
(* Proofs about what calls leave in the stream of tasks, and about what    *)
(* the worker's cursor passes, for every set of users, products, calls and *)
(* carts.                                                                  *)
(***************************************************************************)
EXTENDS TradePipelineProofs, FiniteSetTheorems

\* A call's tasks are its user's, and no call has any before it pushes.
Authored ==
  \A i \in DOMAIN log :
    /\ pc[log[i].by] \notin {"idle", "lock", "price", "gate", "regate"}
    /\ order[log[i].by].user = log[i].user

\* While a call pushes, no task of its user follows its first one but its own.
PushesAlone ==
  \A r \in Requests : Pushing(r) =>
    \A i, j \in DOMAIN log :
      i < j /\ log[i].by = r /\ log[j].user = log[i].user => log[j].by = r

\* The task of line k of call r is in the stream, once.
OnceInStream(r, k) ==
  \E i \in DOMAIN log : \A j \in DOMAIN log : log[j].by = r /\ log[j].part = k <=> j = i

\* The answer comes after the tasks, and a call that failed has none.
AnswerAfter(r) ==
  /\ pc[r] # "repush"
  /\ pc[r] \in {"idle", "lock", "price", "gate", "regate", "push"} => reply[r] = "none"
  /\ pc[r] \in {"gate", "regate"} => line[r] = 1
  /\ pc[r] \in {"undoWallet", "undoStock"} => reply[r] = "error"
  /\ pc[r] = "push" =>
       /\ \A i \in DOMAIN log : log[i].by = r => log[i].part < line[r]
       /\ \A k \in DOMAIN Cart(r) : k < line[r] => OnceInStream(r, k)
  /\ reply[r] = "error" => \A i \in DOMAIN log : log[i].by # r
  /\ reply[r] = "pending" => \A k \in DOMAIN Cart(r) : OnceInStream(r, k)

\* So it is for every call.
AnswerLast == \A r \in Requests : AnswerAfter(r)

\* What the position of the last XREAD and the cursor have between them.
Swept ==
  /\ wpc = "batch" =>
       \A j \in batch : \A i \in DOMAIN log : rpos < i /\ i <= j => i \in batch \cup Handled
  /\ wpc \in {"refundWallet", "refundStock", "ack"} =>
       /\ \A i \in DOMAIN log : rpos < i /\ i <= cur => i \in Handled
       /\ \A j \in batch : \A i \in DOMAIN log : rpos < i /\ i <= j => i \in batch \cup Handled

-----------------------------------------------------------------------------
\* The places of a call that has not pushed yet.
Early == {"idle", "lock", "price", "gate", "regate"}

\* What the calls have in common with each other.
LEMMA CallTypes ==
  ASSUME Inductive
  PROVE  /\ pc \in [Requests -> Places] /\ order \in [Requests -> Order \cup {Absent}]
         /\ line \in [Requests -> Nat \ {0}] /\ reply \in [Requests -> {"none", "pending", "error"}]
         /\ log \in Seq(Task) /\ Len(log) \in Nat /\ DOMAIN log = 1..Len(log)
         /\ \A i \in DOMAIN log : log[i].by \in Requests /\ log[i].part \in Nat \ {0}
         /\ \A r \in Requests : pc[r] # "idle" => order[r].user \in Users /\ Cart(r) \in Seq(Line)
  <1>1. /\ pc \in [Requests -> Places] /\ order \in [Requests -> Order \cup {Absent}]
        /\ line \in [Requests -> Nat \ {0}] /\ reply \in [Requests -> {"none", "pending", "error"}]
        /\ log \in Seq(Task)
    BY DEF Inductive, TypeOK, StoreTypeOK, GatewayTypeOK
  <1>2. Len(log) \in Nat /\ DOMAIN log = 1..Len(log) /\ \A i \in DOMAIN log : log[i] \in Task
    BY <1>1
  <1>3. \A i \in DOMAIN log : log[i].by \in Requests /\ log[i].part \in Nat \ {0}
    BY <1>2 DEF Task
  <1>4. \A r \in Requests : pc[r] # "idle" => order[r].user \in Users /\ Cart(r) \in Seq(Line)
    BY OrderOfCall DEF Inductive
  <1>5. QED
    BY <1>1, <1>2, <1>3, <1>4

\* A step that is no call's leaves the stream and the orders alone; at most it cuts
\* calls off.
LEMMA OtherSteps ==
  ASSUME Inductive, [Next]_vars, ~\E r \in Requests : Begin(r) \/ Call(r)
  PROVE  /\ UNCHANGED <<log, order, line, reply>>
         /\ \A r \in Requests : pc'[r] = pc[r] \/ (InFlight(r) /\ pc'[r] = "dead")
  <1>1. CASE GatewayStep
    BY <1>1 DEF GatewayStep, GatewayNext, Expire, gatewayVars
  <1>2. CASE WorkerStep \/ Signal \/ GracefulStop \/ Exit \/ Restart \/ UNCHANGED vars
    BY <1>2 DEF WorkerStep, WorkerNext, Signal, GracefulStop, Exit, Restart, vars, gatewayVars,
       streamVars
  <1>3. CASE Crash
    BY <1>3, CallTypes DEF Crash, streamVars
  <1>4. QED
    BY <1>1, <1>2, <1>3 DEF Next, Process

\* A call changes nothing of another call, and never goes back to where it was
\* before it pushed.
LEMMA CallFrame ==
  ASSUME Inductive, NEW r \in Requests, Begin(r) \/ Call(r)
  PROVE  /\ \A s \in Requests \ {r} : /\ pc'[s] = pc[s] /\ order'[s] = order[s]
                                      /\ line'[s] = line[s] /\ reply'[s] = reply[s]
         /\ XAdd(r) \/ log' = log
         /\ Begin(r) \/ order' = order
         /\ pc[r] \notin Early => pc'[r] \notin Early
         /\ Pushing(r)' => Pushing(r) \/ AtGate(r)
  <1>t. /\ pc \in [Requests -> Places] /\ order \in [Requests -> Order \cup {Absent}]
        /\ line \in [Requests -> Nat \ {0}] /\ reply \in [Requests -> {"none", "pending", "error"}]
    BY CallTypes
  <1> USE DEF Goto, Answer, Early, Pushing, AtGate
  <1>1. CASE Begin(r)
    BY <1>1, <1>t DEF Begin
  <1>2. CASE Acquire(r) \/ Busy(r) \/ AcquireFails(r)
    BY <1>2, <1>t DEF Acquire, Busy, AcquireFails, cacheVars
  <1>3. CASE PriceLine(r) \/ RejectLine(r) \/ Priced(r)
    BY <1>3, <1>t DEF PriceLine, RejectLine, Priced, cacheVars
  <1>4. CASE Reserve(r) \/ Refuse(r) \/ ReserveLost(r) \/ ReserveAgain(r)
    BY <1>4, <1>t DEF Reserve, Refuse, ReserveLost, ReserveAgain, cacheVars
  <1>5. CASE XAdd(r) \/ PushDone(r) \/ PushFail(r) \/ PushAgain(r)
    BY <1>5, <1>t DEF XAdd, PushDone, PushFail, PushAgain, cacheVars
  <1>6. CASE UndoWallet(r) \/ UndoStock(r) \/ UndoDone(r) \/ Release(r)
    BY <1>6, <1>t DEF UndoWallet, UndoStock, UndoDone, Release, cacheVars
  <1>7. QED
    BY <1>1, <1>2, <1>3, <1>4, <1>5, <1>6 DEF Call

\* One more task in the stream.
LEMMA Added ==
  ASSUME Inductive, NEW r \in Requests, XAdd(r)
  PROVE  /\ DOMAIN log' = DOMAIN log \cup {Len(log) + 1}
         /\ \A i, j \in DOMAIN log' : i < j => i \in DOMAIN log
         /\ \A i \in DOMAIN log : log'[i] = log[i] /\ i < Len(log) + 1
         /\ log'[Len(log) + 1] = TaskOf(r) /\ Len(log) + 1 \notin DOMAIN log
         /\ TaskOf(r).by = r /\ TaskOf(r).user = order[r].user /\ TaskOf(r).part = line[r]
         /\ Pushing(r) /\ pc' = pc /\ order' = order /\ reply' = reply
         /\ line' = [line EXCEPT ![r] = @ + 1]
  <1>1. log \in Seq(Task) /\ log' = Append(log, TaskOf(r)) /\ DOMAIN log = 1..Len(log)
        /\ Len(log) \in Nat
    BY CallTypes DEF XAdd
  <1>2. /\ Len(log') = Len(log) + 1 /\ DOMAIN log' = 1..(Len(log) + 1)
        /\ log'[Len(log) + 1] = TaskOf(r) /\ \A i \in 1..Len(log) : log'[i] = log[i]
    BY <1>1
  <1>3. /\ TaskOf(r).by = r /\ TaskOf(r).user = order[r].user /\ TaskOf(r).part = line[r]
    BY DEF TaskOf
  <1>4. Pushing(r) /\ pc' = pc /\ order' = order /\ reply' = reply
        /\ line' = [line EXCEPT ![r] = @ + 1]
    BY DEF XAdd
  <1>5. \A i, j \in 1..(Len(log) + 1) : i < j => i \in 1..Len(log)
    BY <1>1
  <1>6. QED
    BY <1>1, <1>2, <1>3, <1>4, <1>5

\* A call is behind its tasks.
LEMMA AuthoredStep ==
  ASSUME Inductive, Authored, [Next]_vars
  PROVE  Authored'
  <1>t. \A i \in DOMAIN log : log[i].by \in Requests
    BY CallTypes
  <1>1. CASE \E r \in Requests : Begin(r) \/ Call(r)
    <2>1. PICK r \in Requests : Begin(r) \/ Call(r)
      BY <1>1
    <2>2. CASE XAdd(r)
      BY <2>2, <1>t, Added DEF Authored, Pushing
    <2>3. CASE ~XAdd(r)
      <3>1. log' = log
        BY <2>1, <2>3, CallFrame
      <3>2. Begin(r) => pc[r] = "idle"
        BY DEF Begin
      <3>3. QED
        BY <1>t, <2>1, <3>1, <3>2, CallFrame DEF Authored, Early
    <2>4. QED
      BY <2>2, <2>3
  <1>2. CASE ~\E r \in Requests : Begin(r) \/ Call(r)
    BY <1>t, <1>2, OtherSteps DEF Authored, InFlight
  <1>3. QED
    BY <1>1, <1>2

\* The user's lock keeps other pushing calls of the user away.
LEMMA TogetherStep ==
  ASSUME Inductive, LockHeld, Authored, PushesAlone, CartsStayTogether, [Next]_vars
  PROVE  PushesAlone' /\ CartsStayTogether'
  <1>t. \A i \in DOMAIN log : log[i].by \in Requests
    BY CallTypes
  <1>1. CASE \E r \in Requests : Begin(r) \/ Call(r)
    <2>1. PICK r \in Requests : Begin(r) \/ Call(r)
      BY <1>1
    <2>2. CASE XAdd(r)
      <3>1. ASSUME NEW s \in Requests, Pushing(s), s # r
            PROVE  order[s].user # order[r].user
        BY <2>2, <3>1 DEF LockHeld, Holds, InFlight, Pushing, XAdd
      <3>2. PushesAlone'
        <4>1. SUFFICES ASSUME NEW s \in Requests, Pushing(s)', NEW i \in DOMAIN log',
                              NEW j \in DOMAIN log', i < j, log'[i].by = s,
                              log'[j].user = log'[i].user
                       PROVE  log'[j].by = s
          BY DEF PushesAlone
        <4>2. Pushing(s)
          BY <2>2, <4>1, Added DEF Pushing
        <4>3. i \in DOMAIN log /\ log'[i] = log[i]
          BY <2>2, <4>1, Added
        <4>4. CASE j \in DOMAIN log
          BY <2>2, <4>1, <4>2, <4>3, <4>4, Added DEF PushesAlone
        <4>5. CASE j = Len(log) + 1
          BY <2>2, <3>1, <4>1, <4>2, <4>3, <4>5, Added DEF Authored
        <4>6. QED
          BY <2>2, <4>1, <4>4, <4>5, Added
      <3>3. CartsStayTogether'
        <4>1. SUFFICES ASSUME NEW i \in DOMAIN log', NEW j \in DOMAIN log', NEW k \in DOMAIN log',
                              i < j, j < k, log'[i].by = log'[k].by, log'[j].user = log'[i].user
                       PROVE  log'[j].by = log'[i].by
          BY DEF CartsStayTogether
        <4>2. i \in DOMAIN log /\ j \in DOMAIN log /\ log'[i] = log[i] /\ log'[j] = log[j]
          BY <2>2, <4>1, Added
        <4>3. CASE k \in DOMAIN log
          BY <2>2, <4>1, <4>2, <4>3, Added DEF CartsStayTogether
        <4>4. CASE k = Len(log) + 1
          BY <2>2, <4>1, <4>2, <4>4, Added DEF PushesAlone
        <4>5. QED
          BY <2>2, <4>1, <4>3, <4>4, Added
      <3>4. QED
        BY <3>2, <3>3
    <2>3. CASE ~XAdd(r)
      <3>1. log' = log
        BY <2>1, <2>3, CallFrame
      <3>2. \A s \in Requests : Pushing(s)' => Pushing(s) \/ \A i \in DOMAIN log : log[i].by # s
        BY <2>1, CallFrame DEF Pushing, Authored, AtGate
      <3>3. PushesAlone'
        BY <3>1, <3>2 DEF PushesAlone
      <3>4. CartsStayTogether'
        BY <3>1 DEF CartsStayTogether
      <3>5. QED
        BY <3>3, <3>4
    <2>4. QED
      BY <2>2, <2>3
  <1>2. CASE ~\E r \in Requests : Begin(r) \/ Call(r)
    <2>1. log' = log /\ \A s \in Requests : Pushing(s)' => Pushing(s)
      BY <1>2, OtherSteps DEF Pushing
    <2>2. QED
      BY <2>1 DEF PushesAlone, CartsStayTogether
  <1>3. QED
    BY <1>1, <1>2

\* The lines of a cart are next to each other among the tasks of their user, for a
\* pipeline that fails half-way or is sent twice as well, as long as no lock runs
\* out under its holder.
THEOREM CartsTogether ==
  ASSUME "expiry" \notin Faults PROVE Spec => []CartsStayTogether
  <1>1. Init => LockHeld /\ Authored /\ PushesAlone /\ CartsStayTogether
    BY DEF Init, StoreInit, GatewayInit, LockHeld, Holds, InFlight, Authored, PushesAlone,
       CartsStayTogether
  <1>2. Inductive /\ LockHeld /\ Authored /\ PushesAlone /\ CartsStayTogether /\ [Next]_vars =>
          LockHeld' /\ Authored' /\ PushesAlone' /\ CartsStayTogether'
    BY LockHeldStep, AuthoredStep, TogetherStep
  <1>3. QED
    BY <1>1, <1>2, InductiveHolds, PTL DEF Spec

-----------------------------------------------------------------------------
\* A step that leaves the stream and the call as they are, or cuts the call off.
LEMMA AnswerStays ==
  ASSUME NEW r \in Requests, AnswerAfter(r), log' = log, order'[r] = order[r],
         line'[r] = line[r], reply'[r] = reply[r], pc'[r] \in {pc[r], "dead"}
  PROVE  AnswerAfter(r)'
  BY DEF AnswerAfter, OnceInStream, Cart

\* A task of another call changes nothing of this one's.
LEMMA AnswerAside ==
  ASSUME Inductive, NEW s \in Requests, XAdd(s), NEW r \in Requests, r # s, AnswerAfter(r)
  PROVE  AnswerAfter(r)'
  <1>1. /\ pc'[r] = pc[r] /\ order'[r] = order[r] /\ line'[r] = line[r] /\ reply'[r] = reply[r]
        /\ Cart(r)' = Cart(r)
    BY CallFrame DEF Call, Cart
  <1>2. /\ \A i \in DOMAIN log : i \in DOMAIN log' /\ log'[i] = log[i]
        /\ \A j \in DOMAIN log' : j \in DOMAIN log \/ log'[j].by # r
    BY Added
  <1>3. \A k : OnceInStream(r, k) => OnceInStream(r, k)'
    BY <1>2 DEF OnceInStream
  <1>4. QED
    BY <1>1, <1>2, <1>3 DEF AnswerAfter

\* A call adds the task of the line it is at.
LEMMA AnswerAdds ==
  ASSUME Inductive, NEW r \in Requests, XAdd(r), AnswerAfter(r)
  PROVE  AnswerAfter(r)'
  <1>1. pc[r] = "push" /\ pc'[r] = "push" /\ reply'[r] = "none" /\ Cart(r)' = Cart(r)
        /\ line[r] \in Nat \ {0} /\ line'[r] = line[r] + 1
    BY Added, CallTypes DEF AnswerAfter, Pushing, Cart
  <1>2. /\ \A i \in DOMAIN log : log[i].part \in Nat /\ (log[i].by = r => log[i].part < line[r])
        /\ \A k \in DOMAIN Cart(r) : k \in Int /\ (k < line[r] => OnceInStream(r, k))
    BY <1>1, CallTypes DEF AnswerAfter
  <1>3. \A i \in DOMAIN log' : log'[i].by = r => log'[i].part < line'[r]
    BY <1>1, <1>2, Added
  <1>4. ASSUME NEW k \in DOMAIN Cart(r), k < line'[r]
        PROVE  OnceInStream(r, k)'
    <2>1. k < line[r] \/ k = line[r]
      BY <1>1, <1>2, <1>4
    <2>2. CASE k < line[r]
      <3>1. PICK i \in DOMAIN log : \A j \in DOMAIN log : log[j].by = r /\ log[j].part = k <=> j = i
        BY <1>2, <2>2 DEF OnceInStream
      <3>2. i \in DOMAIN log' /\ i # Len(log) + 1
        BY Added
      <3>3. \A j \in DOMAIN log' : log'[j].by = r /\ log'[j].part = k <=> j = i
        BY <1>1, <1>2, <2>2, <3>1, <3>2, Added
      <3>4. QED
        BY <3>2, <3>3 DEF OnceInStream
    <2>3. CASE k = line[r]
      <3>1. \A j \in DOMAIN log : ~(log[j].by = r /\ log[j].part = k)
        BY <1>1, <1>2, <2>3
      <3>2. \A j \in DOMAIN log' : log'[j].by = r /\ log'[j].part = k <=> j = Len(log) + 1
        BY <2>3, <3>1, Added
      <3>3. QED
        BY <3>2, Added DEF OnceInStream
    <2>4. QED
      BY <2>1, <2>2, <2>3
  <1>5. QED
    BY <1>1, <1>3, <1>4 DEF AnswerAfter

\* Without a pipeline that stops half-way or is sent twice, a call in "push" has the
\* tasks up to its line in the stream, each once.
LEMMA AnswerLastStep ==
  ASSUME {"partial", "resend"} \cap Faults = {}, Inductive, Authored, AnswerLast, [Next]_vars
  PROVE  AnswerLast'
  <1>t. /\ pc \in [Requests -> Places] /\ line \in [Requests -> Nat \ {0}]
        /\ reply \in [Requests -> {"none", "pending", "error"}]
        /\ order \in [Requests -> Order \cup {Absent}]
        /\ \A i \in DOMAIN log : log[i].by \in Requests /\ log[i].part \in Nat \ {0}
        /\ \A r \in Requests : pc[r] \in Early => \A i \in DOMAIN log : log[i].by # r
    BY CallTypes DEF Authored, Early
  <1>1. CASE ~\E r \in Requests : Begin(r) \/ Call(r)
    <2>1. \A r \in Requests : AnswerAfter(r)
      BY DEF AnswerLast
    <2>2. QED
      BY <1>1, <2>1, OtherSteps, AnswerStays DEF AnswerLast
  <1>2. ASSUME NEW r \in Requests, Begin(r) \/ Call(r)
        PROVE  AnswerLast'
    <2>1. \A s \in Requests : AnswerAfter(s)
      BY DEF AnswerLast
    <2>2. \A s \in Requests \ {r} : AnswerAfter(s)'
      <3>1. CASE XAdd(r)
        BY <2>1, <3>1, AnswerAside
      <3>2. CASE log' = log
        BY <1>2, <2>1, <3>2, CallFrame, AnswerStays
      <3>3. QED
        BY <1>2, <3>1, <3>2, CallFrame
    <2>3. CASE XAdd(r)
      BY <2>1, <2>2, <2>3, AnswerAdds DEF AnswerLast
    <2>4. CASE ~XAdd(r)
      <3>1. log' = log
        BY <1>2, <2>4, CallFrame
      <3>. SUFFICES AnswerAfter(r)'
        BY <2>2 DEF AnswerLast
      <3>2. ASSUME pc[r] \in Early, pc'[r] \in {"lock", "price"}, reply'[r] = reply[r]
            PROVE  AnswerAfter(r)'
        BY <2>1, <3>1, <3>2 DEF AnswerAfter, Early
      <3>3. ASSUME pc[r] \in Early, pc'[r] \in {"gate", "regate"}, reply'[r] = reply[r], line'[r] = 1
            PROVE  AnswerAfter(r)'
        BY <2>1, <3>1, <3>3 DEF AnswerAfter, Early
      <3>4. ASSUME pc[r] \in Early, pc'[r] \in {"done", "release"}, reply'[r] = "error"
            PROVE  AnswerAfter(r)'
        BY <1>t, <2>1, <3>1, <3>4 DEF AnswerAfter
      <3>5. CASE Begin(r) \/ Acquire(r) \/ Busy(r) \/ AcquireFails(r) \/ PriceLine(r) \/ RejectLine(r)
        BY <1>t, <3>2, <3>4, <3>5 DEF Begin, Acquire, Busy, AcquireFails, PriceLine, RejectLine,
           Goto, Answer, Early
      <3>6. CASE Priced(r) \/ Refuse(r) \/ ReserveLost(r) \/ ReserveAgain(r)
        <4>1. AtGate(r) => line[r] = 1
          BY <2>1 DEF AnswerAfter, AtGate
        <4>2. QED
          BY <1>t, <3>3, <3>4, <3>6, <4>1 DEF Priced, Refuse, ReserveLost, ReserveAgain, AtGate,
             Goto, Answer, Early
      <3>7. CASE Reserve(r)
        <4>1. /\ pc[r] \in Early /\ pc'[r] = "push" /\ reply'[r] = reply[r] /\ line'[r] = 1
              /\ Cart(r)' = Cart(r) /\ reply[r] = "none"
          BY <1>t, <2>1, <3>7 DEF Reserve, AtGate, Goto, Early, AnswerAfter, Cart
        <4>2. \A k \in DOMAIN Cart(r) : ~(k < 1)
          BY <4>1, <3>7, CallTypes DEF Reserve, AtGate
        <4>3. QED
          BY <1>t, <3>1, <4>1, <4>2 DEF AnswerAfter
      <3>8. CASE PushDone(r)
        <4>1. /\ pc[r] = "push" /\ pc'[r] = "release" /\ reply'[r] = "pending" /\ Cart(r)' = Cart(r)
              /\ \A k \in DOMAIN Cart(r) : k < line[r]
          BY <1>t, <2>1, <3>8, CallTypes DEF PushDone, Pushing, Goto, Answer, AnswerAfter, Cart,
             MoreLines
        <4>2. QED
          BY <2>1, <3>1, <4>1 DEF AnswerAfter, OnceInStream
      <3>9. CASE PushFail(r)
        <4>1. /\ pc[r] = "push" /\ line[r] = 1 /\ pc'[r] = "undoWallet" /\ reply'[r] = "error"
          BY <1>t, <2>1, <3>9 DEF PushFail, PushMayFail, Pushing, Goto, Answer, AnswerAfter
        <4>2. \A i \in DOMAIN log : log[i].by # r
          BY <1>t, <2>1, <4>1 DEF AnswerAfter
        <4>3. QED
          BY <3>1, <4>1, <4>2 DEF AnswerAfter
      <3>10. CASE UndoWallet(r) \/ UndoStock(r) \/ UndoDone(r) \/ Release(r)
        <4>1. /\ pc[r] \in {"undoWallet", "undoStock", "release"} /\ reply'[r] = reply[r]
              /\ pc'[r] \in {"undoStock", "release", "done"} /\ Cart(r)' = Cart(r)
              /\ pc'[r] = "undoStock" => pc[r] \in {"undoWallet", "undoStock"}
          BY <1>t, <3>10 DEF UndoWallet, UndoStock, UndoDone, Release, Goto, Cart
        <4>2. QED
          BY <2>1, <3>1, <4>1 DEF AnswerAfter, OnceInStream
      <3>11. QED
        BY <1>2, <2>4, <3>5, <3>6, <3>7, <3>8, <3>9, <3>10 DEF Call, PushAgain
    <2>5. QED
      BY <2>3, <2>4
  <1>3. QED
    BY <1>1, <1>2

\* As long as no pipeline stops half-way or is sent twice, a call that was answered
\* "pending" has each line of its cart in the stream once, and one that was answered
\* with an error gets nothing booked, through crashes and lost replies too.
THEOREM AnswersAreTrue ==
  ASSUME {"partial", "resend"} \cap Faults = {} PROVE Spec => []AnswerMatchesTasks
  <1>1. Init => Authored /\ AnswerLast
    BY DEF Init, StoreInit, GatewayInit, Authored, AnswerLast, AnswerAfter
  <1>2. Inductive /\ Authored /\ AnswerLast /\ [Next]_vars => Authored' /\ AnswerLast'
    BY AuthoredStep, AnswerLastStep
  <1>3. Inductive /\ AnswerLast => AnswerMatchesTasks
    <2>1. Inductive => Committed \subseteq DOMAIN log
      BY DEF Inductive, TypeOK, StoreTypeOK
    <2>2. QED
      BY <2>1 DEF AnswerLast, AnswerAfter, AnswerMatchesTasks, OnceInStream
  <1>4. QED
    BY <1>1, <1>2, <1>3, InductiveHolds, PTL DEF Spec

-----------------------------------------------------------------------------
\* The messages of a reply are the oldest of those behind the position: what is older
\* than one of them is in the reply too.
LEMMA ReplyHasNoGap ==
  ASSUME Inductive, NEW j \in NextBatch, NEW i \in Available, i <= j
  PROVE  i \in NextBatch
  <1> DEFINE Before(n) == {k \in Available : k < n}
  <1>1. Available \subseteq 1..Len(log) /\ Len(log) \in Nat
    BY DEF Available, Inductive, TypeOK, StoreTypeOK
  <1>2. IsFiniteSet(Before(j))
    <2>1. IsFiniteSet(1..Len(log))
      BY <1>1, FS_Interval
    <2>2. Before(j) \subseteq 1..Len(log)
      BY <1>1
    <2>3. QED
      BY <2>1, <2>2, FS_Subset
  <1>3. Before(i) \subseteq Before(j)
    <2>1. j \in Available
      BY DEF NextBatch
    <2>2. \A k \in Available : k \in Int
      BY <1>1
    <2>3. QED
      BY <2>1, <2>2
  <1>4. /\ Cardinality(Before(i)) <= Cardinality(Before(j))
        /\ Cardinality(Before(i)) \in Nat /\ Cardinality(Before(j)) \in Nat
    BY <1>2, <1>3, FS_Subset, FS_CardinalityType
  <1>5. Cardinality(Before(j)) < BatchSize
    BY DEF NextBatch
  <1>6. Cardinality(Before(i)) < BatchSize
    BY <1>4, <1>5, BoundAssumption
  <1>7. QED
    BY <1>6 DEF NextBatch

\* Handled tasks stay handled.
LEMMA HandledGrows ==
  ASSUME Inductive, [Next]_vars
  PROVE  Handled \subseteq Handled'
  <1>1. CASE Commit \/ CommitLost
    <2>1. PICK i \in batch : Settleable(log[i]) /\ Book(i)
      BY <1>1 DEF Commit, CommitLost
    <2>2. Committed \subseteq Committed' /\ rejected \subseteq rejected'
      BY <1>1, <2>1, BookAdds DEF Commit, CommitLost
    <2>3. QED
      BY <2>2 DEF Handled
  <1>2. CASE ~(Commit \/ CommitLost)
    <2>1. history' = history /\ rejected \subseteq rejected'
      BY <1>2 DEF Next, vars, GatewayStep, GatewayNext, WorkerStep, WorkerNext, Settle,
         StartRead, Deliver,
         ReadNil, ReadError, Stop, Abort, RefundWallet, RefundStock, Ack, Process, Signal,
         GracefulStop,
         Exit, Crash, Restart, dbVars, workerVars
    <2>2. QED
      BY <2>1 DEF Handled, Committed
  <1>3. QED
    BY <1>1, <1>2

\* Between the position of the reading and the message in hand nothing is left.
LEMMA SweptStep ==
  ASSUME Inductive, CurrentHandled, DeletedAreHandled, Swept, [Next]_vars
  PROVE  Swept'
  <1>1. Handled \subseteq Handled'
    BY HandledGrows
  <1>2. /\ log \in Seq(Task) /\ Len(log) \in Nat /\ DOMAIN log = 1..Len(log)
        /\ batch \subseteq DOMAIN log /\ cur \in 0..Len(log) /\ rpos \in 0..Len(log)
    BY CallTypes DEF Inductive, TypeOK, WorkerTypeOK
  <1>3. \A j \in 0..Len(log), i \in DOMAIN log' : 0 < i /\ i <= j => i \in DOMAIN log
    BY <1>2
  <1>4. CASE UNCHANGED workerVars \/ Exit \/ Restart \/ Crash
    <2>1. UNCHANGED <<batch, rpos, cur, wpc>> \/ wpc' \in {"down", "loop"}
      BY <1>4 DEF workerVars, Exit, Restart, Crash
    <2>2. CASE wpc' \in {"down", "loop"}
      BY <2>2 DEF Swept
    <2>3. CASE UNCHANGED <<batch, rpos, cur, wpc>>
      <3>1. \A j \in batch : j \in 0..Len(log)
        BY <1>2
      <3>2. \A i \in DOMAIN log' : i \in Nat \ {0}
        <4>1. log' \in Seq(Task)
          BY InductiveStep DEF Inductive, TypeOK, StoreTypeOK
        <4>2. QED
          BY <4>1
      <3>3. ASSUME NEW i \in DOMAIN log', rpos < i PROVE 0 < i
        BY <1>2, <3>2, <3>3
      <3>4. QED
        BY <1>1, <1>2, <1>3, <2>3, <3>1, <3>3 DEF Swept
    <2>4. QED
      BY <2>1, <2>2, <2>3
  <1>5. CASE WorkerStep
    <2>1. log' = log
      BY <1>5 DEF WorkerStep, WorkerNext
    <2>2. CASE StartRead \/ ReadNil \/ ReadError \/ Stop
      BY <2>2 DEF StartRead, ReadNil, ReadError, Stop, Swept
    <2>3. CASE Deliver
      <3>1. wpc' = "batch" /\ batch' = NextBatch /\ UNCHANGED <<rpos, deleted, cur>>
        BY <2>3 DEF Deliver
      <3>2. ASSUME NEW j \in NextBatch, NEW i \in DOMAIN log, rpos < i, i <= j
            PROVE  i \in NextBatch \cup Handled
        <4>1. CASE i \in deleted
          BY <4>1 DEF DeletedAreHandled
        <4>2. CASE i \notin deleted
          BY <3>2, <4>2, ReplyHasNoGap DEF Available
        <4>3. QED
          BY <4>1, <4>2
      <3>3. QED
        BY <1>1, <2>1, <3>1, <3>2 DEF Swept
    <2>4. CASE Commit \/ Abort \/ CommitLost
      <3>1. PICK i \in batch : IsOldest(i) /\ Take(i) /\ i \in Handled'
        <4>1. CASE Commit \/ CommitLost
          <5>1. PICK i \in batch : IsOldest(i) /\ Settleable(log[i]) /\ Book(i) /\ Take(i)
            BY <4>1 DEF Commit, CommitLost
          <5>2. i \in Handled'
            BY <5>1, BookAdds DEF Handled
          <5>3. QED
            BY <5>1, <5>2
        <4>2. CASE Abort
          BY <4>2 DEF Abort, Handled
        <4>3. QED
          BY <2>4, <4>1, <4>2
      <3>2. wpc = "batch" /\ rpos' = rpos
        BY <2>4 DEF Commit, Abort, CommitLost
      <3>3. \A k \in DOMAIN log : rpos < k /\ k <= i => k \in Handled'
        <4>1. \A k \in batch : i <= k /\ k \in Int
          BY <1>2, <3>1 DEF IsOldest
        <4>2. \A k \in batch : k <= i => k = i
          BY <1>2, <4>1
        <4>3. QED
          BY <1>1, <3>1, <3>2, <4>2 DEF Swept
      <3>4. \A j \in batch' : \A k \in DOMAIN log : rpos < k /\ k <= j => k \in batch' \cup Handled'
        BY <1>1, <3>1, <3>2 DEF Swept, Take
      <3>5. QED
        BY <2>1, <2>4, <3>1, <3>2, <3>3, <3>4 DEF Swept, Take, Commit, Abort, CommitLost
    <2>5. CASE RefundWallet \/ RefundStock \/ Ack
      <3>1. /\ wpc \in {"refundWallet", "refundStock", "ack"} /\ UNCHANGED <<batch, rpos>>
            /\ wpc' \in {"refundStock", "ack"} => cur' = cur
        BY <2>5 DEF RefundWallet, RefundStock, Ack
      <3>2. wpc' \in {"refundStock", "ack", "loop", "batch"}
        BY <2>5 DEF RefundWallet, RefundStock, Ack
      <3>3. QED
        BY <1>1, <2>1, <3>1, <3>2 DEF Swept
    <2>6. QED
      BY <1>5, <2>2, <2>3, <2>4, <2>5 DEF WorkerStep, WorkerNext, Settle
  <1>6. QED
    BY <1>4, <1>5 DEF Next, GatewayStep, Process, Signal, GracefulStop, vars

\* The cursor passes no task of its reading that has no outcome: nothing falls between
\* two batches, or out of a reply, under any fault.
THEOREM NothingSkipped == Spec => CursorSkipsNothing
  <1>1. Init => CurrentHandled /\ DeletedAreHandled /\ Swept
    BY DEF Init, StoreInit, WorkerInit, CurrentHandled, DeletedAreHandled, Swept
  <1>2. Inductive /\ CurrentHandled /\ DeletedAreHandled /\ Swept /\ [Next]_vars =>
          CurrentHandled' /\ DeletedAreHandled' /\ Swept'
    BY DeletedStep, SweptStep
  <1>3. ASSUME Inductive, CurrentHandled, Swept, [Next]_vars, cursor' # cursor, cursor' # Latest,
               NEW i \in DOMAIN log, rpos < i, i <= cursor'
        PROVE  i \in Handled
    <2>1. wpc = "ack" /\ cursor' = cur
      BY <1>3 DEF Next, vars, GatewayStep, WorkerStep, WorkerNext, Settle, StartRead, Deliver,
         ReadNil,
         ReadError, Stop, Commit, Abort, CommitLost, RefundWallet, RefundStock, Ack, Process,
         Signal,
         GracefulStop, Exit, Crash, Restart, StartId, workerVars
    <2>2. QED
      BY <1>3, <2>1 DEF Swept
  <1>4. Inductive /\ CurrentHandled /\ Swept /\ [Next]_vars =>
          [cursor' # cursor /\ cursor' # Latest =>
             \A i \in DOMAIN log : rpos < i /\ i <= cursor' => i \in Handled]_vars
    BY <1>3
  <1>5. QED
    BY <1>1, <1>2, <1>4, InductiveHolds, PTL DEF Spec, CursorSkipsNothing
=============================================================================

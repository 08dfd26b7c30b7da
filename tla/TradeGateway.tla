---------------------------- MODULE TradeGateway ----------------------------
(***************************************************************************)
(* The order gateway: concurrent calls of TradeService.ExecuteOrderV2      *)
(* (pkg/services/trade.go), which reserve the money and the goods of a     *)
(* cart in Redis and hand one task per cart line to the trade worker.      *)
(* A call moves through                                                    *)
(*                                                                         *)
(*   idle -> lock -> price -> gate -> push -> release -> done              *)
(*                                      \-> undoWallet -> undoStock -/     *)
(*                                                                         *)
(* one Redis command (or script) per step; "dead" is a call that a crash   *)
(* of the process cut off.  A script or a pipeline that took effect and is *)
(* sent again by the client library goes on in "regate" and "repush".      *)
(***************************************************************************)
EXTENDS TradeStore

VARIABLES
  pc,     \* where the call is
  order,  \* its user and cart; Absent before the call
  line,   \* the cart line that a loop of the call is at
  total,  \* totalAmount: pickups minus returns
  need,   \* idList/qtyList: what the pickup lines take of each product
  reply   \* what the caller is told

gatewayVars == <<pc, order, line, total, need, reply>>

Order == [user : Users, cart : Carts]

ASSUME NoOrderAssumption == Absent \notin Order

GatewayInit ==
  /\ pc = [r \in Requests |-> "idle"]
  /\ order = [r \in Requests |-> Absent]
  /\ line = [r \in Requests |-> 1]
  /\ total = [r \in Requests |-> 0]
  /\ need = [r \in Requests |-> [p \in Products |-> 0]]
  /\ reply = [r \in Requests |-> "none"]

Goto(r, l) == pc' = [pc EXCEPT ![r] = l]
Answer(r, a) == reply' = [reply EXCEPT ![r] = a]
Finished(r) == pc[r] \in {"done", "dead"}
InFlight(r) == pc[r] \notin {"idle", "done", "dead"}

Cart(r) == order[r].cart
At(r) == Cart(r)[line[r]]
\* Variant: the loops miss the last line of a cart.
MoreLinesButLast(r) == line[r] < Len(Cart(r))

MoreLines(r) == line[r] <= Len(Cart(r))

\* Lines 39-52: a cart that is refused before anything is touched.
Malformed(cart) == cart = <<>> \/ \E i \in DOMAIN cart : cart[i].qty <= 0

\* Variant: idList and qtyList name the returned products too.
TakenByAll(l, p) == IF l.product = p THEN l.qty ELSE 0

\* What the line takes out of the stock counter: returns are not in idList.
Taken(l, p) == IF l.kind = "pickup" /\ l.product = p THEN l.qty ELSE 0

\* Variant: a return is charged like a pickup.
ChargeUnsigned(l) == Price[l.product] * l.qty

\* What the line adds to totalAmount.
Charge(l) == IF l.kind = "pickup" THEN Price[l.product] * l.qty
                                  ELSE -(Price[l.product] * l.qty)

TaskOf(r) ==
  [user |-> order[r].user, product |-> At(r).product, qty |-> At(r).qty,
   amount |-> Price[At(r).product] * At(r).qty, kind |-> At(r).kind,
   by |-> r, part |-> line[r]]

-----------------------------------------------------------------------------
\* A call arrives (only while the servers accept calls).
Begin(r) ==
  /\ Accepting
  /\ pc[r] = "idle"
  /\ \E u \in Users, cart \in Carts :
       /\ order' = [order EXCEPT ![r] = [user |-> u, cart |-> cart]]
       /\ IF Malformed(cart)
            THEN Goto(r, "done") /\ Answer(r, "error")
            ELSE Goto(r, "lock") /\ UNCHANGED reply
  /\ UNCHANGED <<line, total, need, cacheVars, log>>

\* Variant: SET where the code has SETNX.
AlwaysFree(r) == TRUE

\* SETNX succeeds on a key that does not exist.
LockFree(r) == lock[order[r].user] = Free

\* SETNX of the lock succeeds: the deferred release is now registered.
Acquire(r) ==
  /\ pc[r] = "lock"
  /\ LockFree(r)
  /\ lock' = [lock EXCEPT ![order[r].user] = r]
  /\ Goto(r, "price")
  /\ UNCHANGED <<order, line, total, need, reply, wallet, stock, log>>

\* TOO_MANY_REQUESTS.
Busy(r) ==
  /\ pc[r] = "lock"
  /\ ~LockFree(r)
  /\ Goto(r, "done") /\ Answer(r, "error")
  /\ UNCHANGED <<order, line, total, need, cacheVars, log>>

\* SETNX reports an error, or is sent again and finds its own key: the call
\* ends without a release, and the lock may be set all the same.
AcquireFails(r) ==
  /\ pc[r] = "lock"
  /\ \/ "redis" \in Faults /\ UNCHANGED lock
     \/ /\ {"redis", "rerun"} \cap Faults # {}
        /\ LockFree(r)
        /\ lock' = [lock EXCEPT ![order[r].user] = r]
  /\ Goto(r, "done") /\ Answer(r, "error")
  /\ UNCHANGED <<order, line, total, need, wallet, stock, log>>

\* One turn of the loop that prices the cart.
PriceLine(r) ==
  /\ pc[r] = "price"
  /\ MoreLines(r)
  /\ Price[At(r).product] # Absent
  /\ At(r).kind # "exchange"
  /\ total' = [total EXCEPT ![r] = @ + Charge(At(r))]
  /\ need' = [need EXCEPT ![r] = [p \in Products |-> @[p] + Taken(At(r), p)]]
  /\ line' = [line EXCEPT ![r] = @ + 1]
  /\ UNCHANGED <<pc, order, reply, cacheVars, log>>

\* PRODUCT_NOT_FOUND (also for a failed HMGET) or INVALID_TX_TYPE.
RejectLine(r) ==
  /\ pc[r] = "price"
  /\ MoreLines(r)
  /\ \/ Price[At(r).product] = Absent
     \/ At(r).kind = "exchange"
     \/ "redis" \in Faults
  /\ Goto(r, "release") /\ Answer(r, "error")
  /\ UNCHANGED <<order, line, total, need, cacheVars, log>>

Priced(r) ==
  /\ pc[r] = "price"
  /\ ~MoreLines(r)
  /\ Goto(r, "gate")
  /\ line' = [line EXCEPT ![r] = 1]
  /\ UNCHANGED <<order, total, need, reply, cacheVars, log>>

-----------------------------------------------------------------------------
(***************************************************************************)
(* The Lua script optimizedLuaScriptV2 is one atomic step.  It compares    *)
(* the stock with every pickup line by itself, not with their sum.         *)
(***************************************************************************)
\* Variant: the script only looks whether there is any money left.
AffordableIfAny(r) == Counter(wallet[order[r].user]) > 0

Affordable(r) == Counter(wallet[order[r].user]) >= Trunc(total[r])

InStock(r) ==
  \A i \in DOMAIN Cart(r) :
    Cart(r)[i].kind = "pickup" => stock[Cart(r)[i].product] >= Cart(r)[i].qty

Passes(r) == Affordable(r) /\ InStock(r) /\ Whole(wallet[order[r].user])

Deduct(r) ==
  /\ wallet' = [wallet EXCEPT ![order[r].user] = Counter(@) - Trunc(total[r])]
  /\ stock' = [p \in Products |-> stock[p] - need[r][p]]

\* The script is on its way, for the first or for the second time.
AtGate(r) == pc[r] \in {"gate", "regate"}

\* The script answers 1.
Reserve(r) ==
  /\ AtGate(r)
  /\ Passes(r)
  /\ Deduct(r)
  /\ Goto(r, "push")
  /\ UNCHANGED <<order, line, total, need, reply, lock, log>>

\* Variant: a refused call keeps trying until it passes.
RefuseRetries(r) ==
  /\ AtGate(r)
  /\ ~Passes(r) \/ "redis" \in Faults
  /\ UNCHANGED <<gatewayVars, cacheVars, log>>

\* The script answers 0 or -1, its DECRBY refuses a fractional counter, or
\* the command fails before it takes effect.
Refuse(r) ==
  /\ AtGate(r)
  /\ ~Passes(r) \/ "redis" \in Faults
  /\ Goto(r, "release") /\ Answer(r, "error")
  /\ UNCHANGED <<order, line, total, need, cacheVars, log>>

\* The script took effect but its reply is lost: REDIS_LUA_ERROR, and nothing
\* gives the reservation back.
ReserveLost(r) ==
  /\ "redis" \in Faults
  /\ AtGate(r)
  /\ Passes(r)
  /\ Deduct(r)
  /\ Goto(r, "release") /\ Answer(r, "error")
  /\ UNCHANGED <<order, line, total, need, lock, log>>

\* The script took effect, its reply is lost, and it is sent again.
ReserveAgain(r) ==
  /\ "rerun" \in Faults
  /\ pc[r] = "gate"
  /\ Passes(r)
  /\ Deduct(r)
  /\ Goto(r, "regate")
  /\ UNCHANGED <<order, line, total, need, reply, lock, log>>

-----------------------------------------------------------------------------
Pushing(r) == pc[r] \in {"push", "repush"}

\* One XADD of the pipeline (no MULTI: other clients run in between).
XAdd(r) ==
  /\ Pushing(r)
  /\ MoreLines(r)
  /\ log' = Append(log, TaskOf(r))
  /\ line' = [line EXCEPT ![r] = @ + 1]
  /\ UNCHANGED <<pc, order, total, need, reply, cacheVars>>

PushDone(r) ==
  /\ Pushing(r)
  /\ ~MoreLines(r)
  /\ Goto(r, "release") /\ Answer(r, "pending")
  /\ UNCHANGED <<order, line, total, need, cacheVars, log>>

\* Variant: the tasks are pushed one by one, and a failure of any of them
\* compensates the whole cart.
PushMayFailMidway(r) == "push" \in Faults

\* Exec returns an error: with "push" nothing was sent, with "partial" any
\* prefix of the commands took effect.
PushMayFail(r) ==
  \/ "push" \in Faults /\ pc[r] = "push" /\ line[r] = 1
  \/ "partial" \in Faults

PushFail(r) ==
  /\ Pushing(r)
  /\ PushMayFail(r)
  /\ Goto(r, "undoWallet") /\ Answer(r, "error")
  /\ line' = [line EXCEPT ![r] = 1]
  /\ UNCHANGED <<order, total, need, cacheVars, log>>

\* The connection breaks in the middle of the pipeline, and all of it is sent
\* again.
PushAgain(r) ==
  /\ "resend" \in Faults
  /\ pc[r] = "push"
  /\ line[r] > 1
  /\ Goto(r, "repush")
  /\ line' = [line EXCEPT ![r] = 1]
  /\ UNCHANGED <<order, total, need, reply, cacheVars, log>>

\* CompensateTradeAssetsV2: the wallet first, then every pickup line.
UndoWallet(r) ==
  /\ pc[r] = "undoWallet"
  /\ \E k \in Times :
       wallet' = [wallet EXCEPT ![order[r].user] = IncrBy(@, Trunc(total[r]), k)]
  /\ Goto(r, "undoStock")
  /\ UNCHANGED <<order, line, total, need, reply, stock, lock, log>>

UndoStock(r) ==
  /\ pc[r] = "undoStock"
  /\ MoreLines(r)
  /\ \E k \in Times :
       stock' = [stock EXCEPT ![At(r).product] = @ + k * Taken(At(r), At(r).product)]
  /\ line' = [line EXCEPT ![r] = @ + 1]
  /\ UNCHANGED <<pc, order, total, need, reply, wallet, lock, log>>

UndoDone(r) ==
  /\ pc[r] = "undoStock"
  /\ ~MoreLines(r)
  /\ Goto(r, "release")
  /\ UNCHANGED <<order, line, total, need, reply, cacheVars, log>>

\* Variant: a plain DEL, without the comparison.
OwnsAny(r) == TRUE

\* luaReleaseLockScript compares the value first.
Owns(r) == lock[order[r].user] = r

\* The deferred release: compare, then delete, in one script.
Release(r) ==
  /\ pc[r] = "release"
  /\ \E ok \in Outcomes :
       lock' = [lock EXCEPT ![order[r].user] = IF ok /\ Owns(r) THEN Free ELSE @]
  /\ Goto(r, "done")
  /\ UNCHANGED <<order, line, total, need, reply, wallet, stock, log>>

\* Variant: no time to live; the next start clears away what a crash has left.
OverdueIfDead(r) == pc[r] = "dead"

\* The five seconds of the lock can be over.
Overdue(r) == Finished(r) \/ "expiry" \in Faults

\* Redis drops the key of an overdue lock.
Expire(u) ==
  /\ lock[u] # Free
  /\ Overdue(lock[u])
  /\ lock' = [lock EXCEPT ![u] = Free]
  /\ UNCHANGED <<gatewayVars, wallet, stock, log>>

Call(r) ==
  \/ Acquire(r) \/ Busy(r) \/ AcquireFails(r)
  \/ PriceLine(r) \/ RejectLine(r) \/ Priced(r)
  \/ Reserve(r) \/ Refuse(r) \/ ReserveLost(r) \/ ReserveAgain(r)
  \/ XAdd(r) \/ PushDone(r) \/ PushFail(r) \/ PushAgain(r)
  \/ UndoWallet(r) \/ UndoStock(r) \/ UndoDone(r)
  \/ Release(r)

GatewayNext ==
  /\ \/ \E r \in Requests : Begin(r) \/ Call(r)
     \/ \E u \in Users : Expire(u)
  /\ UNCHANGED <<appVars, deleted, dbVars>>

\* Where a call may be.
Places == {"idle", "lock", "price", "gate", "regate", "push", "repush",
           "undoWallet", "undoStock", "release", "done", "dead"}

\* Every call is somewhere, with what it has of its order.
GatewayTypeOK ==
  /\ pc \in [Requests -> Places]
  /\ order \in [Requests -> Order \cup {Absent}]
  /\ line \in [Requests -> Nat \ {0}]
  /\ total \in [Requests -> Int]
  /\ need \in [Requests -> [Products -> Int]]
  /\ reply \in [Requests -> {"none", "pending", "error"}]
  /\ \A r \in Requests : pc[r] # "idle" => order[r] \in Order
=============================================================================

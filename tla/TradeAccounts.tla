---------------------------- MODULE TradeAccounts ---------------------------
(***************************************************************************)
(* How the counters in Redis and the books in the database agree: what is  *)
(* reserved for a call at work or for a task without an outcome makes the  *)
(* difference between them.                                                *)
(***************************************************************************)
EXTENDS TradePipeline, Functions

\* A sum over all calls needs finitely many of them; it does not matter how many.
ASSUME CallsAssumption == IsFiniteSet(Requests)

\* The lines of call r that are reserved and neither in the stream nor given
\* back yet, when they are given back in the states "undo".
Held(r, undo) ==
  IF Pushing(r) \/ pc[r] \in undo THEN line[r]..Len(Cart(r)) ELSE {}

\* What each line of a cart takes of product p, and what it costs.
LineStock(c, p) == [k \in DOMAIN c |-> Taken(c[k], p)]
LineMoney(c) == [k \in DOMAIN c |-> Charge(c[k])]

\* The goods and the money that call r holds, and that all calls hold together.
StockOf(r, p) ==
  SumFunctionOnSet(LineStock(Cart(r), p), Held(r, {"undoWallet", "undoStock"}))
MoneyOf(r, u) ==
  IF order[r] # Absent /\ order[r].user = u
    THEN SumFunctionOnSet(LineMoney(Cart(r)), Held(r, {"undoWallet"})) ELSE 0

HeldStock(p) == SumFunction([r \in Requests |-> StockOf(r, p)])
HeldMoney(u) == SumFunction([r \in Requests |-> MoneyOf(r, u)])

\* What each task takes of product p, brings of it, and costs user u.
TasksTake(p) == [i \in DOMAIN log |-> Taken(log[i], p)]
TasksBring(p) ==
  [i \in DOMAIN log |->
    IF log[i].product = p /\ log[i].kind = "return" THEN log[i].qty ELSE 0]
TasksCost(u) ==
  [i \in DOMAIN log |-> IF log[i].user = u THEN -Sign(log[i]) * log[i].amount ELSE 0]

\* The same of the tasks in a set.
TaskStock(p, S) == SumFunctionOnSet(TasksTake(p), S)
Returned(p, S) == SumFunctionOnSet(TasksBring(p), S)
TaskMoney(u, S) == SumFunctionOnSet(TasksCost(u), S)

\* Tasks without an outcome, and those whose compensation is still to come.
Open(compensating) ==
  {i \in DOMAIN log : i \notin Handled \/ (i = cur /\ wpc \in compensating)}

\* Tasks without an outcome that the worker can still come to: those in its
\* batch, and those behind the position it will read from next.
Live ==
  {i \in DOMAIN log \ Handled :
     \/ wpc = "loop" /\ cursor # Latest /\ i > cursor
     \/ wpc = "reading" /\ i > rpos
     \/ /\ wpc \in {"batch", "refundWallet", "refundStock", "ack"}
        /\ i \in batch \/ \A j \in batch \cup {cur} : j < i}

-----------------------------------------------------------------------------
\* With nothing lost, the wallet counter is the balance less the pickups and plus
\* the returns that are reserved or queued but not yet booked: exactly.
WalletExact ==
  \A u \in Users :
    Counter(wallet[u]) + HeldMoney(u) + TaskMoney(u, Open({"refundWallet"}))
      = Counter(dbBalance[u])

\* With nothing lost, the stock counter is the stock less the pickups reserved or
\* queued, and less every return that has its outcome: a return that is booked
\* raises the stock and no counter, and one that is turned down lowers the
\* counter, though nothing of it was ever added.
StockExact ==
  \A p \in Products :
    LET open == Open({"refundWallet", "refundStock"})
    IN stock[p] + HeldStock(p) + TaskStock(p, open) = dbStock[p] - Returned(p, DOMAIN log \ open)

\* Through crashes, shutdowns, lost replies and restarts: the stock counter
\* never promises goods that the database does not have, or has promised to a
\* call at work or to a task the worker can still come to.
StockCovered ==
  \A p \in Products : stock[p] + HeldStock(p) + TaskStock(p, Live) <= dbStock[p]

\* The same of the wallet counter (carts of pickups).
WalletCovered ==
  \A u \in Users :
    Counter(wallet[u]) + HeldMoney(u) + TaskMoney(u, Live) <= Counter(dbBalance[u])

\* Nothing is at work and nothing is queued.
Quiet ==
  /\ app = "up"
  /\ \A r \in Requests : ~InFlight(r)
  /\ DOMAIN log = Handled
  /\ wpc \in {"loop", "reading"}
=============================================================================

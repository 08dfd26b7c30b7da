----------------------------- MODULE TradeWorker ----------------------------
(***************************************************************************)
(* The trade worker: the one loop of TradeWorker.Start                     *)
(* (pkg/workers/trade.go), which reads tasks from the stream and settles   *)
(* each in a database transaction.                                         *)
(*                                                                         *)
(*   loop -> reading -> batch -> ack -> batch ... -> loop                  *)
(*                        \-> refundWallet -> refundStock -/               *)
(*                                                                         *)
(* The context of its Redis commands is cancelled as soon as the process   *)
(* is signalled: from then on they fail at once and their errors are       *)
(* ignored.  The database transaction does not take that context.          *)
(***************************************************************************)
EXTENDS TradeStore

VARIABLES
  wpc,      \* where the loop is
  cursor,   \* lastIdx: "$" or the id of the last message handled
  rpos,     \* what the server made of cursor for the current XREAD
  batch,    \* ids of the messages of the last reply still to be handled
  cur,      \* id of the message in hand, 0 if none
  rejected  \* ids whose transaction returned an error

workerVars == <<wpc, cursor, rpos, batch, cur, rejected>>

\* Variant: the worker starts at "0" and reads what is left in the stream.
StartAtZero == 0

\* lastIdx at the start of the loop.
StartId == Latest

WorkerInit ==
  /\ wpc = "loop"
  /\ cursor = StartId
  /\ rpos = 0
  /\ batch = {}
  /\ cur = 0
  /\ rejected = {}

\* What XREAD finds behind the position of the current call.
Available == {i \in DOMAIN log : i > rpos /\ i \notin deleted}

\* The Count oldest of them.
NextBatch ==
  {i \in Available : Cardinality({j \in Available : j < i}) < BatchSize}

\* Variant: the messages of a reply are handled in any order.
IsAny(i) == i \in batch

IsOldest(i) == i \in batch /\ \A j \in batch : i <= j

-----------------------------------------------------------------------------
\* Variant: "$" means the id that comes next.
ResolvePastEnd(c) == IF c = Latest THEN Len(log) + 1 ELSE c

\* Variant: every read starts at "$".
ResolveToEnd(c) == Len(log)

\* The server takes "$" for the last id the stream holds when the XREAD comes.
Resolve(c) == IF c = Latest THEN Len(log) ELSE c

\* XREAD is sent.
StartRead ==
  /\ wpc = "loop"
  /\ app = "up"
  /\ rpos' = Resolve(cursor)
  /\ wpc' = "reading"
  /\ UNCHANGED <<cursor, batch, cur, rejected, wallet, stock, deleted, dbVars>>

\* A reply, at once or after blocking.  A read sent before the signal can
\* still be answered after it.
Deliver ==
  /\ wpc = "reading"
  /\ Available # {}
  /\ batch' = NextBatch
  /\ wpc' = "batch"
  /\ UNCHANGED <<cursor, rpos, cur, rejected, wallet, stock, deleted, dbVars>>

\* Two seconds without a message: redis.Nil, and the loop starts again.
ReadNil ==
  /\ wpc = "reading"
  /\ Available = {}
  /\ wpc' = "loop"
  /\ UNCHANGED <<cursor, rpos, batch, cur, rejected, wallet, stock, deleted, dbVars>>

\* Any other error, a cancelled context among them: sleep and start again.
ReadError ==
  /\ wpc = "reading"
  /\ "redis" \in Faults \/ Signalled
  /\ wpc' = "loop"
  /\ UNCHANGED <<cursor, rpos, batch, cur, rejected, wallet, stock, deleted, dbVars>>

\* ctx.Done at the top of the loop.
Stop ==
  /\ wpc = "loop"
  /\ Signalled
  /\ wpc' = "stopped"
  /\ UNCHANGED <<cursor, rpos, batch, cur, rejected, wallet, stock, deleted, dbVars>>

-----------------------------------------------------------------------------
\* SELECT ... FOR UPDATE of the product and of the member finds a row.
ProductExists(t) == Price[t.product] # Absent
MemberExists(t) == dbBalance[t.user] # Absent

\* Variant: the transaction trusts the checks of the gateway.
WithinLimitsAlways(t) == TRUE

\* BUSINESS_LIMIT_EXCEEDED otherwise, checked under the row locks.
WithinLimits(t) ==
  t.kind = "pickup" => dbBalance[t.user] >= t.amount /\ dbStock[t.product] >= t.qty

Settleable(t) == ProductExists(t) /\ MemberExists(t) /\ WithinLimits(t)

Sign(t) == IF t.kind = "pickup" THEN -1 ELSE 1

\* Variant: the stock is read but not written back.
UpdateProductNot(t) == UNCHANGED dbStock

UpdateProduct(t) ==
  dbStock' = [dbStock EXCEPT ![t.product] = @ + Sign(t) * t.qty]

UpdateMember(t) ==
  dbBalance' = [dbBalance EXCEPT ![t.user] = @ + Sign(t) * t.amount]

CreateTransaction(i) == history' = Append(history, i)

\* The three writes of the transaction, committed together.
Book(i) == UpdateProduct(log[i]) /\ UpdateMember(log[i]) /\ CreateTransaction(i)

Take(i) == cur' = i /\ batch' = batch \ {i}

Commit ==
  /\ wpc = "batch"
  /\ \E i \in batch : IsOldest(i) /\ Settleable(log[i]) /\ Book(i) /\ Take(i)
  /\ wpc' = "ack"
  /\ UNCHANGED <<cursor, rpos, rejected, wallet, stock, deleted>>

\* The transaction returns an error and is rolled back.
Abort ==
  /\ wpc = "batch"
  /\ \E i \in batch :
       /\ IsOldest(i)
       /\ ~Settleable(log[i]) \/ "db" \in Faults
       /\ Take(i)
       /\ rejected' = rejected \cup {i}
  /\ wpc' = "refundWallet"
  /\ UNCHANGED <<cursor, rpos, wallet, stock, deleted, dbVars>>

\* COMMIT takes effect but its reply is lost: the worker sees an error.
CommitLost ==
  /\ "commit" \in Faults
  /\ wpc = "batch"
  /\ \E i \in batch :
       /\ IsOldest(i) /\ Settleable(log[i]) /\ Book(i) /\ Take(i)
       /\ rejected' = rejected \cup {i}
  /\ wpc' = "refundWallet"
  /\ UNCHANGED <<cursor, rpos, wallet, stock, deleted>>

\* Whether, and how often, a Redis command of the worker takes effect.
Reaches == IF app = "up" THEN Outcomes ELSE {FALSE}
ReachTimes == IF app = "up" THEN Times ELSE {0}

\* The compensation of a rejected task: wallet, then stock.  A rejected
\* return takes the goods out of the stock counter.
RefundWallet ==
  /\ wpc = "refundWallet"
  /\ \E k \in ReachTimes :
       wallet' = [wallet EXCEPT ![log[cur].user] =
                    IncrBy(@, -Sign(log[cur]) * Trunc(log[cur].amount), k)]
  /\ wpc' = "refundStock"
  /\ UNCHANGED <<cursor, rpos, batch, cur, rejected, stock, deleted, dbVars>>

RefundStock ==
  /\ wpc = "refundStock"
  /\ \E k \in ReachTimes :
       stock' = [stock EXCEPT ![log[cur].product] = @ - k * Sign(log[cur]) * log[cur].qty]
  /\ wpc' = "ack"
  /\ UNCHANGED <<cursor, rpos, batch, cur, rejected, wallet, deleted, dbVars>>

\* Variant: the whole reply is deleted with its first message.
AckedWithBatch == {cur} \cup batch

\* What XDEL is given.
Acked == {cur}

\* XDEL, whose error is ignored, and the cursor moves on.
Ack ==
  /\ wpc = "ack"
  /\ \E ok \in Reaches : deleted' = IF ok THEN deleted \cup Acked ELSE deleted
  /\ cursor' = cur
  /\ cur' = 0
  /\ wpc' = IF batch = {} THEN "loop" ELSE "batch"
  /\ UNCHANGED <<rpos, batch, rejected, wallet, stock, dbVars>>

Settle ==
  \/ Commit \/ Abort \/ CommitLost \/ RefundWallet \/ RefundStock \/ Ack

WorkerNext ==
  /\ \/ StartRead \/ Deliver \/ ReadNil \/ ReadError \/ Stop
     \/ Settle
  /\ UNCHANGED <<appVars, lock, log>>

WorkerTypeOK ==
  /\ wpc \in {"down", "loop", "reading", "batch", "refundWallet", "refundStock",
              "ack", "stopped"}
  /\ cursor \in DOMAIN log \cup {Latest}
  /\ rpos \in 0..Len(log)
  /\ batch \subseteq DOMAIN log
  /\ cur \in 0..Len(log)
  /\ rejected \subseteq DOMAIN log
  /\ wpc \in {"refundWallet", "refundStock", "ack"} => cur # 0
=============================================================================

------------------------------ MODULE TradeHop ------------------------------
(***************************************************************************)
(* POST /trade in front of the order pipeline.  The handler of a click     *)
(* (TradeEndpoint.ProcessOrder) sends the cart over gRPC to the same       *)
(* process, where ExecuteOrderV2 takes it up as a call, and waits five     *)
(* seconds at most.  The call does not take the context of the request: it *)
(* goes on when nobody waits for it any more.                              *)
(*                                                                         *)
(*   idle -> sent -> pending | error     the server's answer               *)
(*             \---> left                the client gave up                *)
(*                                                                         *)
(* "cut" is a click that ended with the process.                           *)
(***************************************************************************)
EXTENDS TradePipeline

CONSTANTS
  Baskets,    \* the carts that users ask for
  OnWire,     \* uint32(ProductID): what is left of a product id on the wire
  FirstClick  \* of the clicks for one purchase, the one that came first

VARIABLES
  hop,   \* where the click is
  asked  \* the user and the cart of the click; Absent before it

hopVars == <<hop, asked>>
allVars == <<vars, hopVars>>

\* A cart as it arrives.
Wire(cart) == [k \in DOMAIN cart |-> [cart[k] EXCEPT !.product = OnWire[cart[k].product]]]

ASSUME WireAssumption ==
  /\ OnWire \in [Products -> Products]
  /\ Baskets \subseteq Carts
  /\ \A cart \in Baskets : Wire(cart) \in Carts
ASSUME ClickAssumption ==
  /\ FirstClick \in [Requests -> Requests]
  /\ \A r \in Requests : FirstClick[FirstClick[r]] = FirstClick[r]

HopInit ==
  /\ Init
  /\ hop = [r \in Requests |-> "idle"]
  /\ asked = [r \in Requests |-> Absent]

Move(r, l) == hop' = [hop EXCEPT ![r] = l]

\* Nobody has told the one who clicked how the server decided.
Unanswered(r) == hop[r] \in {"sent", "left"}

-----------------------------------------------------------------------------
\* The user clicks, or clicks once more for a purchase that has no answer yet.
\* Quantities are checked before anything is sent; an empty cart is not.
Click(r) ==
  /\ app # "down"
  /\ hop[r] = "idle"
  /\ \E o \in [user : Users, cart : Baskets] :
       /\ FirstClick[r] # r => Unanswered(FirstClick[r]) /\ o = asked[FirstClick[r]]
       /\ asked' = [asked EXCEPT ![r] = o]
       /\ Move(r, IF \E k \in DOMAIN o.cart : o.cart[k].qty <= 0 THEN "error" ELSE "sent")
  /\ UNCHANGED vars

\* No connection: the target is wrong, or the server has stopped listening.
SendFails(r) ==
  /\ hop[r] = "sent"
  /\ pc[r] = "idle"
  /\ Move(r, "error")
  /\ UNCHANGED <<asked, vars>>

\* The request arrives, perhaps when the client has just given up.
Arrive(r) ==
  /\ Unanswered(r)
  /\ Begin(r)
  /\ order'[r] = [asked[r] EXCEPT !.cart = Wire(@)]
  /\ UNCHANGED <<appVars, deleted, dbVars, workerVars, hopVars>>

\* Five seconds are over, or the connection broke: an error answer.
GiveUp(r) ==
  /\ hop[r] = "sent"
  /\ Move(r, "left")
  /\ UNCHANGED <<asked, vars>>

\* Variant: the answer goes out when the call has only left the gate.
ReturnedEarly(r) == reply[r] # "none" \/ pc[r] \in {"push", "repush"}

\* ExecuteOrderV2 has returned, its deferred release included.
Returned(r) == pc[r] = "done"

\* Its answer reaches the client.
Reply(r) ==
  /\ hop[r] = "sent"
  /\ Returned(r)
  /\ Move(r, IF reply[r] = "error" THEN "error" ELSE "pending")
  /\ UNCHANGED <<asked, vars>>

\* With the process goes every connection, and what was on its way.
Disconnect == hop' = [r \in Requests |-> IF Unanswered(r) THEN "cut" ELSE hop[r]]

\* Variant: Shutdown waits for the clicks that gave up, too.
NobodyUnanswered == \A r \in Requests : ~Unanswered(r)

\* Shutdown of the HTTP server: its handlers have answered.  (Its limit of five
\* seconds is not shorter than what the client of a click waits.)
NobodyWaits == \A r \in Requests : hop[r] # "sent"

Shutdown == Exit /\ NobodyWaits /\ Disconnect /\ UNCHANGED asked

HopProcess ==
  \/ (Signal \/ GracefulStop \/ Restart) /\ UNCHANGED hopVars
  \/ Crash /\ Disconnect /\ UNCHANGED asked
  \/ Shutdown

Behind ==
  \/ \E r \in Requests : CallStep(r)
  \/ \E u \in Users : ExpireStep(u)
  \/ WorkerStep

HopNext ==
  \/ \E r \in Requests : Click(r) \/ SendFails(r) \/ Arrive(r) \/ GiveUp(r) \/ Reply(r)
  \/ Behind /\ UNCHANGED hopVars
  \/ HopProcess

HopSpec == HopInit /\ [][HopNext]_allVars

(***************************************************************************)
(* Fairness.  Beside that of the pipeline: a handler gets an answer or its *)
(* deadline passes, and the main goroutine goes through its shutdown.      *)
(***************************************************************************)
AnswerStep(r) == SendFails(r) \/ GiveUp(r) \/ Reply(r)
ShutdownStep == (GracefulStop /\ UNCHANGED hopVars) \/ Shutdown

HopFairness ==
  /\ Fairness
  /\ \A r \in Requests : WF_allVars(AnswerStep(r))
  /\ WF_allVars(ShutdownStep)

FairHopSpec == HopSpec /\ HopFairness

-----------------------------------------------------------------------------
\* Every variable holds a value of its kind, and a call at work is that of a
\* click that was sent.
HopTypeOK ==
  /\ TypeOK
  /\ hop \in [Requests -> {"idle", "sent", "left", "pending", "error", "cut"}]
  /\ asked \in [Requests -> Order \cup {Absent}]
  /\ \A r \in Requests : InFlight(r) => Unanswered(r)

\* What the one who clicked knows.
Told(r) ==
  CASE hop[r] = "idle" -> "nothing"
    [] hop[r] = "sent" -> "waiting"
    [] hop[r] \in {"left", "cut"} -> "unsure"
    [] OTHER -> hop[r]

\* The line of an order at a place in its cart, and that of a task.
LineAt(o, k) ==
  [part |-> k, user |-> o.user, product |-> o.cart[k].product, qty |-> o.cart[k].qty,
   kind |-> o.cart[k].kind]
LineOf(t) ==
  [part |-> t.part, user |-> t.user, product |-> t.product, qty |-> t.qty, kind |-> t.kind]

\* The lines that a click asks for, as they arrive.
Lines(o) == {[LineAt(o, k) EXCEPT !.product = OnWire[@]] : k \in DOMAIN o.cart}
Wanted(r) == IF asked[r] = Absent THEN {} ELSE Lines(asked[r])

\* Those of them in the stream; a line that a resend put there twice counts once.
Queued(r) == {LineOf(log[i]) : i \in {j \in DOMAIN log : log[j].by = r}}

AnyLine == [part : Nat \ {0}, user : Users, product : Products, qty : Int,
            kind : {"pickup", "return", "exchange"}]

Promise == INSTANCE Checkout WITH
  Clicks <- Requests,
  NumberedLine <- AnyLine,
  wanted <- [r \in Requests |-> Wanted(r)],
  queued <- [r \in Requests |-> Queued(r)],
  told <- [r \in Requests |-> Told(r)]

\* POST /trade keeps the promise of Checkout: refinement.
ImplementsCheckout == Promise!Spec

\* A process that is told to stop comes down: the graceful stop waits for calls
\* that all end, and the servers for clicks that all get an answer.
ShutdownEnds == Signalled ~> app = "down"

\* What the documents say of clicks in succession: of the clicks for one purchase
\* at most one is booked.
ChargedOnce ==
  \A i, j \in Committed :
    FirstClick[log[i].by] = FirstClick[log[j].by] => log[i].by = log[j].by
=============================================================================

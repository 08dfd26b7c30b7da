------------------------------ MODULE Checkout ------------------------------
(***************************************************************************)
(* What POST /trade promises to whoever clicks: an answer "pending" means  *)
(* that every line of the cart is queued as it was asked for, an error     *)
(* answer of the server that none is or will be.  Only a click that was    *)
(* left without the server's answer may go either way, and its lines may   *)
(* still be queued later on.                                               *)
(***************************************************************************)
EXTENDS Integers

CONSTANTS Clicks, NumberedLine

VARIABLES
  wanted,  \* the lines that each click asks for, with their place in the cart
  queued,  \* those of them that are in the stream
  told     \* what the one who clicked knows

vars == <<wanted, queued, told>>

Init ==
  /\ wanted = [c \in Clicks |-> {}]
  /\ queued = [c \in Clicks |-> {}]
  /\ told = [c \in Clicks |-> "nothing"]

\* A click; a cart may be refused at once.
Ask(c) ==
  /\ told[c] = "nothing"
  /\ wanted'[c] \subseteq NumberedLine
  /\ wanted' = [wanted EXCEPT ![c] = wanted'[c]]
  /\ \E t \in {"waiting", "error"} : told' = [told EXCEPT ![c] = t]
  /\ UNCHANGED queued

\* The next line of the cart, in the order of the cart.
Queue(c) ==
  /\ told[c] \in {"waiting", "unsure"}
  /\ \E l \in wanted[c] \ queued[c] :
       /\ \A m \in wanted[c] \ queued[c] : l.part <= m.part
       /\ queued' = [queued EXCEPT ![c] = @ \cup {l}]
  /\ UNCHANGED <<wanted, told>>

Accept(c) ==
  /\ told[c] = "waiting"
  /\ queued[c] = wanted[c]
  /\ told' = [told EXCEPT ![c] = "pending"]
  /\ UNCHANGED <<wanted, queued>>

Refuse(c) ==
  /\ told[c] = "waiting"
  /\ queued[c] = {}
  /\ told' = [told EXCEPT ![c] = "error"]
  /\ UNCHANGED <<wanted, queued>>

\* The time is up, or the connections of some clicks are gone.
Leave ==
  /\ \E S \in SUBSET {c \in Clicks : told[c] = "waiting"} :
       told' = [c \in Clicks |-> IF c \in S THEN "unsure" ELSE told[c]]
  /\ UNCHANGED <<wanted, queued>>

Next == Leave \/ \E c \in Clicks : Ask(c) \/ Queue(c) \/ Accept(c) \/ Refuse(c)

Spec == Init /\ [][Next]_vars
=============================================================================

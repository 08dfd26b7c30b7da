------------------------------- MODULE MCTrade ------------------------------
(***************************************************************************)
(* Instances of the order pipeline for TLC.                                *)
(***************************************************************************)
EXTENDS TradeAccounts, TLC

CONSTANTS u1, u2, p1, p2, p3, r1, r2, r3

L(p, n, k) == [product |-> p, qty |-> n, kind |-> k]
Pick(p, n) == L(p, n, "pickup")
Back(p, n) == L(p, n, "return")

\* Carts of pickups, one of them of two products.
PickupCarts == {<<Pick(p1, 1)>>, <<Pick(p1, 1), Pick(p2, 1)>>}

\* Pickups, a return, and a return that pays for a pickup in the same cart.
CleanCarts == {<<Pick(p1, 2)>>, <<Back(p1, 1)>>, <<Back(p1, 1), Pick(p2, 1)>>}

\* Everything that a call can be refused for, beside a cart that is in order:
\* no line, no quantity, an unknown type, and p3, which no table lists.
BadCarts == {<<>>, <<Pick(p1, 0)>>, <<Pick(p1, 1), L(p1, 1, "exchange")>>,
             <<Pick(p3, 1)>>}

\* A pickup among those.
MostlyBadCarts == {<<Pick(p1, 1)>>} \cup BadCarts

\* One product in two lines of a cart.
TwiceCarts == {<<Pick(p1, 1), Pick(p1, 1)>>}

SingleCarts == {<<Pick(p1, 1)>>}
ReturnCarts == {<<Pick(p1, 1)>>, <<Back(p1, 1)>>}

\* With two minor units in a whole one: whole prices, and a price of 1.5.
WholePrices == [p \in Products |-> IF p = p1 THEN 2 ELSE IF p = p2 THEN 4 ELSE Absent]
OddPrices == [p \in Products |-> IF p = p3 THEN Absent ELSE 3]

FourAndTwo == [u \in Users |-> IF u = u1 THEN 4 ELSE 2]
FourAndEight == [u \in Users |-> IF u = u1 THEN 4 ELSE 8]
EightEach == [u \in Users |-> 8]
\* u2's counter was loaded from a balance that has decimals.
OddWallet == [u \in Users |-> IF u = u1 THEN 8 ELSE 3]
\* u1's balance is below its counter, as Shop shows it may be; u2 has a wallet but
\* no row yet: the member worker is still to create it.
NoRowYet == [u \in Users |-> IF u = u1 THEN 4 ELSE Absent]

OneEach == [p \in Products |-> IF p = p3 THEN 0 ELSE 1]
TwoEach == [p \in Products |-> IF p = p3 THEN 0 ELSE 2]

RequestSymmetry == Permutations(Requests)
=============================================================================

-------------------------------- MODULE MCHop -------------------------------
(***************************************************************************)
(* Instances of POST /trade for TLC.                                       *)
(***************************************************************************)
EXTENDS TradeHop, TLC

CONSTANTS u1, p1, p2, p3, r1, r2

Pick(p, n) == [product |-> p, qty |-> n, kind |-> "pickup"]

\* A cart with a product id too long for the wire (p3 arrives as p1), and one with
\* an empty quantity.
ClickBaskets == {<<Pick(p3, 1), Pick(p2, 1)>>, <<Pick(p1, 0)>>}
ClickCarts == ClickBaskets \cup {<<Pick(p1, 1), Pick(p2, 1)>>}
SingleCarts == {<<Pick(p1, 1)>>}

CutIds == [p \in Products |-> IF p = p3 THEN p1 ELSE p]

\* A double click: r2 is for the purchase of r1.
DoubleClick == [r \in Requests |-> r1]

TwoAndFour == [p \in Products |-> IF p = p1 THEN 2 ELSE IF p = p2 THEN 4 ELSE Absent]
EightEach == [u \in Users |-> 8]
\* Enough for one cart, and for two.
OneEach == [p \in Products |-> IF p = p3 THEN 0 ELSE 1]
TwoEach == [p \in Products |-> IF p = p3 THEN 0 ELSE 2]
=============================================================================

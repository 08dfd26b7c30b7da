-------------------------------- MODULE MCShop ------------------------------
(***************************************************************************)
(* Instances of the whole process for TLC.                                 *)
(***************************************************************************)
EXTENDS Shop, TLC

CONSTANTS u1, u2, p1, r1, v1, v2

OneItem == {<<[product |-> p1, qty |-> 1, kind |-> "pickup"]>>}
PriceOfTwo == [p \in Products |-> 2]

\* Every member is new.
NoRows == [u \in Users |-> Absent]
OneInStock == [p \in Products |-> 1]

\* Two users of a tenant who have the same name.
Namesakes == [u \in Users |-> "name"]

\* u1's client calls GET /member-mq only, the other one GET /member only.
MqAndPlain == [u \in Users |-> IF u = u1 THEN {"hit"} ELSE {"plainLook"}]
MqOnly == [u \in Users |-> {"hit"}]

VisitSymmetry == Permutations(Visits)
=============================================================================

------------------------------- MODULE Ledger -------------------------------
(***************************************************************************)
(* What the order system promises of its books, whatever happens to the    *)
(* gateway, the counters, the stream and the process: tasks are recorded   *)
(* and each is settled at most once, in the order they were recorded, by   *)
(* moving its money and its goods together and never below zero.           *)
(***************************************************************************)
EXTENDS Integers, Sequences

CONSTANTS Users, Products, Absent, Task, OpeningBalance, OpeningStock

VARIABLES
  tasks,    \* every task recorded
  settled,  \* the settled ones, by their place in tasks, in settling order
  balance,  \* money of each member; Absent: no account
  stock     \* goods of each product

vars == <<tasks, settled, balance, stock>>

Init ==
  /\ tasks = <<>>
  /\ settled = <<>>
  /\ balance = OpeningBalance
  /\ stock = OpeningStock

Record ==
  /\ Len(tasks') = Len(tasks) + 1
  /\ tasks'[Len(tasks')] \in Task
  /\ tasks' = Append(tasks, tasks'[Len(tasks')])
  /\ UNCHANGED <<settled, balance, stock>>

\* Later than everything settled so far.
InTurn(i) == \A k \in DOMAIN settled : settled[k] < i

Settle(i) ==
  LET t == tasks[i]
      sign == IF t.kind = "pickup" THEN -1 ELSE 1
  IN /\ InTurn(i)
     /\ balance[t.user] # Absent
     /\ balance' = [balance EXCEPT ![t.user] = @ + sign * t.amount]
     /\ stock' = [stock EXCEPT ![t.product] = @ + sign * t.qty]
     /\ balance'[t.user] >= 0 /\ stock'[t.product] >= 0
     /\ settled' = Append(settled, i)
     /\ UNCHANGED tasks

Next == Record \/ \E i \in DOMAIN tasks : Settle(i)

Spec == Init /\ [][Next]_vars
=============================================================================

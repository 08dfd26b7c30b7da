---------------------------- MODULE MemberGateway ---------------------------
(***************************************************************************)
(* The member service: concurrent visits of GET /member (GetMember) and    *)
(* GET /member-mq (GetMemberMQ, pkg/services/member.go).  Each may be the  *)
(* first of a user who has no row yet.                                     *)
(*                                                                         *)
(*   GET /member:     look -> insert -> again -> done                      *)
(*   GET /member-mq:  hit -> look -> snap -> fund -> push -> done          *)
(*                                             \-> unsnap -> unfund -/     *)
(*                                                                         *)
(* The wallet counter and the member row are those of the trade modules.   *)
(***************************************************************************)
EXTENDS TradeStore

CONSTANTS
  Visits,     \* visits (one model value per call of either endpoint)
  Username,   \* a user's tenant and name; a table holds a name once
  Asks,       \* which endpoints the client of a user calls, by their first state
  NewBalance  \* the money that GET /member-mq gives a new member

ASSUME AsksAssumption == Asks \in [Users -> SUBSET {"plainLook", "hit"}]
ASSUME NewBalanceAssumption == NewBalance \in Nat /\ NewBalance % Unit = 0

VARIABLES
  snapshot,  \* member:cache:<schema>:<user>: the balance in it, or Absent
  mlog,      \* every task ever added to stream:member_init_tasks
  vpc,       \* where a visit is
  visitor,   \* its user
  found      \* what it read or made up: the balance, and whether the row exists

visitVars == <<vpc, visitor, found>>

MemberTask == [user : Users, by : Visits]

MemberInit ==
  /\ snapshot = [u \in Users |-> Absent]
  /\ mlog = <<>>
  /\ vpc = [v \in Visits |-> "idle"]
  /\ visitor = [v \in Visits |-> Absent]
  /\ found = [v \in Visits |-> [balance |-> 0, row |-> FALSE]]

Visiting(v) == vpc[v] \notin {"idle", "done", "dead"}
GoTo(v, l) == vpc' = [vpc EXCEPT ![v] = l]

HasRow(u) == dbBalance[u] # Absent

\* Another row of the tenant has the name already: the unique index on username.
NameTaken(u) == \E w \in Users \ {u} : HasRow(w) /\ Username[w] = Username[u]

\* Variant: ON CONFLICT DO UPDATE.
InsertOver(u, b) == dbBalance' = [dbBalance EXCEPT ![u] = b]

\* INSERT ... ON CONFLICT (id) DO NOTHING reports an error only for the other
\* unique index.
Insertable(u) == HasRow(u) \/ ~NameTaken(u)

\* What it leaves in the table.
Insert(u, b) ==
  dbBalance' = [dbBalance EXCEPT ![u] = IF HasRow(u) \/ ~Insertable(u) THEN @ ELSE b]

\* An assignment to a Redis key whose error is ignored.
Assign(old, new) == {IF ok THEN new ELSE old : ok \in Outcomes}

-----------------------------------------------------------------------------
\* A visit arrives.  Open connections are served until the process is gone.
Arrive(v) ==
  /\ app # "down"
  /\ vpc[v] = "idle"
  /\ \E u \in Users :
       /\ visitor' = [visitor EXCEPT ![v] = u]
       /\ \E l \in Asks[u] : GoTo(v, l)
  /\ UNCHANGED <<found, snapshot, wallet, mlog, dbBalance>>

\* A query of the visit reports an error and ends it.
QueryFails(v) ==
  /\ "db" \in Faults
  /\ vpc[v] \in {"plainLook", "insert", "again", "look"}
  /\ GoTo(v, "done")
  /\ UNCHANGED <<visitor, found, snapshot, wallet, mlog, dbBalance>>

-----------------------------------------------------------------------------
\* GET /member: the row, if there is one.
PlainLook(v) ==
  /\ vpc[v] = "plainLook"
  /\ GoTo(v, IF HasRow(visitor[v]) THEN "done" ELSE "insert")
  /\ UNCHANGED <<visitor, found, snapshot, wallet, mlog, dbBalance>>

\* A new member starts with nothing here.
PlainInsert(v) ==
  /\ vpc[v] = "insert"
  /\ IF Insertable(visitor[v])
       THEN Insert(visitor[v], 0) /\ GoTo(v, "again")
       ELSE GoTo(v, "done") /\ UNCHANGED dbBalance
  /\ UNCHANGED <<visitor, found, snapshot, wallet, mlog>>

\* The row is read once more: another insert may have been first.
PlainAgain(v) ==
  /\ vpc[v] = "again"
  /\ GoTo(v, "done")
  /\ UNCHANGED <<visitor, found, snapshot, wallet, mlog, dbBalance>>

-----------------------------------------------------------------------------
\* GET /member-mq: the snapshot answers, unless there is none or GET fails.
Hit(v) ==
  /\ vpc[v] = "hit"
  /\ \/ snapshot[visitor[v]] # Absent /\ GoTo(v, "done")
     \/ /\ snapshot[visitor[v]] = Absent \/ "redis" \in Faults
        /\ GoTo(v, "look")
  /\ UNCHANGED <<visitor, found, snapshot, wallet, mlog, dbBalance>>

Look(v) ==
  /\ vpc[v] = "look"
  /\ LET u == visitor[v]
     IN found' = [found EXCEPT ![v] =
          [balance |-> IF HasRow(u) THEN dbBalance[u] ELSE NewBalance, row |-> HasRow(u)]]
  /\ GoTo(v, "snap")
  /\ UNCHANGED <<visitor, snapshot, wallet, mlog, dbBalance>>

\* SetMemberCache.
Snap(v) ==
  /\ vpc[v] = "snap"
  /\ \E b \in Assign(snapshot[visitor[v]], found[v].balance) :
       snapshot' = [snapshot EXCEPT ![visitor[v]] = b]
  /\ GoTo(v, "fund")
  /\ UNCHANGED <<visitor, found, wallet, mlog, dbBalance>>

\* SET of the wallet counter, whatever it holds by now.
Fund(v) ==
  /\ vpc[v] = "fund"
  /\ \E b \in Assign(wallet[visitor[v]], found[v].balance) :
       wallet' = [wallet EXCEPT ![visitor[v]] = b]
  /\ GoTo(v, IF found[v].row THEN "done" ELSE "push")
  /\ UNCHANGED <<visitor, found, snapshot, mlog, dbBalance>>

PushTask(v) == mlog' = Append(mlog, [user |-> visitor[v], by |-> v])

Push(v) ==
  /\ vpc[v] = "push"
  /\ PushTask(v)
  /\ GoTo(v, "done")
  /\ UNCHANGED <<visitor, found, snapshot, wallet, dbBalance>>

\* Whether a command that reports an error took effect.
Effects == IF "redis" \in Faults THEN BOOLEAN ELSE {FALSE}

\* XADD reports an error.
PushTaskFails(v) ==
  /\ "push" \in Faults
  /\ vpc[v] = "push"
  /\ \E took \in Effects : IF took THEN PushTask(v) ELSE UNCHANGED mlog
  /\ GoTo(v, "unsnap")
  /\ UNCHANGED <<visitor, found, snapshot, wallet, dbBalance>>

Unsnap(v) ==
  /\ vpc[v] = "unsnap"
  /\ \E b \in Assign(snapshot[visitor[v]], Absent) :
       snapshot' = [snapshot EXCEPT ![visitor[v]] = b]
  /\ GoTo(v, "unfund")
  /\ UNCHANGED <<visitor, found, wallet, mlog, dbBalance>>

\* Variant: the wallet of a visit that failed is left.
KeepWallet(u) == UNCHANGED wallet

DeleteWallet(u) ==
  \E b \in Assign(wallet[u], Absent) : wallet' = [wallet EXCEPT ![u] = b]

Unfund(v) ==
  /\ vpc[v] = "unfund"
  /\ DeleteWallet(visitor[v])
  /\ GoTo(v, "done")
  /\ UNCHANGED <<visitor, found, snapshot, mlog, dbBalance>>

\* The snapshot's half hour is over.
Forget(u) ==
  /\ "snapshot" \in Faults
  /\ snapshot[u] # Absent
  /\ snapshot' = [snapshot EXCEPT ![u] = Absent]
  /\ UNCHANGED <<visitVars, wallet, mlog, dbBalance>>

Visit(v) ==
  \/ Arrive(v) \/ QueryFails(v)
  \/ PlainLook(v) \/ PlainInsert(v) \/ PlainAgain(v)
  \/ Hit(v) \/ Look(v) \/ Snap(v) \/ Fund(v) \/ Push(v)
  \/ PushTaskFails(v) \/ Unsnap(v) \/ Unfund(v)

MemberGatewayTypeOK ==
  /\ snapshot \in [Users -> Int \cup {Absent}]
  /\ mlog \in Seq(MemberTask)
  /\ vpc \in [Visits -> {"idle", "plainLook", "insert", "again", "hit", "look", "snap",
                         "fund", "push", "unsnap", "unfund", "done", "dead"}]
  /\ visitor \in [Visits -> Users \cup {Absent}]
  /\ found \in [Visits -> [balance : Int, row : BOOLEAN]]
  /\ \A v \in Visits : vpc[v] # "idle" => visitor[v] \in Users
=============================================================================

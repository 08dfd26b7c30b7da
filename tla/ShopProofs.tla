------------------------------ MODULE ShopProofs ----------------------------
(***************************************************************************)
(* Proofs about the whole process, for every set of users, products, calls *)
(* and visits: the order pipeline with new members coming in beside it.    *)
(***************************************************************************)
EXTENDS Shop, AccountProofs

\* The worker's side of a member: a row that a task has brought stays.
Brought ==
  /\ \A i \in mdeleted : HasRow(mlog[i].user)
  /\ mwpc \in {"fund", "snap", "ack"} => HasRow(mlog[mcur].user)

\* Tasks with an outcome.
Received == {i \in DOMAIN mlog : HasRow(mlog[i].user)} \cup refused

\* What the position of the last XREAD and the message in hand have between them.
MemberSwept ==
  /\ mwpc = "batch" =>
       \A j \in mbatch : \A i \in DOMAIN mlog : mrpos < i /\ i <= j => i \in mbatch \cup Received
  /\ mwpc \in {"fund", "snap", "ack"} =>
       /\ \A i \in DOMAIN mlog : mrpos < i /\ i <= mcur => i \in Received
       /\ \A j \in mbatch : \A i \in DOMAIN mlog : mrpos < i /\ i <= j => i \in mbatch \cup Received

\* A call has an order from its beginning on.
OrderedOnce == \A r \in Requests : pc[r] = "idle" => order[r] = Absent

\* A visit has found a row only after it began, and only where there is one.
FoundIsThere == \A v \in Visits : found[v].row => vpc[v] # "idle" /\ HasRow(visitor[v])

-----------------------------------------------------------------------------
\* Where a visit may be.
VisitPlaces == {"idle", "plainLook", "insert", "again", "hit", "look", "snap", "fund", "push",
                "unsnap", "unfund", "done", "dead"}

\* An assignment leaves the old value or the new one.
LEMMA AssignIsOne ==
  ASSUME NEW old, NEW new, NEW b \in Assign(old, new)
  PROVE  b = old \/ b = new
  BY DEF Assign

\* What an insert leaves alone, and what it brings.
LEMMA InsertAdds ==
  ASSUME dbBalance \in [Users -> Int \cup {Absent}], NEW u \in Users, NEW b \in Nat, Insert(u, b)
  PROVE  /\ dbBalance' \in [Users -> Int \cup {Absent}]
         /\ \A w \in Users : HasRow(w) => dbBalance'[w] = dbBalance[w]
         /\ \A w \in Users : dbBalance'[w] = dbBalance[w] \/ dbBalance'[w] \in Nat
         /\ Insertable(u) => HasRow(u)'
  <1>1. dbBalance' = [dbBalance EXCEPT ![u] = dbBalance[u]]
        \/ (~HasRow(u) /\ dbBalance' = [dbBalance EXCEPT ![u] = b])
    BY DEF Insert
  <1>2. ~HasRow(u) /\ Insertable(u) => dbBalance' = [dbBalance EXCEPT ![u] = b]
    BY DEF Insert
  <1>3. b \in Int /\ b # Absent
    BY MarkerAssumption
  <1>4. QED
    BY <1>1, <1>2, <1>3 DEF HasRow

\* The balances as a step of the members' side leaves them.
RowsStay ==
  /\ dbBalance' \in [Users -> Int \cup {Absent}]
  /\ \A w \in Users : HasRow(w) => dbBalance'[w] = dbBalance[w]
  /\ \A w \in Users : dbBalance'[w] = dbBalance[w] \/ dbBalance'[w] \in Nat

\* A visit keeps the kinds of all values, and the rows that exist.
LEMMA VisitTyping ==
  ASSUME TypeOK, MemberGatewayTypeOK, NEW v \in Visits, Visit(v)
  PROVE  /\ MemberGatewayTypeOK' /\ RowsStay
         /\ wallet' \in [Users -> Int \cup {Absent}]
         /\ mlog' = mlog \/ PushTask(v)
         /\ Len(mlog) <= Len(mlog') /\ DOMAIN mlog \subseteq DOMAIN mlog'
         /\ \A i \in DOMAIN mlog : mlog'[i] = mlog[i]
  <1>t. /\ wallet \in [Users -> Int \cup {Absent}] /\ dbBalance \in [Users -> Int \cup {Absent}]
        /\ snapshot \in [Users -> Int \cup {Absent}] /\ mlog \in Seq(MemberTask)
        /\ vpc \in [Visits -> VisitPlaces] /\ visitor \in [Visits -> Users \cup {Absent}]
        /\ found \in [Visits -> [balance : Int, row : BOOLEAN]]
        /\ \A w \in Visits : vpc[w] # "idle" => visitor[w] \in Users
    BY DEF TypeOK, StoreTypeOK, MemberGatewayTypeOK, VisitPlaces
  <1>n. NewBalance \in Nat /\ NewBalance # Absent
    BY NewBalanceAssumption, MarkerAssumption
  <1>r. UNCHANGED dbBalance => RowsStay
    BY <1>t DEF RowsStay
  <1> DEFINE Goal == /\ MemberGatewayTypeOK' /\ RowsStay
                     /\ wallet' \in [Users -> Int \cup {Absent}]
  <1>m. ASSUME NEW l \in VisitPlaces \ {"idle"}, vpc[v] # "idle", GoTo(v, l),
               UNCHANGED <<visitor, found>>, mlog' \in Seq(MemberTask),
               snapshot' \in [Users -> Int \cup {Absent}],
               wallet' \in [Users -> Int \cup {Absent}], RowsStay
        PROVE  Goal
    BY <1>t, <1>m DEF MemberGatewayTypeOK, VisitPlaces, GoTo
  <1>1. ASSUME Arrive(v) PROVE Goal
    <2>1. PICK u \in Users : visitor' = [visitor EXCEPT ![v] = u] /\ \E l \in Asks[u] : GoTo(v, l)
      BY <1>1 DEF Arrive
    <2>2. Asks[u] \subseteq {"plainLook", "hit"}
      BY AsksAssumption
    <2>3. UNCHANGED <<found, snapshot, wallet, mlog, dbBalance>>
      BY <1>1 DEF Arrive
    <2>4. QED
      BY <1>r, <1>t, <2>1, <2>2, <2>3 DEF MemberGatewayTypeOK, VisitPlaces, GoTo
  <1>2. ASSUME QueryFails(v) \/ PlainLook(v) \/ PlainAgain(v) \/ Hit(v) PROVE Goal
    <2>1. /\ vpc[v] # "idle" /\ \E l \in VisitPlaces \ {"idle"} : GoTo(v, l)
          /\ UNCHANGED <<visitor, found, snapshot, wallet, mlog, dbBalance>>
      BY <1>2 DEF QueryFails, PlainLook, PlainAgain, Hit, VisitPlaces
    <2>2. QED
      BY <1>m, <1>r, <1>t, <2>1
  <1>3. ASSUME PlainInsert(v) PROVE Goal
    <2>1. /\ vpc[v] # "idle" /\ \E l \in VisitPlaces \ {"idle"} : GoTo(v, l)
          /\ UNCHANGED <<visitor, found, snapshot, wallet, mlog>>
          /\ Insert(visitor[v], 0) \/ UNCHANGED dbBalance
      BY <1>3 DEF PlainInsert, VisitPlaces
    <2>2. RowsStay
      BY <1>r, <1>t, <2>1, InsertAdds DEF RowsStay
    <2>3. QED
      BY <1>m, <1>t, <2>1, <2>2
  <1>4. ASSUME Look(v) PROVE Goal
    <2>1. /\ vpc[v] # "idle" /\ GoTo(v, "snap")
          /\ UNCHANGED <<visitor, snapshot, wallet, mlog, dbBalance>>
          /\ \E b \in Int, w \in BOOLEAN : found' = [found EXCEPT ![v] = [balance |-> b, row |-> w]]
      <3>1. HasRow(visitor[v]) => dbBalance[visitor[v]] \in Int
        BY <1>4, <1>t DEF Look, HasRow
      <3>2. PICK b \in Int : b = IF HasRow(visitor[v]) THEN dbBalance[visitor[v]] ELSE NewBalance
        BY <1>n, <3>1
      <3>3. HasRow(visitor[v]) \in BOOLEAN
        BY DEF HasRow
      <3>4. found' = [found EXCEPT ![v] = [balance |-> b, row |-> HasRow(visitor[v])]]
        BY <1>4, <3>2 DEF Look
      <3>5. QED
        BY <1>4, <3>3, <3>4 DEF Look
    <2>2. found' \in [Visits -> [balance : Int, row : BOOLEAN]]
      BY <1>t, <2>1
    <2>3. QED
      BY <1>r, <1>t, <2>1, <2>2 DEF MemberGatewayTypeOK, VisitPlaces, GoTo
  <1>5. ASSUME Snap(v) \/ Unsnap(v) PROVE Goal
    <2>1. /\ vpc[v] # "idle" /\ (GoTo(v, "fund") \/ GoTo(v, "unfund"))
          /\ UNCHANGED <<visitor, found, wallet, mlog, dbBalance>>
          /\ \E b \in Int \cup {Absent} : snapshot' = [snapshot EXCEPT ![visitor[v]] = b]
      BY <1>5, <1>t, AssignIsOne DEF Snap, Unsnap
    <2>2. snapshot' \in [Users -> Int \cup {Absent}]
      BY <1>t, <2>1
    <2>3. QED
      BY <1>m, <1>r, <1>t, <2>1, <2>2 DEF VisitPlaces
  <1>6. ASSUME Fund(v) \/ Unfund(v) PROVE Goal
    <2>1. /\ vpc[v] # "idle" /\ (GoTo(v, "done") \/ GoTo(v, "push"))
          /\ UNCHANGED <<visitor, found, snapshot, mlog, dbBalance>>
          /\ \E b \in Int \cup {Absent} : wallet' = [wallet EXCEPT ![visitor[v]] = b]
      BY <1>6, <1>t, AssignIsOne DEF Fund, Unfund, DeleteWallet
    <2>2. wallet' \in [Users -> Int \cup {Absent}]
      BY <1>t, <2>1
    <2>3. QED
      BY <1>m, <1>r, <1>t, <2>1, <2>2 DEF VisitPlaces
  <1>7. ASSUME Push(v) \/ PushTaskFails(v) PROVE Goal
    <2>1. /\ vpc[v] # "idle" /\ (GoTo(v, "done") \/ GoTo(v, "unsnap"))
          /\ UNCHANGED <<visitor, found, snapshot, wallet, dbBalance>>
          /\ PushTask(v) \/ UNCHANGED mlog
      BY <1>7 DEF Push, PushTaskFails
    <2>2. [user |-> visitor[v], by |-> v] \in MemberTask
      BY <1>t, <2>1 DEF MemberTask
    <2>3. mlog' \in Seq(MemberTask)
      <3>1. \A s \in Seq(MemberTask) : \A t \in MemberTask : Append(s, t) \in Seq(MemberTask)
        OBVIOUS
      <3>2. QED
        BY <1>t, <2>1, <2>2, <3>1 DEF PushTask
    <2>4. /\ snapshot' \in [Users -> Int \cup {Absent}]
          /\ wallet' \in [Users -> Int \cup {Absent}] /\ RowsStay
      BY <1>r, <1>t, <2>1
    <2>5. \A l \in {"done", "unsnap"} : GoTo(v, l) => Goal
      <3>1. {"done", "unsnap"} \subseteq VisitPlaces \ {"idle"}
        BY DEF VisitPlaces
      <3>2. UNCHANGED <<visitor, found>>
        BY <2>1
      <3> HIDE DEF Goal
      <3>3. QED
        BY <1>m, <2>1, <2>3, <2>4, <3>1, <3>2
    <2> HIDE DEF Goal
    <2>6. QED
      BY <2>1, <2>5
  <1>8. Goal
    BY <1>1, <1>2, <1>3, <1>4, <1>5, <1>6, <1>7 DEF Visit
  <1>9. mlog' = mlog \/ PushTask(v)
    BY DEF Visit, Arrive, QueryFails, PlainLook, PlainInsert, PlainAgain, Hit, Look, Snap, Fund,
       Push, PushTaskFails, Unsnap, Unfund
  <1>10. /\ Len(mlog) <= Len(mlog') /\ DOMAIN mlog \subseteq DOMAIN mlog'
         /\ \A i \in DOMAIN mlog : mlog'[i] = mlog[i]
    <2>1. CASE mlog' = mlog
      BY <1>t, <2>1
    <2>2. CASE PushTask(v)
      BY <1>t, <2>2 DEF PushTask
    <2>3. QED
      BY <1>9, <2>1, <2>2
  <1>11. QED
    BY <1>8, <1>9, <1>10

\* The worker's loop keeps the kinds of all values, and the rows that exist.
LEMMA MemberWorkTyping ==
  ASSUME TypeOK, MemberGatewayTypeOK, MemberWorkerTypeOK, MemberStep
  PROVE  /\ MemberGatewayTypeOK' /\ MemberWorkerTypeOK' /\ RowsStay
         /\ wallet' \in [Users -> Int \cup {Absent}]
  <1>t. /\ wallet \in [Users -> Int \cup {Absent}] /\ dbBalance \in [Users -> Int \cup {Absent}]
        /\ snapshot \in [Users -> Int \cup {Absent}] /\ mlog \in Seq(MemberTask)
    BY DEF TypeOK, StoreTypeOK, MemberGatewayTypeOK
  <1>l. Len(mlog) \in Nat /\ DOMAIN mlog = 1..Len(mlog)
    BY <1>t
  <1>u. \A i \in DOMAIN mlog : mlog[i].user \in Users
    <2>1. \A s \in Seq(MemberTask) : \A i \in DOMAIN s : s[i] \in MemberTask
      OBVIOUS
    <2>2. \A t \in MemberTask : t.user \in Users
      BY DEF MemberTask
    <2>3. QED
      BY <1>t, <2>1, <2>2
  <1>n. NewBalance \in Nat /\ NewBalance \in Int
    BY NewBalanceAssumption
  <1>s. UNCHANGED <<mlog, visitVars>>
    BY DEF MemberStep
  <1>r. UNCHANGED dbBalance => RowsStay
    BY <1>t DEF RowsStay
  <1> DEFINE Goal == /\ MemberWorkerTypeOK' /\ RowsStay
                     /\ snapshot' \in [Users -> Int \cup {Absent}]
                     /\ wallet' \in [Users -> Int \cup {Absent}]
  <1>1. ASSUME ReadMembers PROVE Goal
    <2>1. UNCHANGED <<snapshot, wallet, dbBalance, mdeleted, refused>>
      BY <1>1 DEF ReadMembers, Loop!StartRead, Loop!Deliver, Loop!ReadNil, Loop!ReadError,
         Loop!Stop, Loop!dbVars
    <2>2. CASE Loop!StartRead
      <3>1. mrpos' \in 0..Len(mlog)
        BY <1>l, <2>2 DEF Loop!StartRead, Loop!Resolve, MemberWorkerTypeOK
      <3>2. QED
        BY <1>r, <1>s, <1>t, <2>1, <2>2, <3>1 DEF Loop!StartRead, MemberWorkerTypeOK
    <2>3. CASE Loop!Deliver
      BY <1>r, <1>s, <1>t, <2>1, <2>3
      DEF Loop!Deliver, Loop!NextBatch, Loop!Available, MemberWorkerTypeOK
    <2>4. CASE Loop!ReadNil \/ Loop!ReadError \/ Loop!Stop
      BY <1>r, <1>s, <1>t, <2>1, <2>4 DEF Loop!ReadNil, Loop!ReadError, Loop!Stop,
         MemberWorkerTypeOK
    <2>5. QED
      BY <1>1, <2>2, <2>3, <2>4 DEF ReadMembers
  <1>2. ASSUME CreateMember PROVE Goal
    <2>1. PICK i \in mbatch : /\ Insert(mlog[i].user, NewBalance)
                              /\ mcur' = i /\ mbatch' = mbatch \ {i}
      BY <1>2 DEF CreateMember, Loop!Take
    <2>2. /\ mwpc' = "fund"
          /\ UNCHANGED <<mcursor, mrpos, refused, mdeleted, wallet, snapshot>>
      BY <1>2 DEF CreateMember
    <2>3. i \in DOMAIN mlog /\ mlog[i].user \in Users /\ i \in 0..Len(mlog) /\ i # 0
      BY <1>l, <1>u DEF MemberWorkerTypeOK
    <2>4. RowsStay
      BY <1>n, <1>t, <2>1, <2>3, InsertAdds DEF RowsStay
    <2>5. MemberWorkerTypeOK'
      BY <1>s, <2>1, <2>2, <2>3 DEF MemberWorkerTypeOK
    <2>6. QED
      BY <1>t, <2>2, <2>4, <2>5
  <1>3. ASSUME PassOver PROVE Goal
    <2>1. PICK i \in mbatch : mbatch' = mbatch \ {i} /\ refused' = refused \cup {i}
      BY <1>3 DEF PassOver
    <2>2. /\ mwpc' \in {"loop", "batch"}
          /\ UNCHANGED <<mcursor, mrpos, mcur, mdeleted, wallet, snapshot, dbBalance>>
      BY <1>3 DEF PassOver, NextTurn
    <2>3. MemberWorkerTypeOK'
      BY <1>s, <2>1, <2>2 DEF MemberWorkerTypeOK
    <2>4. QED
      BY <1>r, <1>t, <2>2, <2>3
  <1>4. ASSUME FundIfNone \/ SnapMember PROVE Goal
    <2>1. mlog[mcur].user \in Users
      BY <1>4, <1>l, <1>u DEF FundIfNone, SnapMember, MemberWorkerTypeOK
    <2>2. /\ wallet' = wallet
             \/ \E b \in Int \cup {Absent} : wallet' = [wallet EXCEPT ![mlog[mcur].user] = b]
          /\ snapshot' = snapshot
             \/ \E b \in Int \cup {Absent} : snapshot' = [snapshot EXCEPT ![mlog[mcur].user] = b]
      <3>1. CASE FundIfNone
        <4>1. SetIfNone(mlog[mcur].user) \/ wallet' = wallet
          BY <3>1 DEF FundIfNone
        <4>2. snapshot' = snapshot
          BY <3>1 DEF FundIfNone
        <4>3. wallet[mlog[mcur].user] \in Int \cup {Absent}
          BY <1>t, <2>1
        <4>4. QED
          BY <1>n, <4>1, <4>2, <4>3 DEF SetIfNone
      <3>2. CASE SnapMember
        <4>1. snapshot[mlog[mcur].user] \in Int \cup {Absent}
          BY <1>t, <2>1
        <4>2. QED
          BY <1>n, <3>2, <4>1, AssignIsOne DEF SnapMember
      <3>3. QED
        BY <1>4, <3>1, <3>2
    <2>3. /\ snapshot' \in [Users -> Int \cup {Absent}]
          /\ wallet' \in [Users -> Int \cup {Absent}]
      BY <1>t, <2>1, <2>2
    <2>4. /\ mwpc \in {"fund", "snap"} /\ mwpc' \in {"snap", "ack"}
          /\ UNCHANGED <<mcursor, mrpos, mbatch, mcur, refused, mdeleted, dbBalance>>
      BY <1>4 DEF FundIfNone, SnapMember
    <2>5. MemberWorkerTypeOK'
      BY <1>s, <2>4 DEF MemberWorkerTypeOK
    <2>6. QED
      BY <1>r, <1>t, <2>3, <2>4, <2>5
  <1>5. ASSUME AckMember PROVE Goal
    <2>1. mcur \in DOMAIN mlog
      BY <1>5, <1>l DEF AckMember, MemberWorkerTypeOK
    <2>2. /\ mdeleted' \subseteq mdeleted \cup {mcur} /\ mcursor' = mcur /\ mcur' = 0
          /\ mwpc' \in {"loop", "batch"}
          /\ UNCHANGED <<mrpos, mbatch, refused, wallet, snapshot, dbBalance>>
      BY <1>5 DEF AckMember, NextTurn
    <2>3. MemberWorkerTypeOK'
      BY <1>l, <1>s, <2>1, <2>2 DEF MemberWorkerTypeOK
    <2>4. QED
      BY <1>r, <1>t, <2>2, <2>3
  <1>6. Goal
    BY <1>1, <1>2, <1>3, <1>4, <1>5 DEF MemberStep, MemberWork
  <1>7. MemberGatewayTypeOK'
    BY <1>6, <1>s DEF MemberGatewayTypeOK, visitVars
  <1>8. QED
    BY <1>6, <1>7

-----------------------------------------------------------------------------
\* What the order pipeline and the members' side keep together.
ShopInductive == Inductive /\ MemberGatewayTypeOK /\ MemberWorkerTypeOK

\* The members' side adds rows and money, and takes nothing from the orders.
LEMMA MembersAside ==
  ASSUME Inductive, UNCHANGED tradeOnlyVars, RowsStay, wallet' \in [Users -> Int \cup {Absent}]
  PROVE  Inductive'
  <1>1. UNCHANGED <<app, restarts, stock, lock, log, deleted, dbStock, history, pc, order, line,
                    total, need, reply, wpc, cursor, rpos, batch, cur, rejected>>
    BY DEF tradeOnlyVars, appVars, streamVars, gatewayVars, workerVars
  <1>2. TypeOK'
    <2>1. StoreTypeOK'
      BY <1>1 DEF Inductive, TypeOK, StoreTypeOK, RowsStay, Committed
    <2>2. GatewayTypeOK' /\ WorkerTypeOK'
      BY <1>1 DEF Inductive, TypeOK, GatewayTypeOK, WorkerTypeOK
    <2>3. QED
      BY <2>1, <2>2 DEF TypeOK
  <1>3. LinesKnown' /\ QuantitiesPositive'
    BY <1>1 DEF Inductive, LinesKnown, QuantitiesPositive, Cart
  <1>4. CommittedInOrder' /\ Frontier' /\ CurrentFirst'
    BY <1>1 DEF Inductive, CommittedInOrder, Frontier, CurrentFirst, Handled, Committed
  <1>5. QED
    BY <1>2, <1>3, <1>4 DEF Inductive

\* A step of the process or of the pipeline is one of Next.
LEMMA TradeIsNext == TradeStep \/ ProcessStep => Next
  BY DEF TradeStep, ProcessStep, Next, Process

\* The process ends, or starts again.
LEMMA ProcessTypes ==
  ASSUME ShopInductive, ProcessStep
  PROVE  MemberGatewayTypeOK' /\ MemberWorkerTypeOK'
  <1>1. CASE UNCHANGED memberVars
    BY <1>1 DEF ShopInductive, MemberGatewayTypeOK, MemberWorkerTypeOK, memberVars, visitVars,
       memberWorkerVars
  <1>2. CASE CutOff
    BY <1>2 DEF ShopInductive, MemberGatewayTypeOK, MemberWorkerTypeOK, CutOff, Visiting
  <1>3. CASE StartMemberWorker
    <2>1. Len(mlog) \in Nat
      BY DEF ShopInductive, MemberGatewayTypeOK
    <2>2. QED
      BY <1>3, <2>1 DEF ShopInductive, MemberGatewayTypeOK, MemberWorkerTypeOK, StartMemberWorker,
         Loop!StartId, visitVars
  <1>4. QED
    BY <1>1, <1>2, <1>3 DEF ProcessStep

\* A step of the members' side.
LEMMA MemberSide ==
  ASSUME ShopInductive, VisitStep \/ MemberStep
  PROVE  /\ ShopInductive' /\ RowsStay /\ UNCHANGED tradeOnlyVars
         /\ DOMAIN mlog \subseteq DOMAIN mlog' /\ \A i \in DOMAIN mlog : mlog'[i] = mlog[i]
  <1>t. TypeOK
    BY DEF ShopInductive, Inductive
  <1>1. UNCHANGED tradeOnlyVars
    BY DEF VisitStep, MemberStep
  <1>2. CASE MemberStep
    <2>1. /\ MemberGatewayTypeOK' /\ MemberWorkerTypeOK' /\ RowsStay
          /\ wallet' \in [Users -> Int \cup {Absent}]
      BY <1>2, <1>t, MemberWorkTyping DEF ShopInductive
    <2>2. mlog' = mlog
      BY <1>2 DEF MemberStep
    <2>3. QED
      BY <1>1, <2>1, <2>2, MembersAside DEF ShopInductive
  <1>3. ASSUME NEW v \in Visits, Visit(v), UNCHANGED memberWorkerVars
        PROVE  /\ ShopInductive' /\ RowsStay
               /\ DOMAIN mlog \subseteq DOMAIN mlog' /\ \A i \in DOMAIN mlog : mlog'[i] = mlog[i]
    <2>1. /\ MemberGatewayTypeOK' /\ RowsStay /\ wallet' \in [Users -> Int \cup {Absent}]
          /\ Len(mlog) <= Len(mlog') /\ DOMAIN mlog \subseteq DOMAIN mlog'
          /\ \A i \in DOMAIN mlog : mlog'[i] = mlog[i]
      BY <1>3, <1>t, VisitTyping DEF ShopInductive
    <2>2. Len(mlog) \in Nat /\ Len(mlog') \in Nat
      BY <2>1 DEF ShopInductive, MemberGatewayTypeOK
    <2>3. 0..Len(mlog) \subseteq 0..Len(mlog')
      BY <2>1, <2>2
    <2>4. MemberWorkerTypeOK'
      BY <1>3, <2>1, <2>3 DEF ShopInductive, MemberWorkerTypeOK, memberWorkerVars
    <2>5. QED
      BY <1>1, <2>1, <2>4, MembersAside DEF ShopInductive
  <1>4. ASSUME NEW u \in Users, Forget(u), UNCHANGED memberWorkerVars
        PROVE  ShopInductive' /\ RowsStay /\ mlog' = mlog
    <2>1. /\ snapshot' = [snapshot EXCEPT ![u] = Absent]
          /\ UNCHANGED <<visitVars, wallet, mlog, dbBalance>>
      BY <1>4 DEF Forget
    <2>2. RowsStay /\ wallet' \in [Users -> Int \cup {Absent}]
      BY <1>t, <2>1 DEF TypeOK, StoreTypeOK, RowsStay
    <2>3. MemberGatewayTypeOK'
      BY <2>1 DEF ShopInductive, MemberGatewayTypeOK, visitVars
    <2>4. MemberWorkerTypeOK'
      BY <1>4, <2>1 DEF ShopInductive, MemberWorkerTypeOK, memberWorkerVars
    <2>5. QED
      BY <1>1, <2>1, <2>2, <2>3, <2>4, MembersAside DEF ShopInductive
  <1>5. QED
    BY <1>1, <1>2, <1>3, <1>4 DEF VisitStep

\* Every step of the whole process.
LEMMA ShopStep == ShopInductive /\ [ShopNext]_shopVars => ShopInductive'
  <1> SUFFICES ASSUME ShopInductive, [ShopNext]_shopVars PROVE ShopInductive'
    OBVIOUS
  <1>1. CASE VisitStep \/ MemberStep
    BY <1>1, MemberSide
  <1>2. CASE TradeStep
    <2>1. Inductive'
      BY <1>2, TradeIsNext, InductiveStep DEF ShopInductive
    <2>2. MemberGatewayTypeOK' /\ MemberWorkerTypeOK'
      BY <1>2 DEF TradeStep, ShopInductive, MemberGatewayTypeOK, MemberWorkerTypeOK, memberVars,
         visitVars, memberWorkerVars
    <2>3. QED
      BY <2>1, <2>2 DEF ShopInductive
  <1>3. CASE ProcessStep
    BY <1>3, TradeIsNext, InductiveStep, ProcessTypes DEF ShopInductive
  <1>4. CASE UNCHANGED shopVars
    <2>1. UNCHANGED vars
      BY <1>4 DEF shopVars
    <2>2. Inductive'
      BY <2>1, InductiveStep DEF ShopInductive
    <2>3. MemberGatewayTypeOK' /\ MemberWorkerTypeOK'
      BY <1>4 DEF shopVars, ShopInductive, MemberGatewayTypeOK, MemberWorkerTypeOK, memberVars,
         visitVars, memberWorkerVars
    <2>4. QED
      BY <2>2, <2>3 DEF ShopInductive
  <1>5. QED
    BY <1>1, <1>2, <1>3, <1>4 DEF ShopNext

\* At the start.
LEMMA ShopStarts == ShopInit => ShopInductive
  <1> SUFFICES ASSUME ShopInit PROVE ShopInductive
    OBVIOUS
  <1>1. Inductive
    BY InductiveInit DEF ShopInit
  <1>2. mlog = <<>> /\ Len(mlog) = 0 /\ mlog \in Seq(MemberTask)
    BY DEF ShopInit, MemberInit
  <1>3. MemberGatewayTypeOK
    BY <1>2 DEF ShopInit, MemberInit, MemberGatewayTypeOK
  <1>4. MemberWorkerTypeOK
    BY <1>2 DEF ShopInit, MemberWorkerInit, Loop!WorkerInit, Loop!StartId, MemberWorkerTypeOK
  <1>5. QED
    BY <1>1, <1>3, <1>4 DEF ShopInductive

\* The invariant of the whole process.
THEOREM ShopHolds == ShopSpec => []ShopInductive
  BY ShopStarts, ShopStep, PTL DEF ShopSpec

\* Every variable of the whole process holds a value of its kind.
THEOREM ShopTypeCorrect == ShopSpec => []ShopTypeOK
  <1>1. ShopInductive => ShopTypeOK
    BY DEF ShopInductive, ShopTypeOK, Inductive
  <1>2. QED
    BY <1>1, ShopHolds, PTL

\* Members who come in meanwhile do not disturb the books: at most one row per task,
\* in the order of the stream.
THEOREM ShopBooksInOrder == ShopSpec => []CommittedInOrder
  <1>1. ShopInductive => CommittedInOrder
    BY DEF ShopInductive, Inductive
  <1>2. QED
    BY <1>1, ShopHolds, PTL

-----------------------------------------------------------------------------
\* A step of the pipeline or of the process changes balances by booking only; it takes
\* no row away and brings none.
LEMMA BookingOnly ==
  ASSUME Inductive, [Next]_vars
  PROVE  /\ dbBalance' = dbBalance \/ history' # history
         /\ \A u \in Users : HasRow(u) <=> HasRow(u)'
  <1>t. dbBalance \in [Users -> Int \cup {Absent}] /\ history \in Seq(Nat) /\ log \in Seq(Task)
    BY DEF Inductive, TypeOK, StoreTypeOK
  <1>1. CASE Commit \/ CommitLost
    <2>1. PICK i \in batch : Settleable(log[i]) /\ Book(i)
      BY <1>1 DEF Commit, CommitLost
    <2>2. i \in DOMAIN log
      BY DEF Inductive, TypeOK, WorkerTypeOK
    <2>3. log[i].user \in Users /\ log[i].amount \in Int
      <3>1. \A s \in Seq(Task) : \A k \in DOMAIN s : s[k] \in Task
        OBVIOUS
      <3>2. \A t \in Task : t.user \in Users /\ t.amount \in Int
        BY DEF Task
      <3>3. QED
        BY <1>t, <2>2, <3>1, <3>2
    <2>4. dbBalance[log[i].user] \in Int
      BY <1>t, <2>1, <2>3 DEF Settleable, MemberExists
    <2>5. dbBalance' = [dbBalance EXCEPT ![log[i].user] = @ + Sign(log[i]) * log[i].amount]
      BY <2>1 DEF Book, UpdateMember
    <2>6. dbBalance[log[i].user] + Sign(log[i]) * log[i].amount \in Int
      BY <2>3, <2>4 DEF Sign
    <2>7. \A u \in Users :
            dbBalance'[u] = dbBalance[u] \/ (dbBalance[u] \in Int /\ dbBalance'[u] \in Int)
      BY <1>t, <2>4, <2>5, <2>6
    <2>8. history' # history
      <3>1. history' = Append(history, i)
        BY <2>1 DEF Book, CreateTransaction
      <3>2. \A s \in Seq(Nat) : Append(s, i) # s
        <4>1. \A s \in Seq(Nat) : Len(Append(s, i)) = Len(s) + 1 /\ Len(s) \in Nat
          OBVIOUS
        <4>2. QED
          BY <4>1
      <3>3. QED
        BY <1>t, <3>1, <3>2
    <2>9. QED
      BY <2>7, <2>8, MarkerAssumption DEF HasRow
  <1>2. CASE ~(Commit \/ CommitLost)
    <2>1. dbBalance' = dbBalance
      BY <1>2 DEF Next, vars, GatewayStep, GatewayNext, WorkerStep, WorkerNext, Settle, StartRead,
         Deliver, ReadNil, ReadError, Stop, Abort, RefundWallet, RefundStock, Ack, Process, Signal,
         GracefulStop, Exit, Crash, Restart, dbVars, workerVars
    <2>2. QED
      BY <2>1 DEF HasRow
  <1>3. QED
    BY <1>1, <1>2

\* Whoever gets there first inserts the row, and then it changes by booking.
LEMMA RowStep ==
  ASSUME ShopInductive, [ShopNext]_shopVars, NEW u \in Users, HasRow(u)
  PROVE  HasRow(u)' /\ (dbBalance'[u] # dbBalance[u] => history' # history)
  <1>1. CASE VisitStep \/ MemberStep
    BY <1>1, MemberSide DEF RowsStay, HasRow
  <1>2. CASE TradeStep \/ ProcessStep \/ UNCHANGED shopVars
    <2>1. [Next]_vars
      BY <1>2, TradeIsNext DEF shopVars
    <2>2. QED
      BY <2>1, BookingOnly DEF ShopInductive
  <1>3. QED
    BY <1>1, <1>2 DEF ShopNext

\* The balance of a row changes by booking only.
THEOREM RowsAreKept == ShopSpec => RowsKept
  <1>1. ShopInductive /\ [ShopNext]_shopVars =>
          [\A u \in Users :
             HasRow(u) /\ dbBalance'[u] # dbBalance[u] => history' # history]_shopVars
    BY RowStep
  <1>2. QED
    BY <1>1, ShopHolds, PTL DEF ShopSpec, RowsKept

-----------------------------------------------------------------------------
\* The tasks of new members in the stream never change, and nor does their outcome.
LEMMA TasksRemain ==
  ASSUME ShopInductive, [ShopNext]_shopVars
  PROVE  /\ DOMAIN mlog \subseteq DOMAIN mlog' /\ \A i \in DOMAIN mlog : mlog'[i] = mlog[i]
         /\ \A i \in DOMAIN mlog : mlog[i].user \in Users
         /\ refused \subseteq refused' /\ Received \subseteq Received'
         /\ \A j \in 0..Len(mlog), i \in DOMAIN mlog' : i <= j => i \in DOMAIN mlog
  <1>1. /\ DOMAIN mlog \subseteq DOMAIN mlog' /\ \A i \in DOMAIN mlog : mlog'[i] = mlog[i]
    <2>1. CASE VisitStep \/ MemberStep
      BY <2>1, MemberSide
    <2>2. CASE TradeStep \/ ProcessStep \/ UNCHANGED shopVars
      BY <2>2 DEF TradeStep, ProcessStep, CutOff, StartMemberWorker, shopVars, memberVars
    <2>3. QED
      BY <2>1, <2>2 DEF ShopNext
  <1>2. \A i \in DOMAIN mlog : mlog[i].user \in Users
    <2>1. \A s \in Seq(MemberTask) : \A i \in DOMAIN s : s[i] \in MemberTask
      OBVIOUS
    <2>2. \A t \in MemberTask : t.user \in Users
      BY DEF MemberTask
    <2>3. QED
      BY <2>1, <2>2 DEF ShopInductive, MemberGatewayTypeOK
  <1>3. refused \subseteq refused'
    <2>1. CASE MemberStep
      BY <2>1 DEF MemberStep, MemberWork, ReadMembers, CreateMember, PassOver, FundIfNone,
         SnapMember,
         AckMember, Loop!StartRead, Loop!Deliver, Loop!ReadNil, Loop!ReadError, Loop!Stop
    <2>2. CASE VisitStep \/ TradeStep \/ ProcessStep \/ UNCHANGED shopVars
      BY <2>2 DEF VisitStep, TradeStep, ProcessStep, CutOff, StartMemberWorker, shopVars,
         memberVars,
         memberWorkerVars
    <2>3. QED
      BY <2>1, <2>2 DEF ShopNext
  <1>4. Received \subseteq Received'
    BY <1>1, <1>2, <1>3, RowStep DEF Received
  <1>5. \A j \in 0..Len(mlog), i \in DOMAIN mlog' : i <= j => i \in DOMAIN mlog
    <2>1. mlog \in Seq(MemberTask) /\ mlog' \in Seq(MemberTask)
      BY ShopStep DEF ShopInductive, MemberGatewayTypeOK
    <2>2. QED
      BY <2>1
  <1>6. QED
    BY <1>1, <1>2, <1>3, <1>4, <1>5

\* What the worker does not touch it keeps.
LEMMA BroughtStep ==
  ASSUME ShopInductive, Brought, [ShopNext]_shopVars
  PROVE  Brought'
  <1>m. mdeleted \subseteq DOMAIN mlog /\ mbatch \subseteq DOMAIN mlog
    BY DEF ShopInductive, MemberWorkerTypeOK
  <1>c. mwpc \in {"fund", "snap", "ack"} => mcur \in DOMAIN mlog
    <2>1. Len(mlog) \in Nat /\ DOMAIN mlog = 1..Len(mlog)
      BY DEF ShopInductive, MemberGatewayTypeOK
    <2>2. QED
      BY <2>1 DEF ShopInductive, MemberWorkerTypeOK
  <1>k. \A i \in DOMAIN mlog : HasRow(mlog[i].user) => dbBalance'[mlog'[i].user] # Absent
    BY TasksRemain, RowStep DEF HasRow
  <1>1. ASSUME mdeleted' = mdeleted, mwpc' \in {"fund", "snap", "ack"} =>
                 mwpc \in {"fund", "snap", "ack"} /\ mcur' = mcur
        PROVE  Brought'
    BY <1>c, <1>k, <1>m, <1>1 DEF Brought, HasRow
  <1>2. CASE ReadMembers /\ MemberStep
    BY <1>1, <1>2 DEF ReadMembers, Loop!StartRead, Loop!Deliver, Loop!ReadNil, Loop!ReadError,
       Loop!Stop
  <1>3. CASE CreateMember /\ MemberStep
    <2>1. PICK i \in mbatch : /\ Insertable(mlog[i].user) /\ Insert(mlog[i].user, NewBalance)
                              /\ mcur' = i
      BY <1>3 DEF CreateMember, TakenAsDone, Loop!Take
    <2>2. /\ mdeleted' = mdeleted /\ mlog' = mlog
      BY <1>3 DEF CreateMember, MemberStep
    <2>3. HasRow(mlog[i].user)'
      BY <1>m, <2>1, <2>2, TasksRemain, InsertAdds, NewBalanceAssumption
      DEF ShopInductive, Inductive, TypeOK, StoreTypeOK, HasRow
    <2>4. QED
      BY <1>k, <1>m, <2>1, <2>2, <2>3 DEF Brought, HasRow
  <1>4. CASE (PassOver \/ FundIfNone \/ SnapMember) /\ MemberStep
    BY <1>1, <1>4 DEF PassOver, FundIfNone, SnapMember, NextTurn
  <1>5. CASE AckMember /\ MemberStep
    <2>1. /\ mwpc = "ack" /\ mwpc' \in {"loop", "batch"} /\ mdeleted' \subseteq mdeleted \cup {mcur}
      BY <1>5 DEF AckMember, NextTurn
    <2>2. QED
      BY <1>c, <1>k, <1>m, <2>1 DEF Brought, HasRow
  <1>6. CASE VisitStep \/ TradeStep \/ ProcessStep \/ UNCHANGED shopVars
    BY <1>1, <1>6 DEF VisitStep, TradeStep, ProcessStep, CutOff, StartMemberWorker, shopVars,
       memberVars, memberWorkerVars
  <1>7. QED
    BY <1>2, <1>3, <1>4, <1>5, <1>6 DEF ShopNext, MemberStep, MemberWork

\* The messages of a reply are the oldest behind the position, as for the trade worker.
LEMMA MemberReplyHasNoGap ==
  ASSUME ShopInductive, NEW j \in Loop!NextBatch, NEW i \in Loop!Available, i <= j
  PROVE  i \in Loop!NextBatch
  <1> DEFINE Before(n) == {k \in Loop!Available : k < n}
  <1>1. Loop!Available \subseteq 1..Len(mlog) /\ Len(mlog) \in Nat
    BY DEF Loop!Available, ShopInductive, MemberGatewayTypeOK
  <1>2. IsFiniteSet(Before(j))
    <2>1. IsFiniteSet(1..Len(mlog))
      BY <1>1, FS_Interval
    <2>2. Before(j) \subseteq 1..Len(mlog)
      BY <1>1
    <2>3. QED
      BY <2>1, <2>2, FS_Subset
  <1>3. Before(i) \subseteq Before(j)
    <2>1. j \in Loop!Available
      BY DEF Loop!NextBatch
    <2>2. \A k \in Loop!Available : k \in Int
      BY <1>1
    <2>3. QED
      BY <2>1, <2>2
  <1>4. /\ Cardinality(Before(i)) <= Cardinality(Before(j))
        /\ Cardinality(Before(i)) \in Nat /\ Cardinality(Before(j)) \in Nat
    BY <1>2, <1>3, FS_Subset, FS_CardinalityType
  <1>5. \A S : Loop!Cardinality(S) = Cardinality(S)
    BY DEF Loop!Cardinality, Cardinality
  <1>6. Cardinality(Before(j)) < BatchSize
    <2>1. Loop!Cardinality(Before(j)) < BatchSize
      BY DEF Loop!NextBatch
    <2>2. QED
      BY <1>5, <2>1, Zenon
  <1>7. Cardinality(Before(i)) < BatchSize
    <2> HIDE DEF Before
    <2>1. QED
      BY <1>4, <1>6, BoundAssumption
  <1>8. Loop!Cardinality(Before(i)) < BatchSize
    BY <1>5, <1>7, Zenon
  <1>9. QED
    BY <1>8 DEF Loop!NextBatch

\* Between the position of the reading and the message in hand no new member is left.
LEMMA MemberSweptStep ==
  ASSUME ShopInductive, Brought, MemberSwept, [ShopNext]_shopVars
  PROVE  MemberSwept'
  <1>1. /\ Received \subseteq Received' /\ DOMAIN mlog \subseteq DOMAIN mlog'
        /\ \A j \in 0..Len(mlog), i \in DOMAIN mlog' : i <= j => i \in DOMAIN mlog
    BY TasksRemain
  <1>2. /\ Len(mlog) \in Nat /\ DOMAIN mlog = 1..Len(mlog)
        /\ mbatch \subseteq DOMAIN mlog /\ mcur \in 0..Len(mlog) /\ mrpos \in 0..Len(mlog)
        /\ mbatch \subseteq 0..Len(mlog)
    <2>1. Len(mlog) \in Nat /\ DOMAIN mlog = 1..Len(mlog)
      BY DEF ShopInductive, MemberGatewayTypeOK
    <2>2. QED
      BY <2>1 DEF ShopInductive, MemberWorkerTypeOK
  <1>3. ASSUME UNCHANGED <<mbatch, mrpos>>,
               mwpc' \in {"fund", "snap", "ack"} =>
                 mwpc \in {"fund", "snap", "ack"} /\ mcur' = mcur,
               mwpc' = "batch" => mwpc \in {"batch", "fund", "snap", "ack"}
        PROVE  MemberSwept'
    BY <1>1, <1>2, <1>3 DEF MemberSwept
  <1>4. CASE VisitStep \/ TradeStep \/ ProcessStep \/ UNCHANGED shopVars
    <2>1. UNCHANGED <<mbatch, mrpos, mcur, mwpc>> \/ mwpc' \in {"down", "loop"}
      BY <1>4 DEF VisitStep, TradeStep, ProcessStep, CutOff, StartMemberWorker, shopVars,
         memberVars,
         memberWorkerVars
    <2>2. CASE mwpc' \in {"down", "loop"}
      BY <2>2 DEF MemberSwept
    <2>3. QED
      BY <1>3, <2>1, <2>2
  <1>5. CASE MemberStep
    <2>1. mlog' = mlog
      BY <1>5 DEF MemberStep
    <2>2. CASE Loop!StartRead \/ Loop!ReadNil \/ Loop!ReadError \/ Loop!Stop
      <3>1. mwpc' \notin {"batch", "fund", "snap", "ack"}
        BY <2>2 DEF Loop!StartRead, Loop!ReadNil, Loop!ReadError, Loop!Stop
      <3>2. QED
        BY <3>1 DEF MemberSwept
    <2>3. CASE Loop!Deliver
      <3>1. mwpc' = "batch" /\ mbatch' = Loop!NextBatch /\ UNCHANGED <<mrpos, mdeleted, mcur>>
        BY <2>3 DEF Loop!Deliver
      <3>2. ASSUME NEW j \in Loop!NextBatch, NEW i \in DOMAIN mlog, mrpos < i, i <= j
            PROVE  i \in Loop!NextBatch \cup Received
        <4>1. CASE i \in mdeleted
          BY <3>2, <4>1 DEF Brought, Received
        <4>2. CASE i \notin mdeleted
          BY <3>2, <4>2, MemberReplyHasNoGap DEF Loop!Available
        <4>3. QED
          BY <4>1, <4>2
      <3>3. QED
        BY <1>1, <2>1, <3>1, <3>2 DEF MemberSwept
    <2>4. CASE CreateMember \/ PassOver
      <3>1. PICK i \in mbatch : Loop!IsOldest(i) /\ mbatch' = mbatch \ {i} /\ i \in Received'
                                /\ (CreateMember => mcur' = i)
        <4>1. CASE CreateMember
          <5>1. PICK i \in mbatch : Loop!IsOldest(i) /\ mcur' = i /\ mbatch' = mbatch \ {i}
            BY <4>1 DEF CreateMember, Loop!Take
          <5>2. mwpc' = "fund" /\ Brought'
            BY <4>1, BroughtStep DEF CreateMember
          <5>3. i \in Received'
            BY <1>2, <2>1, <5>1, <5>2 DEF Brought, Received
          <5>4. QED
            BY <4>1, <5>1, <5>3
        <4>2. CASE PassOver
          <5>1. PICK i \in mbatch : /\ Loop!IsOldest(i) /\ mbatch' = mbatch \ {i}
                                    /\ refused' = refused \cup {i}
            BY <4>2 DEF PassOver
          <5>2. ~CreateMember
            BY <4>2, <5>1 DEF PassOver, CreateMember, NextTurn
          <5>3. QED
            BY <5>1, <5>2 DEF Received
        <4>3. QED
          BY <2>4, <4>1, <4>2
      <3>2. mwpc = "batch" /\ mrpos' = mrpos /\ mwpc' \in {"fund", "batch", "loop"}
            /\ (mwpc' = "fund" => CreateMember)
        BY <2>4 DEF CreateMember, PassOver, NextTurn
      <3>3. \A k \in DOMAIN mlog : mrpos < k /\ k <= i => k \in Received'
        <4>1. \A k \in mbatch : k <= i => k = i
          BY <1>2, <3>1 DEF Loop!IsOldest
        <4>2. QED
          BY <1>1, <3>1, <3>2, <4>1 DEF MemberSwept
      <3>4. \A j \in mbatch' : \A k \in DOMAIN mlog :
              mrpos < k /\ k <= j => k \in mbatch' \cup Received'
        BY <1>1, <3>1, <3>2 DEF MemberSwept
      <3>5. QED
        BY <2>1, <3>1, <3>2, <3>3, <3>4 DEF MemberSwept
    <2>5. CASE FundIfNone \/ SnapMember
      BY <1>3, <2>5 DEF FundIfNone, SnapMember
    <2>6. CASE AckMember
      <3>1. mwpc = "ack" /\ mwpc' \in {"loop", "batch"} /\ UNCHANGED <<mbatch, mrpos>>
        BY <2>6 DEF AckMember, NextTurn
      <3>2. QED
        BY <1>3, <3>1
    <2>7. QED
      BY <1>5, <2>2, <2>3, <2>4, <2>5, <2>6 DEF MemberStep, MemberWork, ReadMembers
  <1>6. QED
    BY <1>4, <1>5 DEF ShopNext

\* No task of a new member gets lost between the stream and the table.
THEOREM NewMembersAreKept == ShopSpec => MemberTasksKept
  <1>1. ShopInit => Brought /\ MemberSwept
    BY DEF ShopInit, MemberWorkerInit, Loop!WorkerInit, Brought, MemberSwept
  <1>2. ShopInductive /\ Brought /\ MemberSwept /\ [ShopNext]_shopVars => Brought' /\ MemberSwept'
    BY BroughtStep, MemberSweptStep
  <1>3. ASSUME ShopInductive, Brought, MemberSwept, [ShopNext]_shopVars,
               mcursor' \notin {mcursor, Latest}, NEW i \in DOMAIN mlog, mrpos < i, i <= mcursor'
        PROVE  HasRow(mlog[i].user)' \/ i \in refused
    <2>1. AckMember
      BY <1>3 DEF ShopNext, VisitStep, MemberStep, MemberWork, ReadMembers, TradeStep, ProcessStep,
         CutOff, StartMemberWorker, shopVars, memberVars, memberWorkerVars, Loop!StartId,
         Loop!StartRead, Loop!Deliver, Loop!ReadNil, Loop!ReadError, Loop!Stop, CreateMember,
         PassOver, FundIfNone, SnapMember
    <2>2. mcursor' = mcur /\ mwpc = "ack"
      BY <2>1 DEF AckMember
    <2>3. i \in Received
      BY <1>3, <2>2 DEF MemberSwept
    <2>4. mlog'[i] = mlog[i] /\ mlog[i].user \in Users
      BY <1>3, TasksRemain
    <2>5. QED
      BY <1>3, <2>3, <2>4, RowStep DEF Received, HasRow
  <1>4. ShopInductive /\ Brought /\ MemberSwept /\ [ShopNext]_shopVars =>
          [/\ \A i \in mdeleted : HasRow(mlog[i].user)
           /\ mcursor' \notin {mcursor, Latest} =>
                \A i \in DOMAIN mlog :
                  mrpos < i /\ i <= mcursor' => HasRow(mlog[i].user)' \/ i \in refused]_shopVars
    BY <1>3 DEF Brought
  <1>5. QED
    BY <1>1, <1>2, <1>4, ShopHolds, PTL DEF ShopSpec, MemberTasksKept

-----------------------------------------------------------------------------
\* A call keeps the order it began with.
LEMMA OrdersStay ==
  ASSUME Inductive, OrderedOnce, [Next]_vars
  PROVE  OrderedOnce' /\ \A r \in Requests : order[r] # Absent => order'[r] = order[r]
  <1>t. pc \in [Requests -> Places] /\ order \in [Requests -> Order \cup {Absent}]
    BY CallTypes
  <1>1. ASSUME NEW r \in Requests, Begin(r) \/ Call(r)
        PROVE  OrderedOnce' /\ \A s \in Requests : order[s] # Absent => order'[s] = order[s]
    <2>1. \A s \in Requests \ {r} : pc'[s] = pc[s] /\ order'[s] = order[s]
      BY <1>1, CallFrame
    <2>2. pc'[r] # "idle"
      <3> USE DEF Goto
      <3>1. CASE Begin(r) \/ Acquire(r) \/ Busy(r) \/ AcquireFails(r) \/ PriceLine(r)
                 \/ RejectLine(r) \/ Priced(r)
        BY <1>t, <3>1 DEF Begin, Acquire, Busy, AcquireFails, PriceLine, RejectLine, Priced
      <3>2. CASE Reserve(r) \/ Refuse(r) \/ ReserveLost(r) \/ ReserveAgain(r) \/ XAdd(r)
                 \/ PushDone(r) \/ PushFail(r) \/ PushAgain(r)
        BY <1>t, <3>2 DEF Reserve, Refuse, ReserveLost, ReserveAgain, XAdd, PushDone, PushFail,
           PushAgain, AtGate, Pushing
      <3>3. CASE UndoWallet(r) \/ UndoStock(r) \/ UndoDone(r) \/ Release(r)
        BY <1>t, <3>3 DEF UndoWallet, UndoStock, UndoDone, Release
      <3>4. QED
        BY <1>1, <3>1, <3>2, <3>3 DEF Call
    <2>3. order[r] # Absent => order'[r] = order[r]
      <3>1. CASE Begin(r)
        BY <3>1 DEF Begin, OrderedOnce
      <3>2. CASE ~Begin(r)
        BY <1>1, <3>2, CallFrame
      <3>3. QED
        BY <3>1, <3>2
    <2>4. QED
      BY <2>1, <2>2, <2>3 DEF OrderedOnce
  <1>2. CASE ~\E r \in Requests : Begin(r) \/ Call(r)
    BY <1>2, OtherSteps DEF OrderedOnce
  <1>3. QED
    BY <1>1, <1>2

\* The pipeline touches the wallets of users who have ordered, and no other.
LEMMA WalletsOfOrders ==
  ASSUME Inductive, Authored, [Next]_vars, NEW u \in Users,
         \A r \in Requests : order[r] = Absent \/ order[r].user # u
  PROVE  wallet'[u] = wallet[u]
  <1>t. wallet \in [Users -> Int \cup {Absent}]
    BY DEF Inductive, TypeOK, StoreTypeOK
  <1>1. \A r \in Requests : pc[r] # "idle" => order[r] # Absent /\ order[r].user # u
    BY NoOrderAssumption DEF Inductive, TypeOK, GatewayTypeOK
  <1>2. ASSUME NEW r \in Requests, pc[r] # "idle",
               \E b : wallet' = [wallet EXCEPT ![order[r].user] = b]
        PROVE  wallet'[u] = wallet[u]
    BY <1>1, <1>2, <1>t
  <1>3. ASSUME NEW r \in Requests,
               Reserve(r) \/ ReserveLost(r) \/ ReserveAgain(r) \/ UndoWallet(r)
        PROVE  wallet'[u] = wallet[u]
    <2>1. pc[r] # "idle"
      BY <1>3 DEF Reserve, ReserveLost, ReserveAgain, UndoWallet, AtGate
    <2>2. \E b : wallet' = [wallet EXCEPT ![order[r].user] = b]
      BY <1>3 DEF Reserve, ReserveLost, ReserveAgain, UndoWallet, Deduct
    <2>3. QED
      BY <1>2, <2>1, <2>2
  <1>4. CASE RefundWallet
    <2>1. cur \in DOMAIN log
      <3>1. wpc = "refundWallet" /\ DOMAIN log = 1..Len(log) /\ Len(log) \in Nat
        BY <1>4, CallTypes DEF RefundWallet
      <3>2. QED
        BY <3>1 DEF Inductive, TypeOK, WorkerTypeOK
    <2>2. /\ log[cur].by \in Requests /\ pc[log[cur].by] # "idle"
          /\ order[log[cur].by].user = log[cur].user
      BY <2>1, CallTypes DEF Authored
    <2>3. \E b : wallet' = [wallet EXCEPT ![log[cur].user] = b]
      BY <1>4 DEF RefundWallet
    <2>4. QED
      BY <1>2, <2>2, <2>3
  <1>5. CASE ~RefundWallet /\ ~\E r \in Requests :
               Reserve(r) \/ ReserveLost(r) \/ ReserveAgain(r) \/ UndoWallet(r)
    <2>1. CASE GatewayStep
      <3>1. ASSUME NEW r \in Requests, Begin(r) \/ Call(r)
            PROVE  wallet' = wallet
        BY <1>5, <3>1 DEF Call, Begin, Acquire, Busy, AcquireFails, PriceLine, RejectLine, Priced,
           Refuse, XAdd, PushDone, PushFail, PushAgain, UndoStock, UndoDone, Release, cacheVars
      <3>2. ASSUME NEW w \in Users, Expire(w)
            PROVE  wallet' = wallet
        BY <3>2 DEF Expire
      <3>3. QED
        BY <2>1, <3>1, <3>2 DEF GatewayStep, GatewayNext
    <2>2. CASE WorkerStep
      BY <1>5, <2>2 DEF WorkerStep, WorkerNext, Settle, StartRead, Deliver, ReadNil, ReadError,
         Stop, Commit, Abort, CommitLost, RefundStock, Ack
    <2>3. CASE Process \/ UNCHANGED vars
      BY <2>3 DEF Process, Signal, GracefulStop, Exit, Crash, Restart, vars, cacheVars
    <2>4. QED
      BY <2>1, <2>2, <2>3 DEF Next
  <1>6. QED
    BY <1>3, <1>4, <1>5

\* What a visit found in the table stays there.
LEMMA FoundStep ==
  ASSUME ShopInductive, FoundIsThere, [ShopNext]_shopVars
  PROVE  FoundIsThere'
  <1>t. /\ vpc \in [Visits -> VisitPlaces] /\ found \in [Visits -> [balance : Int, row : BOOLEAN]]
        /\ visitor \in [Visits -> Users \cup {Absent}]
        /\ \A v \in Visits : vpc[v] # "idle" => visitor[v] \in Users
    BY DEF ShopInductive, MemberGatewayTypeOK, VisitPlaces
  <1>1. \A v \in Visits : vpc[v] # "idle" /\ HasRow(visitor[v]) =>
          \A w : w = visitor[v] => HasRow(w)'
    BY <1>t, RowStep
  <1>2. ASSUME NEW v \in Visits, Visit(v)
        PROVE  FoundIsThere'
    <2>1. \A w \in Visits \ {v} :
            vpc'[w] = vpc[w] /\ visitor'[w] = visitor[w] /\ found'[w] = found[w]
      BY <1>2, <1>t DEF Visit, Arrive, QueryFails, PlainLook, PlainInsert, PlainAgain, Hit, Look,
         Snap, Fund, Push, PushTaskFails, Unsnap, Unfund, GoTo
    <2>2. \/ vpc[v] = "idle" /\ found' = found
          \/ /\ vpc[v] # "idle" /\ vpc'[v] # "idle" /\ visitor' = visitor
             /\ found'[v].row => found[v].row \/ HasRow(visitor[v])
      BY <1>2, <1>t DEF Visit, Arrive, QueryFails, PlainLook, PlainInsert, PlainAgain, Hit, Look,
         Snap, Fund, Push, PushTaskFails, Unsnap, Unfund, GoTo
    <2>3. found'[v].row => vpc'[v] # "idle" /\ dbBalance'[visitor'[v]] # Absent
      BY <1>1, <2>2 DEF FoundIsThere, HasRow
    <2>4. \A w \in Visits \ {v} :
            found'[w].row => vpc'[w] # "idle" /\ dbBalance'[visitor'[w]] # Absent
      BY <1>1, <2>1 DEF FoundIsThere, HasRow
    <2>5. QED
      BY <2>3, <2>4 DEF FoundIsThere, HasRow
  <1>3. CASE ~\E v \in Visits : Visit(v)
    <2>1. /\ UNCHANGED <<visitor, found>>
          /\ \A v \in Visits : vpc'[v] = vpc[v] \/ vpc'[v] = "dead"
      <3>1. CASE ProcessStep
        BY <3>1, <1>t DEF ProcessStep, CutOff, StartMemberWorker, memberVars, visitVars
      <3>2. CASE VisitStep \/ MemberStep \/ TradeStep \/ UNCHANGED shopVars
        BY <1>3, <3>2 DEF VisitStep, Forget, MemberStep, TradeStep, shopVars, memberVars, visitVars
      <3>3. QED
        BY <3>1, <3>2 DEF ShopNext
    <2>2. QED
      BY <1>1, <2>1 DEF FoundIsThere, HasRow
  <1>4. QED
    BY <1>2, <1>3

\* The orders of the whole process: who wrote a task, and since when a call has its order.
LEMMA ShopOrders ==
  ASSUME ShopInductive, Authored, OrderedOnce, [ShopNext]_shopVars
  PROVE  /\ Authored' /\ OrderedOnce'
         /\ \A r \in Requests : order[r] # Absent => order'[r] = order[r]
  <1>1. CASE VisitStep \/ MemberStep
    <2>1. UNCHANGED <<pc, order, log>>
      BY <1>1, MemberSide DEF tradeOnlyVars, streamVars, gatewayVars
    <2>2. QED
      BY <2>1 DEF Authored, OrderedOnce
  <1>2. CASE TradeStep \/ ProcessStep \/ UNCHANGED shopVars
    <2>1. [Next]_vars
      BY <1>2, TradeIsNext DEF shopVars
    <2>2. QED
      BY <2>1, OrdersStay, AuthoredStep DEF ShopInductive
  <1>3. QED
    BY <1>1, <1>2 DEF ShopNext

\* A task for u's row was pushed, or a visit of u is at one of these places.
Behind(u, places) ==
  \/ \E i \in DOMAIN mlog : mlog[i].user = u
  \/ \E v \in Visits : visitor[v] = u /\ vpc[v] \in places

\* Where a visit has given a snapshot, and where it has given a wallet.
SnapPlaces == {"fund", "push", "unsnap", "dead"}
FundPlaces == {"push", "unsnap", "unfund", "dead"}

Unordered(u) == \A r \in Requests : order[r] = Absent \/ order[r].user # u

\* What strengthens NothingUnvouched: it counts the visits that were cut off.
GivenFor ==
  \A u \in Users : ~HasRow(u) =>
    /\ snapshot[u] # Absent => Behind(u, SnapPlaces)
    /\ wallet[u] # Absent /\ Unordered(u) => Behind(u, FundPlaces)

\* What every step of a visit keeps: the tasks, and the places of the other visits.
LEMMA VisitAside ==
  ASSUME ShopInductive, NEW v \in Visits, Visit(v), NEW u \in Users, NEW places
  PROVE  /\ \A w \in Visits \ {v} : vpc'[w] = vpc[w] /\ visitor'[w] = visitor[w]
         /\ (\E i \in DOMAIN mlog : mlog[i].user = u) => Behind(u, places)'
         /\ Behind(u, places) /\ (visitor[v] # u \/ vpc[v] \notin places) => Behind(u, places)'
  <1>1. \A w \in Visits \ {v} : vpc'[w] = vpc[w] /\ visitor'[w] = visitor[w]
    BY DEF ShopInductive, MemberGatewayTypeOK, Visit, Arrive, QueryFails, PlainLook, PlainInsert,
       PlainAgain, Hit, Look, Snap, Fund, Push, PushTaskFails, Unsnap, Unfund, GoTo
  <1>2. DOMAIN mlog \subseteq DOMAIN mlog' /\ \A i \in DOMAIN mlog : mlog'[i] = mlog[i]
    BY VisitTyping DEF ShopInductive, Inductive
  <1>3. (\E i \in DOMAIN mlog : mlog[i].user = u) => Behind(u, places)'
    BY <1>2 DEF Behind
  <1>4. QED
    BY <1>1, <1>3 DEF Behind

\* A push leaves a task, or a visit that takes back what it has given.
LEMMA PushBacks ==
  ASSUME ShopInductive, NEW v \in Visits, Push(v) \/ PushTaskFails(v),
         NEW u \in Users, visitor[v] = u, NEW places, "unsnap" \in places
  PROVE  Behind(u, places)'
  <1>t. vpc \in [Visits -> VisitPlaces] /\ mlog \in Seq(MemberTask)
    BY DEF ShopInductive, MemberGatewayTypeOK, VisitPlaces
  <1>1. CASE Push(v)
    <2>1. mlog' = Append(mlog, [user |-> visitor[v], by |-> v])
      BY <1>1 DEF Push, PushTask
    <2>2. Len(mlog) + 1 \in DOMAIN mlog'
          /\ mlog'[Len(mlog) + 1] = [user |-> visitor[v], by |-> v]
      BY <1>t, <2>1
    <2>3. QED
      BY <2>2 DEF Behind
  <1>2. CASE PushTaskFails(v)
    BY <1>2, <1>t DEF PushTaskFails, GoTo, Behind
  <1>3. QED
    BY <1>1, <1>2

\* A visit that gives a snapshot goes on to push a task, or takes the snapshot back.
LEMMA VisitBacksSnapshot ==
  ASSUME ShopInductive, FoundIsThere, "redis" \notin Faults, NEW v \in Visits, Visit(v),
         NEW u \in Users, ~HasRow(u), snapshot'[u] # Absent,
         snapshot[u] # Absent => Behind(u, SnapPlaces)
  PROVE  Behind(u, SnapPlaces)'
  <1>t. /\ vpc \in [Visits -> VisitPlaces] /\ visitor \in [Visits -> Users \cup {Absent}]
        /\ snapshot \in [Users -> Int \cup {Absent}]
        /\ vpc[v] # "idle" => visitor[v] \in Users
    BY DEF ShopInductive, MemberGatewayTypeOK, VisitPlaces
  <1>a. \A old, new : Assign(old, new) = {new}
    BY DEF Assign, Outcomes
  <1>1. ASSUME snapshot'[u] = snapshot[u], visitor[v] # u \/ vpc[v] \notin SnapPlaces
        PROVE  Behind(u, SnapPlaces)'
    BY <1>1, VisitAside
  <1>2. CASE Snap(v)
    <2>1. /\ snapshot' = [snapshot EXCEPT ![visitor[v]] = found[v].balance]
          /\ visitor' = visitor /\ vpc'[v] = "fund"
      BY <1>2, <1>a, <1>t DEF Snap, GoTo
    <2>2. CASE visitor[v] = u
      BY <2>1, <2>2 DEF Behind, SnapPlaces
    <2>3. CASE visitor[v] # u
      BY <1>1, <1>t, <2>1, <2>3
    <2>4. QED
      BY <2>2, <2>3
  <1>3. CASE Fund(v)
    <2>1. /\ snapshot' = snapshot /\ visitor' = visitor /\ vpc[v] # "idle"
          /\ ~found[v].row => vpc'[v] = "push"
      BY <1>3, <1>t DEF Fund, GoTo
    <2>2. CASE visitor[v] = u
      BY <2>1, <2>2 DEF Behind, SnapPlaces, FoundIsThere
    <2>3. QED
      BY <1>1, <2>1, <2>2
  <1>4. CASE Push(v) \/ PushTaskFails(v)
    <2>1. snapshot' = snapshot /\ vpc[v] = "push"
      BY <1>4 DEF Push, PushTaskFails
    <2>2. CASE visitor[v] = u
      BY <1>4, <2>2, PushBacks DEF SnapPlaces
    <2>3. QED
      BY <1>1, <2>1, <2>2
  <1>5. CASE Unsnap(v)
    <2>1. snapshot' = [snapshot EXCEPT ![visitor[v]] = Absent]
      BY <1>5, <1>a DEF Unsnap
    <2>2. visitor[v] # u
      BY <1>t, <2>1
    <2>3. QED
      BY <1>1, <1>t, <2>1, <2>2
  <1>6. CASE Arrive(v) \/ QueryFails(v) \/ PlainLook(v) \/ PlainInsert(v) \/ PlainAgain(v)
             \/ Hit(v) \/ Look(v) \/ Unfund(v)
    <2>1. snapshot' = snapshot /\ vpc[v] \notin SnapPlaces
      BY <1>6 DEF Arrive, QueryFails, PlainLook, PlainInsert, PlainAgain, Hit, Look, Unfund,
         SnapPlaces
    <2>2. QED
      BY <1>1, <2>1
  <1>7. QED
    BY <1>2, <1>3, <1>4, <1>5, <1>6 DEF Visit

\* A visit that gives a wallet pushes a task or takes the wallet back.
LEMMA VisitBacksWallet ==
  ASSUME ShopInductive, FoundIsThere, "redis" \notin Faults, NEW v \in Visits, Visit(v),
         NEW u \in Users, ~HasRow(u), wallet'[u] # Absent,
         wallet[u] # Absent => Behind(u, FundPlaces)
  PROVE  Behind(u, FundPlaces)'
  <1>t. /\ vpc \in [Visits -> VisitPlaces] /\ visitor \in [Visits -> Users \cup {Absent}]
        /\ wallet \in [Users -> Int \cup {Absent}]
        /\ vpc[v] # "idle" => visitor[v] \in Users
    BY DEF ShopInductive, Inductive, TypeOK, StoreTypeOK, MemberGatewayTypeOK, VisitPlaces
  <1>a. \A old, new : Assign(old, new) = {new}
    BY DEF Assign, Outcomes
  <1>1. ASSUME wallet'[u] = wallet[u], visitor[v] # u \/ vpc[v] \notin FundPlaces
        PROVE  Behind(u, FundPlaces)'
    BY <1>1, VisitAside
  <1>2. CASE Fund(v)
    <2>1. /\ wallet' = [wallet EXCEPT ![visitor[v]] = found[v].balance]
          /\ visitor' = visitor /\ vpc[v] # "idle" /\ (~found[v].row => vpc'[v] = "push")
      BY <1>2, <1>a, <1>t DEF Fund, GoTo
    <2>2. CASE visitor[v] = u
      BY <2>1, <2>2 DEF FoundIsThere, Behind, FundPlaces
    <2>3. CASE visitor[v] # u
      BY <1>1, <1>t, <2>1, <2>3
    <2>4. QED
      BY <2>2, <2>3
  <1>3. CASE Push(v) \/ PushTaskFails(v)
    <2>1. wallet' = wallet /\ vpc[v] = "push"
      BY <1>3 DEF Push, PushTaskFails
    <2>2. CASE visitor[v] = u
      BY <1>3, <2>2, PushBacks DEF FundPlaces
    <2>3. QED
      BY <1>1, <2>1, <2>2
  <1>4. CASE Unsnap(v)
    <2>1. wallet' = wallet /\ visitor' = visitor /\ vpc'[v] = "unfund"
      BY <1>4, <1>t DEF Unsnap, GoTo
    <2>2. CASE visitor[v] = u
      BY <2>1, <2>2 DEF Behind, FundPlaces
    <2>3. QED
      BY <1>1, <2>1, <2>2
  <1>5. CASE Unfund(v)
    <2>1. wallet' = [wallet EXCEPT ![visitor[v]] = Absent]
      BY <1>5, <1>a DEF Unfund, DeleteWallet
    <2>2. visitor[v] # u
      BY <1>t, <2>1
    <2>3. QED
      BY <1>1, <1>t, <2>1, <2>2
  <1>6. CASE Arrive(v) \/ QueryFails(v) \/ PlainLook(v) \/ PlainInsert(v) \/ PlainAgain(v)
             \/ Hit(v) \/ Look(v) \/ Snap(v)
    <2>1. wallet' = wallet /\ vpc[v] \notin FundPlaces
      BY <1>6 DEF Arrive, QueryFails, PlainLook, PlainInsert, PlainAgain, Hit, Look, Snap,
         FundPlaces
    <2>2. QED
      BY <1>1, <2>1
  <1>7. QED
    BY <1>2, <1>3, <1>4, <1>5, <1>6 DEF Visit

\* Every other step leaves snapshots, and the wallets of members who have not ordered,
\* or writes them with a task behind it.
LEMMA GivenForStep ==
  ASSUME ShopInductive, Authored, OrderedOnce, FoundIsThere, GivenFor,
         "redis" \notin Faults, [ShopNext]_shopVars
  PROVE  GivenFor'
  <1> SUFFICES ASSUME NEW u \in Users, ~HasRow(u)'
               PROVE  /\ snapshot'[u] # Absent => Behind(u, SnapPlaces)'
                      /\ wallet'[u] # Absent /\ Unordered(u)' => Behind(u, FundPlaces)'
    BY DEF GivenFor
  <1>r. ~HasRow(u)
    BY RowStep
  <1>o. Unordered(u)' => Unordered(u)
    BY ShopOrders DEF Unordered
  <1>b. /\ snapshot[u] # Absent => Behind(u, SnapPlaces)
        /\ wallet[u] # Absent /\ Unordered(u) => Behind(u, FundPlaces)
    BY <1>r DEF GivenFor
  <1>m. DOMAIN mlog \subseteq DOMAIN mlog' /\ \A i \in DOMAIN mlog : mlog'[i] = mlog[i]
    BY TasksRemain
  <1>t. /\ vpc \in [Visits -> VisitPlaces]
        /\ wallet \in [Users -> Int \cup {Absent}] /\ snapshot \in [Users -> Int \cup {Absent}]
    BY DEF ShopInductive, Inductive, TypeOK, StoreTypeOK, MemberGatewayTypeOK, VisitPlaces
  <1>1. ASSUME visitor' = visitor,
               \A v \in Visits : vpc'[v] = vpc[v] \/ (Visiting(v) /\ vpc'[v] = "dead")
        PROVE  /\ Behind(u, SnapPlaces) => Behind(u, SnapPlaces)'
               /\ Behind(u, FundPlaces) => Behind(u, FundPlaces)'
    BY <1>1, <1>m DEF Behind, SnapPlaces, FundPlaces
  <1>2. CASE VisitStep
    <2>1. ASSUME NEW v \in Visits, Visit(v)
          PROVE  /\ snapshot'[u] # Absent => Behind(u, SnapPlaces)'
                 /\ wallet'[u] # Absent /\ Unordered(u)' => Behind(u, FundPlaces)'
      BY <1>b, <1>o, <1>r, <2>1, VisitBacksSnapshot, VisitBacksWallet
    <2>2. ASSUME NEW w \in Users, Forget(w)
          PROVE  /\ snapshot'[u] # Absent => Behind(u, SnapPlaces)'
                 /\ wallet'[u] # Absent /\ Unordered(u)' => Behind(u, FundPlaces)'
      <3>1. /\ UNCHANGED <<vpc, visitor, wallet>>
            /\ snapshot'[u] # Absent => snapshot[u] # Absent
        BY <1>t, <2>2 DEF Forget, visitVars
      <3>2. QED
        BY <1>1, <1>b, <1>o, <3>1
    <2>3. QED
      BY <1>2, <2>1, <2>2 DEF VisitStep
  <1>3. CASE MemberStep
    <2>1. UNCHANGED <<vpc, visitor, mlog>>
      BY <1>3 DEF MemberStep, visitVars
    <2>2. CASE FundIfNone \/ SnapMember
      <3>1. mcur \in DOMAIN mlog
        <4>1. mwpc \in {"fund", "snap"} /\ Len(mlog) \in Nat /\ DOMAIN mlog = 1..Len(mlog)
          BY <2>2 DEF FundIfNone, SnapMember, ShopInductive, MemberGatewayTypeOK
        <4>2. QED
          BY <4>1 DEF ShopInductive, MemberWorkerTypeOK
      <3>2. CASE mlog[mcur].user = u
        BY <2>1, <3>1, <3>2 DEF Behind
      <3>3. CASE mlog[mcur].user # u
        <4>1. wallet'[u] = wallet[u] /\ snapshot'[u] = snapshot[u]
          BY <1>t, <2>2, <3>3 DEF FundIfNone, SetIfNone, SnapMember
        <4>2. QED
          BY <1>1, <1>b, <1>o, <2>1, <4>1
      <3>4. QED
        BY <3>2, <3>3
    <2>3. CASE ~FundIfNone /\ ~SnapMember
      <3>1. wallet' = wallet /\ snapshot' = snapshot
        BY <1>3, <2>3 DEF MemberStep, MemberWork, ReadMembers, Loop!StartRead, Loop!Deliver,
           Loop!ReadNil, Loop!ReadError, Loop!Stop, CreateMember, PassOver, AckMember
      <3>2. QED
        BY <1>1, <1>b, <1>o, <2>1, <3>1
    <2>4. QED
      BY <2>2, <2>3
  <1>4. CASE TradeStep \/ ProcessStep \/ UNCHANGED shopVars
    <2>1. [Next]_vars
      BY <1>4, TradeIsNext DEF shopVars
    <2>2. Unordered(u) => wallet'[u] = wallet[u]
      BY <2>1, WalletsOfOrders DEF ShopInductive, Unordered
    <2>3. /\ visitor' = visitor /\ snapshot' = snapshot
          /\ \A v \in Visits : vpc'[v] = vpc[v] \/ (Visiting(v) /\ vpc'[v] = "dead")
      <3>1. CASE TradeStep \/ UNCHANGED shopVars
        BY <3>1 DEF TradeStep, shopVars, memberVars, visitVars
      <3>2. CASE ProcessStep
        BY <1>t, <3>2 DEF ProcessStep, CutOff, StartMemberWorker, memberVars, visitVars
      <3>3. QED
        BY <1>4, <3>1, <3>2
    <2>4. QED
      BY <1>1, <1>b, <1>o, <2>2, <2>3
  <1>5. QED
    BY <1>2, <1>3, <1>4 DEF ShopNext

\* While a member has no row, a snapshot or a wallet in Redis has its message in the
\* stream or its visit still at it, unless a visit of that member was cut off with the
\* process.  Redis has to answer, as what cannot be taken back stays; and there are no
\* wallets without rows to begin with.
THEOREM NothingIsUnvouched ==
  ASSUME "redis" \notin Faults,
         \A u \in Users : OpeningWallet[u] # Absent => OpeningBalance[u] # Absent
  PROVE  ShopSpec => []NothingUnvouched
  <1>1. ShopInit => Authored /\ OrderedOnce /\ FoundIsThere /\ GivenFor /\ Brought
    BY DEF ShopInit, Init, StoreInit, GatewayInit, MemberInit, MemberWorkerInit, Loop!WorkerInit,
       Authored, OrderedOnce, FoundIsThere, GivenFor, Brought, HasRow
  <1>2. ShopInductive /\ Authored /\ OrderedOnce /\ FoundIsThere /\ GivenFor /\ Brought
        /\ [ShopNext]_shopVars =>
          Authored' /\ OrderedOnce' /\ FoundIsThere' /\ GivenFor' /\ Brought'
    BY ShopOrders, FoundStep, GivenForStep, BroughtStep
  <1>3. GivenFor /\ Brought => NothingUnvouched
    <2> SUFFICES ASSUME GivenFor, Brought, NEW u \in Users, ~HasRow(u),
                        \A v \in Visits : visitor[v] = u => vpc[v] # "dead"
                 PROVE  /\ snapshot[u] # Absent => Vouched(u, {"fund", "push", "unsnap"})
                        /\ wallet[u] # Absent /\ Unordered(u) =>
                             Vouched(u, {"push", "unsnap", "unfund"})
      BY DEF NothingUnvouched, Unordered
    <2>1. \A i \in DOMAIN mlog : mlog[i].user = u => i \notin mdeleted
      BY DEF Brought
    <2>2. /\ Behind(u, SnapPlaces) => Vouched(u, {"fund", "push", "unsnap"})
          /\ Behind(u, FundPlaces) => Vouched(u, {"push", "unsnap", "unfund"})
      BY <2>1 DEF Behind, Vouched, SnapPlaces, FundPlaces
    <2>3. QED
      BY <2>2 DEF GivenFor
  <1>4. QED
    BY <1>1, <1>2, <1>3, ShopHolds, PTL DEF ShopSpec

-----------------------------------------------------------------------------
\* A row starts at zero or above, and the members' side changes none.
LEMMA ShopNonNegative ==
  ASSUME ShopInductive, DbNonNegative, [ShopNext]_shopVars
  PROVE  DbNonNegative'
  <1>1. CASE VisitStep \/ MemberStep
    <2>1. RowsStay /\ dbStock' = dbStock
      BY <1>1, MemberSide DEF tradeOnlyVars
    <2>2. \A u \in Users : dbBalance'[u] # Absent => dbBalance'[u] >= 0
      BY <2>1 DEF RowsStay, DbNonNegative
    <2>3. QED
      BY <2>1, <2>2 DEF DbNonNegative
  <1>2. CASE TradeStep \/ ProcessStep \/ UNCHANGED shopVars
    <2>1. [Next]_vars
      BY <1>2, TradeIsNext DEF shopVars
    <2>2. QED
      BY <2>1, NonNegativeStep DEF ShopInductive
  <1>3. QED
    BY <1>1, <1>2 DEF ShopNext

\* Nor do the new members push a balance below zero.
THEOREM ShopBooksNonNegative == ShopSpec => []DbNonNegative
  <1>1. ShopInit => DbNonNegative
    BY OpeningAssumption, MarkerAssumption DEF ShopInit, Init, StoreInit, DbNonNegative
  <1>2. ShopInductive /\ DbNonNegative /\ [ShopNext]_shopVars => DbNonNegative'
    BY ShopNonNegative
  <1>3. QED
    BY <1>1, <1>2, ShopHolds, PTL DEF ShopSpec

-----------------------------------------------------------------------------
\* The one visit of u that went past the snapshot, if there is one, met no row.
Alone(u) ==
  /\ Asks[u] = {"hit"}
  /\ \A v, w \in Loaders(u) : v = w
  /\ \A v \in Loaders(u) : ~found[v].row

\* What the wallet may promise: the balance, and before there is a row what the visit
\* puts in the wallet.
Limit(u) ==
  IF HasRow(u) THEN dbBalance[u]
  ELSE IF \E v \in Loaders(u) : vpc[v] \notin {"snap", "fund"} THEN NewBalance ELSE 0

\* The purse stays within it; the visit is before the row until its wallet is filled; and
\* from then on the wallet is there as long as a task may bring the row.
WithinLimit(u) == Purse(u, Claims(Repaying)) <= Limit(u)
Unseen(u) == \A v \in Loaders(u) : vpc[v] \in {"snap", "fund"} => ~HasRow(u)
Funded(u) ==
  /\ \A i \in DOMAIN mlog : mlog[i].user = u => wallet[u] # Absent
  /\ \A v \in Loaders(u) : vpc[v] \in {"push", "unsnap", "unfund"} => wallet[u] # Absent

NewOnesKept == \A u \in Users : Alone(u) => WithinLimit(u) /\ Unseen(u) /\ Funded(u)

\* What a visit has found, place by place.
FoundLate ==
  \A v \in Visits :
    /\ found[v].balance >= 0
    /\ vpc[v] \in {"idle", "plainLook", "insert", "again", "hit", "look"} =>
         found[v] = [balance |-> 0, row |-> FALSE]
    /\ vpc[v] \in {"snap", "fund"} /\ ~found[v].row => found[v].balance = NewBalance
    /\ vpc[v] \in {"push", "unsnap", "unfund"} => ~found[v].row /\ found[v].balance = NewBalance
    /\ vpc[v] \in {"plainLook", "insert", "again"} => "plainLook" \in Asks[visitor[v]]

\* The visit that added a task is through.
TasksBy == \A i \in DOMAIN mlog : /\ mlog[i].by \in Loaders(mlog[i].user)
                                  /\ vpc[mlog[i].by] = "done"

\* Only so many visits have begun.
Begun == {v \in Visits : vpc[v] # "idle"}

\* The members' side leaves the orders' invariants,
LEMMA TradeAside ==
  ASSUME Prepared, InHand, UNCHANGED tradeOnlyVars, ShopInductive'
  PROVE  Prepared' /\ InHand'
  <1>1. UNCHANGED <<app, log, deleted, pc, order, line, total, need, reply, wpc, cursor, rpos,
                    batch, cur, rejected, history>>
    BY DEF tradeOnlyVars, appVars, streamVars, gatewayVars, workerVars
  <1>2. AddedUp'
    BY <1>1 DEF Prepared, AddedUp, AddedUpFor, Cart
  <1>3. AsPriced'
    BY <1>1 DEF Prepared, AsPriced
  <1>4. InHand'
    BY <1>1 DEF InHand, InFlight
  <1>5. QED
    BY <1>2, <1>3, <1>4 DEF Prepared, ShopInductive

\* and of a purse everything but the wallet.
LEMMA MembersPurse ==
  ASSUME Prepared, InHand, UNCHANGED tradeOnlyVars, ShopInductive', NEW u \in Users
  PROVE  /\ Counter(wallet[u]) \in Int /\ Counter(wallet'[u]) \in Int
         /\ Purse(u, Claims(Repaying)) \in Int
         /\ Purse(u, Claims(Repaying))'
              = Purse(u, Claims(Repaying)) - Counter(wallet[u]) + Counter(wallet'[u])
  <1>1. UNCHANGED <<log, pc, order, line, total, need, wpc, cursor, rpos, batch, cur, rejected,
                    history>>
    BY DEF tradeOnlyVars, streamVars, gatewayVars, workerVars
  <1>2. PICK S \in SUBSET DOMAIN log : S = Claims(Repaying)
    BY DEF Claims, Live
  <1>3. Claims(Repaying)' = S
    BY <1>1, <1>2 DEF Claims, Live, Handled, Committed
  <1>4. HeldMoney(u)' = HeldMoney(u)
    BY <1>1 DEF HeldMoney, MoneyOf, Held, Pushing, Cart
  <1>5. TaskMoney(u, S)' = TaskMoney(u, S)
    BY <1>1 DEF TaskMoney, TasksCost
  <1>6. /\ Counter(wallet[u]) \in Int /\ HeldMoney(u) \in Int /\ TaskMoney(u, S) \in Int
    BY PurseTypes DEF PursesTyped
  <1>7. Counter(wallet'[u]) \in Int
    <2>1. Counter(wallet[u])' \in Int
      BY TradeAside, PurseTypes DEF PursesTyped
    <2>2. QED
      BY <2>1 DEF Counter
  <1>8. QED
    BY <1>2, <1>3, <1>4, <1>5, <1>6, <1>7 DEF Purse

\* What the steps of a visit have in common.
LEMMA VisitFrame ==
  ASSUME ShopInductive, NEW v \in Visits, Visit(v)
  PROVE  /\ \A w \in Visits \ {v} :
              vpc'[w] = vpc[w] /\ visitor'[w] = visitor[w] /\ found'[w] = found[w]
         /\ vpc[v] # "idle" => visitor'[v] = visitor[v] /\ visitor[v] \in Users
         /\ vpc[v] \notin {"idle", "look"} => found'[v] = found[v]
         /\ vpc'[v] # "idle" /\ visitor'[v] \in Users
  <1>t. /\ vpc \in [Visits -> VisitPlaces] /\ found \in [Visits -> [balance : Int, row : BOOLEAN]]
        /\ visitor \in [Visits -> Users \cup {Absent}]
        /\ \A w \in Visits : vpc[w] # "idle" => visitor[w] \in Users
    BY DEF ShopInductive, MemberGatewayTypeOK, VisitPlaces
  <1>1. CASE Arrive(v)
    <2>1. PICK u \in Users : visitor' = [visitor EXCEPT ![v] = u] /\ \E l \in Asks[u] : GoTo(v, l)
      BY <1>1 DEF Arrive
    <2>2. Asks[u] \subseteq {"plainLook", "hit"}
      BY AsksAssumption
    <2>3. vpc[v] = "idle" /\ found' = found
      BY <1>1 DEF Arrive
    <2>4. QED
      BY <1>t, <2>1, <2>2, <2>3 DEF GoTo
  <1>2. CASE QueryFails(v) \/ PlainLook(v) \/ PlainInsert(v) \/ PlainAgain(v) \/ Hit(v)
             \/ Look(v) \/ Snap(v)
    BY <1>2, <1>t DEF QueryFails, PlainLook, PlainInsert, PlainAgain, Hit, Look, Snap, GoTo
  <1>3. CASE Fund(v) \/ Push(v) \/ PushTaskFails(v) \/ Unsnap(v) \/ Unfund(v)
    BY <1>3, <1>t DEF Fund, Push, PushTaskFails, Unsnap, Unfund, GoTo
  <1>4. QED
    BY <1>1, <1>2, <1>3 DEF Visit

\* Every other step leaves the visits, or ends them.
LEMMA VisitsElse ==
  ASSUME ShopInductive, [ShopNext]_shopVars, ~\E v \in Visits : Visit(v)
  PROVE  /\ UNCHANGED <<visitor, found, mlog>>
         /\ \A v \in Visits : vpc'[v] = vpc[v] \/ (Visiting(v) /\ vpc'[v] = "dead")
         /\ vpc' # vpc => app' = "down"
  <1>t. vpc \in [Visits -> VisitPlaces]
    BY DEF ShopInductive, MemberGatewayTypeOK, VisitPlaces
  <1>1. CASE ProcessStep
    BY <1>1, <1>t DEF ProcessStep, Exit, Crash, CutOff, StartMemberWorker, memberVars, visitVars
  <1>2. CASE VisitStep \/ MemberStep \/ TradeStep \/ UNCHANGED shopVars
    BY <1>2 DEF VisitStep, Forget, MemberStep, TradeStep, shopVars, memberVars, visitVars
  <1>3. QED
    BY <1>1, <1>2 DEF ShopNext

\* A visit past the snapshot stays one; there are only more of them.
LEMMA LoadersStay ==
  ASSUME ShopInductive, FoundLate, [ShopNext]_shopVars, NEW u \in Users
  PROVE  /\ Loaders(u) \subseteq Loaders(u)'
         /\ \A v \in Loaders(u) : v \in Visits /\ found'[v] = found[v]
         /\ Alone(u)' => Alone(u)
         /\ (~\E v \in Visits : Visit(v)) => Loaders(u)' = Loaders(u)
  <1>1. \A v \in Visits : v \in Loaders(u) =>
          v \in Loaders(u)' /\ found'[v] = found[v]
    <2>1. ASSUME NEW w \in Visits, Visit(w), NEW v \in Visits, v \in Loaders(u)
          PROVE  v \in Loaders(u)' /\ found'[v] = found[v]
      <3>1. CASE v = w
        <4>1. vpc[v] \notin {"idle", "look"}
          BY <2>1 DEF Loaders, FoundLate
        <4>2. visitor'[v] = visitor[v] /\ found'[v] = found[v]
          BY <2>1, <3>1, <4>1, VisitFrame
        <4>3. QED
          BY <2>1, <4>2 DEF Loaders
      <3>2. CASE v # w
        <4>1. visitor'[v] = visitor[v] /\ found'[v] = found[v]
          BY <2>1, <3>2, VisitFrame
        <4>2. QED
          BY <2>1, <4>1 DEF Loaders
      <3>3. QED
        BY <3>1, <3>2
    <2>2. (~\E w \in Visits : Visit(w)) => UNCHANGED <<visitor, found>>
      BY VisitsElse
    <2>3. QED
      BY <2>1, <2>2 DEF Loaders
  <1>2. Loaders(u) \subseteq Visits
    BY DEF Loaders
  <1>3. Alone(u)' => Alone(u)
    BY <1>1, <1>2 DEF Alone
  <1>4. (~\E v \in Visits : Visit(v)) => Loaders(u)' = Loaders(u)
    BY VisitsElse DEF Loaders
  <1>5. QED
    BY <1>1, <1>2, <1>3, <1>4

\* What a visit finds it keeps on its way.
LEMMA FoundLateStep ==
  ASSUME ShopInductive, FoundLate, DbNonNegative, [ShopNext]_shopVars
  PROVE  FoundLate'
  <1>t. /\ vpc \in [Visits -> VisitPlaces] /\ found \in [Visits -> [balance : Int, row : BOOLEAN]]
        /\ visitor \in [Visits -> Users \cup {Absent}]
        /\ \A w \in Visits : vpc[w] # "idle" => visitor[w] \in Users
    BY DEF ShopInductive, MemberGatewayTypeOK, VisitPlaces
  <1> DEFINE Sound(v) ==
        /\ found[v].balance >= 0
        /\ vpc[v] \in {"idle", "plainLook", "insert", "again", "hit", "look"} =>
             found[v] = [balance |-> 0, row |-> FALSE]
        /\ vpc[v] \in {"snap", "fund"} /\ ~found[v].row => found[v].balance = NewBalance
        /\ vpc[v] \in {"push", "unsnap", "unfund"} =>
             ~found[v].row /\ found[v].balance = NewBalance
        /\ vpc[v] \in {"plainLook", "insert", "again"} => "plainLook" \in Asks[visitor[v]]
  <1>1. ASSUME NEW v \in Visits, Visit(v)
        PROVE  Sound(v)'
    <2>0. Sound(v)
      BY DEF FoundLate
    <2>1. CASE Arrive(v)
      <3>1. PICK u \in Users : visitor' = [visitor EXCEPT ![v] = u]
                               /\ \E l \in Asks[u] : GoTo(v, l)
        BY <2>1 DEF Arrive
      <3>2. Asks[u] \subseteq {"plainLook", "hit"}
        BY AsksAssumption
      <3>3. vpc[v] = "idle" /\ found' = found
        BY <2>1 DEF Arrive
      <3>4. QED
        BY <1>t, <2>0, <3>1, <3>2, <3>3 DEF GoTo
    <2>2. CASE QueryFails(v) \/ PlainLook(v) \/ PlainInsert(v) \/ PlainAgain(v) \/ Hit(v)
      BY <1>t, <2>0, <2>2 DEF QueryFails, PlainLook, PlainInsert, PlainAgain, Hit, GoTo
    <2>3. CASE Look(v)
      <3>1. HasRow(visitor[v]) => dbBalance[visitor[v]] >= 0
        BY <1>t, <2>3 DEF Look, DbNonNegative, HasRow
      <3>2. PICK b : b = IF HasRow(visitor[v]) THEN dbBalance[visitor[v]] ELSE NewBalance
        OBVIOUS
      <3>3. b >= 0 /\ (~HasRow(visitor[v]) => b = NewBalance)
        BY <3>1, <3>2, NewBalanceAssumption
      <3>4. found'[v] = [balance |-> b, row |-> HasRow(visitor[v])]
        BY <1>t, <2>3, <3>2 DEF Look
      <3>5. vpc'[v] = "snap"
        BY <1>t, <2>3 DEF Look, GoTo
      <3>6. QED
        BY <3>3, <3>4, <3>5
    <2>4. CASE Snap(v) \/ Fund(v) \/ Push(v) \/ PushTaskFails(v) \/ Unsnap(v) \/ Unfund(v)
      BY <1>t, <2>0, <2>4 DEF Snap, Fund, Push, PushTaskFails, Unsnap, Unfund, GoTo
    <2>5. QED
      BY <1>1, <2>1, <2>2, <2>3, <2>4 DEF Visit
  <1>2. ASSUME NEW w \in Visits, Visit(w), NEW v \in Visits \ {w}
        PROVE  Sound(v)'
    <2>1. vpc'[v] = vpc[v] /\ visitor'[v] = visitor[v] /\ found'[v] = found[v]
      BY <1>2, VisitFrame
    <2>2. Sound(v)
      BY DEF FoundLate
    <2>3. QED
      BY <2>1, <2>2
  <1>3. ASSUME ~\E v \in Visits : Visit(v), NEW v \in Visits
        PROVE  Sound(v)'
    <2>1. /\ vpc'[v] = vpc[v] \/ vpc'[v] = "dead"
          /\ visitor'[v] = visitor[v] /\ found'[v] = found[v]
      BY <1>3, VisitsElse
    <2>2. Sound(v)
      BY DEF FoundLate
    <2>3. QED
      BY <2>1, <2>2
  <1>4. \A v \in Visits : Sound(v)'
    BY <1>1, <1>2, <1>3
  <1>5. QED
    BY <1>4 DEF FoundLate

\* A task in the stream is that of a visit that is through.
LEMMA TasksByStep ==
  ASSUME ShopInductive, FoundLate, TasksBy, "redis" \notin Faults, NewBalance # 0,
         [ShopNext]_shopVars
  PROVE  TasksBy'
  <1>t. /\ vpc \in [Visits -> VisitPlaces] /\ mlog \in Seq(MemberTask)
    BY DEF ShopInductive, MemberGatewayTypeOK, VisitPlaces
  <1>m. \A i \in DOMAIN mlog : i \in DOMAIN mlog' /\ mlog'[i] = mlog[i] /\ mlog[i].user \in Users
    BY TasksRemain
  <1>1. ASSUME NEW i \in DOMAIN mlog
        PROVE  /\ i \in DOMAIN mlog' /\ vpc'[mlog'[i].by] = "done"
               /\ mlog'[i].by \in Visits /\ visitor'[mlog'[i].by] = mlog'[i].user
               /\ found'[mlog'[i].by].row \/ found'[mlog'[i].by].balance # 0
    <2>1. mlog[i].by \in Loaders(mlog[i].user) /\ vpc[mlog[i].by] = "done"
      BY DEF TasksBy
    <2>2. PICK v \in Visits, u \in Users :
            v = mlog[i].by /\ u = mlog[i].user /\ v \in Loaders(u) /\ vpc[v] = "done"
      BY <1>m, <2>1 DEF Loaders
    <2>3. v \in Loaders(u)'
      BY <2>2, LoadersStay
    <2>4. vpc'[v] = "done"
      <3>1. ASSUME NEW w \in Visits, Visit(w)
            PROVE  vpc'[v] = "done"
        <4>1. w # v
          BY <2>2, <3>1 DEF Visit, Arrive, QueryFails, PlainLook, PlainInsert, PlainAgain, Hit,
             Look, Snap, Fund, Push, PushTaskFails, Unsnap, Unfund
        <4>2. QED
          BY <2>2, <3>1, <4>1, VisitFrame
      <3>2. (~\E w \in Visits : Visit(w)) => vpc'[v] = "done"
        BY <2>2, VisitsElse DEF Visiting
      <3>3. QED
        BY <3>1, <3>2
    <2>5. QED
      BY <1>m, <2>2, <2>3, <2>4 DEF Loaders
  <1>2. ASSUME NEW v \in Visits, Push(v)
        PROVE  TasksBy'
    <2>1. PICK u \in Users : u = visitor[v]
      BY <1>2 DEF Push, ShopInductive, MemberGatewayTypeOK
    <2>2. /\ mlog' = Append(mlog, [user |-> u, by |-> v]) /\ vpc'[v] = "done"
          /\ UNCHANGED <<visitor, found>> /\ vpc[v] = "push"
      BY <1>2, <1>t, <2>1 DEF Push, PushTask, GoTo
    <2>3. v \in Visits /\ visitor'[v] = u /\ found'[v].balance # 0
      BY <2>1, <2>2 DEF FoundLate
    <2>4. \A i \in DOMAIN mlog' : i \in DOMAIN mlog \/ mlog'[i] = [user |-> u, by |-> v]
      BY <1>t, <2>2
    <2>5. QED
      BY <1>1, <2>2, <2>3, <2>4 DEF TasksBy, Loaders
  <1>3. CASE ~\E v \in Visits : Push(v)
    <2>1. mlog' = mlog
      <3>1. ASSUME NEW v \in Visits, Visit(v)
            PROVE  mlog' = mlog
        BY <1>3, <3>1 DEF Visit, Arrive, QueryFails, PlainLook, PlainInsert, PlainAgain, Hit,
           Look, Snap, Fund, PushTaskFails, Effects, Unsnap, Unfund
      <3>2. QED
        BY <3>1, VisitsElse
    <2>2. QED
      BY <1>1, <2>1 DEF TasksBy, Loaders
  <1>4. QED
    BY <1>2, <1>3

\* A step begins one visit at most.
LEMMA BegunStep ==
  ASSUME ShopInductive, IsFiniteSet(Begun), [ShopNext]_shopVars
  PROVE  IsFiniteSet(Begun)'
  <1>1. ASSUME NEW v \in Visits, Visit(v)
        PROVE  IsFiniteSet(Begun)'
    <2>1. Begun' \subseteq Begun \cup {v}
      BY <1>1, VisitFrame DEF Begun
    <2>2. IsFiniteSet(Begun \cup {v})
      BY FS_AddElement
    <2>3. QED
      BY <2>1, <2>2, FS_Subset
  <1>2. CASE ~\E v \in Visits : Visit(v)
    <2>1. Begun' \subseteq Begun
      BY <1>2, VisitsElse DEF Begun, Visiting
    <2>2. QED
      BY <2>1, FS_Subset
  <1>3. QED
    BY <1>1, <1>2

\* A limit is an integer.
LEMMA LimitTypes ==
  ASSUME ShopInductive, NEW u \in Users
  PROVE  Limit(u) \in Int
  <1>1. dbBalance \in [Users -> Int \cup {Absent}]
    BY DEF ShopInductive, Inductive, TypeOK, StoreTypeOK
  <1>2. QED
    BY <1>1, NewBalanceAssumption DEF Limit, HasRow

\* A step that leaves a member's row and tasks alone, raises no purse and takes no wallet.
LEMMA StillWithin ==
  ASSUME ShopInductive, NEW u \in Users, WithinLimit(u), Unseen(u), Funded(u),
         dbBalance'[u] = dbBalance[u], wallet[u] # Absent => wallet'[u] # Absent,
         Purse(u, Claims(Repaying)) \in Int, Purse(u, Claims(Repaying))' \in Int,
         Purse(u, Claims(Repaying))' <= Purse(u, Claims(Repaying)),
         Loaders(u)' = Loaders(u),
         \A w \in Loaders(u) :
           /\ vpc'[w] \in {"snap", "fund"} => vpc[w] \in {"snap", "fund"}
           /\ vpc'[w] \notin {"snap", "fund"} => vpc[w] \notin {"snap", "fund"}
           /\ vpc'[w] \in {"push", "unsnap", "unfund"} =>
                vpc[w] \in {"push", "unsnap", "unfund"},
         \A i \in DOMAIN mlog' :
           mlog'[i].user = u => wallet'[u] # Absent \/ (i \in DOMAIN mlog /\ mlog'[i] = mlog[i])
  PROVE  WithinLimit(u)' /\ Unseen(u)' /\ Funded(u)'
  <1>1. HasRow(u)' <=> HasRow(u)
    BY DEF HasRow
  <1>2. Limit(u)' = Limit(u) /\ Limit(u) \in Int
    BY <1>1, LimitTypes DEF Limit
  <1>3. WithinLimit(u)'
    BY <1>2 DEF WithinLimit
  <1>4. Unseen(u)'
    BY <1>1 DEF Unseen
  <1>5. Funded(u)'
    BY DEF Funded
  <1>6. QED
    BY <1>3, <1>4, <1>5

\* The invariants that a step of the whole process rests on.
Reserved ==
  /\ ShopInductive /\ Prepared /\ InHand /\ DbNonNegative
  /\ FoundLate /\ TasksBy /\ IsFiniteSet(Begun) /\ WalletsUp /\ NewOnesKept

\* A visit promises a new member what the row will hold, and no more.
LEMMA VisitKeeps ==
  ASSUME Reserved, "redis" \notin Faults, NewBalance # 0, VisitStep,
         NEW v \in Visits, Visit(v), NEW u \in Users, Alone(u)'
  PROVE  WithinLimit(u)' /\ Unseen(u)' /\ Funded(u)'
  <1>t. /\ vpc \in [Visits -> VisitPlaces] /\ visitor \in [Visits -> Users \cup {Absent}]
        /\ found \in [Visits -> [balance : Int, row : BOOLEAN]]
        /\ wallet \in [Users -> Int \cup {Absent}] /\ dbBalance \in [Users -> Int \cup {Absent}]
        /\ mlog \in Seq(MemberTask)
    BY DEF Reserved, ShopInductive, Inductive, TypeOK, StoreTypeOK, MemberGatewayTypeOK, VisitPlaces
  <1>s. ShopInductive /\ [ShopNext]_shopVars /\ FoundLate /\ UNCHANGED tradeOnlyVars
    BY DEF Reserved, ShopNext, VisitStep
  <1>n. NewBalance \in Nat /\ NewBalance # Absent
    BY NewBalanceAssumption, MarkerAssumption
  <1>a. \A old, new : Assign(old, new) = {new}
    BY DEF Assign, Outcomes
  <1>l. /\ Alone(u) /\ Loaders(u) \subseteq Loaders(u)'
        /\ \A w \in Loaders(u) : w \in Visits /\ found'[w] = found[w]
    BY <1>s, LoadersStay
  <1>k. WithinLimit(u) /\ Unseen(u) /\ Funded(u)
    BY <1>l DEF Reserved, NewOnesKept
  <1>f. /\ \A w \in Visits \ {v} :
             vpc'[w] = vpc[w] /\ visitor'[w] = visitor[w] /\ found'[w] = found[w]
        /\ vpc[v] # "idle" => visitor'[v] = visitor[v] /\ visitor[v] \in Users
        /\ vpc[v] \notin {"idle", "look"} => found'[v] = found[v]
    BY <1>s, VisitFrame
  <1>p. /\ Counter(wallet[u]) \in Int /\ Counter(wallet'[u]) \in Int /\ Counter(wallet[u]) >= 0
        /\ Purse(u, Claims(Repaying)) \in Int
        /\ Purse(u, Claims(Repaying))'
             = Purse(u, Claims(Repaying)) - Counter(wallet[u]) + Counter(wallet'[u])
    BY <1>s, ShopStep, MembersPurse DEF Reserved, WalletsUp
  <1>h. Asks[u] = {"hit"}
    BY <1>l DEF Alone
  <1>e. /\ v \notin Loaders(u)' => Loaders(u)' = Loaders(u)
        /\ v \in Loaders(u) => Loaders(u)' = Loaders(u) /\ visitor[v] = u /\ visitor'[v] = u
        /\ v \in Loaders(u) => Loaders(u) = {v} /\ ~found[v].row
        /\ v \in Loaders(u)' => Loaders(u)' = {v}
    <2>1. \A w \in Visits \ {v} : w \in Loaders(u)' <=> w \in Loaders(u)
      BY <1>f DEF Loaders
    <2>2. Loaders(u) \subseteq Visits /\ Loaders(u)' \subseteq Visits
      BY DEF Loaders
    <2>3. v \in Loaders(u) => visitor[v] = u /\ v \in Loaders(u)' /\ ~found[v].row
      BY <1>l DEF Loaders, Alone
    <2>4. v \in Loaders(u)' => visitor'[v] = u
      BY DEF Loaders
    <2>5. \A w, x \in Loaders(u)' : w = x
      BY DEF Alone
    <2>6. QED
      BY <1>l, <2>1, <2>2, <2>3, <2>4, <2>5
  <1>0. ASSUME wallet'[u] = wallet[u], dbBalance'[u] = dbBalance[u],
               Loaders(u)' = Loaders(u),
               v \in Loaders(u) =>
                 /\ vpc'[v] \in {"snap", "fund"} => vpc[v] \in {"snap", "fund"}
                 /\ vpc'[v] \notin {"snap", "fund"} => vpc[v] \notin {"snap", "fund"}
                 /\ vpc'[v] \in {"push", "unsnap", "unfund"} =>
                      vpc[v] \in {"push", "unsnap", "unfund"},
               \A i \in DOMAIN mlog' : mlog'[i].user = u =>
                 wallet'[u] # Absent \/ (i \in DOMAIN mlog /\ mlog'[i] = mlog[i])
        PROVE  WithinLimit(u)' /\ Unseen(u)' /\ Funded(u)'
    <2>1. Purse(u, Claims(Repaying))' = Purse(u, Claims(Repaying))
      BY <1>0, <1>p
    <2>2. \A w \in Loaders(u) : w # v => vpc'[w] = vpc[w]
      BY <1>f, <1>l
    <2>3. QED
      BY <1>0, <1>k, <1>p, <1>s, <2>1, <2>2, StillWithin
  <1>m. mlog' = mlog \/ ((Push(v) \/ PushTaskFails(v)) /\ PushTask(v))
    BY DEF Visit, Arrive, QueryFails, PlainLook, PlainInsert, PlainAgain, Hit, Look, Snap, Fund,
       Push, PushTaskFails, Unsnap, Unfund
  <1>1. CASE visitor'[v] # u
    <2>1. v \notin Loaders(u) /\ Loaders(u)' = Loaders(u)
      BY <1>1, <1>e DEF Loaders
    <2>2. vpc[v] # "idle" => visitor[v] # u
      BY <1>1, <1>f
    <2>3. wallet'[u] = wallet[u]
      BY <1>t, <2>2 DEF Visit, Arrive, QueryFails, PlainLook, PlainInsert, PlainAgain, Hit, Look,
         Snap, Fund, Push, PushTaskFails, Unsnap, Unfund, DeleteWallet
    <2>4. dbBalance'[u] = dbBalance[u]
      BY <1>t, <2>2 DEF Visit, Arrive, QueryFails, PlainLook, PlainInsert, PlainAgain, Hit, Look,
         Snap, Fund, Push, PushTaskFails, Unsnap, Unfund, Insert
    <2>5. \A i \in DOMAIN mlog' : mlog'[i].user = u => i \in DOMAIN mlog /\ mlog'[i] = mlog[i]
      <3>1. CASE PushTask(v) /\ vpc[v] # "idle"
        BY <1>t, <2>2, <3>1 DEF PushTask
      <3>2. PushTask(v) /\ (Push(v) \/ PushTaskFails(v)) => vpc[v] # "idle"
        BY DEF Push, PushTaskFails
      <3>3. QED
        BY <1>m, <3>1, <3>2
    <2>6. QED
      BY <1>0, <2>1, <2>3, <2>4, <2>5
  <1>2. CASE visitor'[v] = u
    <2>1. CASE Arrive(v) \/ QueryFails(v) \/ PlainLook(v) \/ PlainAgain(v) \/ Hit(v)
      <3>1. /\ UNCHANGED <<found, wallet, mlog, dbBalance>>
            /\ vpc[v] \in {"idle", "plainLook", "insert", "again", "hit", "look"}
        BY <2>1 DEF Arrive, QueryFails, PlainLook, PlainAgain, Hit
      <3>2. found'[v] = [balance |-> 0, row |-> FALSE]
        BY <1>s, <3>1 DEF FoundLate
      <3>3. v \notin Loaders(u)' /\ v \notin Loaders(u)
        BY <1>l, <3>2 DEF Loaders
      <3>4. QED
        BY <1>0, <1>e, <3>1, <3>3
    <2>2. ~PlainInsert(v)
      BY <1>2, <1>f, <1>h, <1>s DEF PlainInsert, FoundLate
    <2>3. CASE Look(v)
      <3>1. visitor[v] = u /\ vpc[v] = "look"
        BY <1>2, <1>f, <2>3 DEF Look
      <3>2. found'[v].row = HasRow(u) /\ (~HasRow(u) => found'[v].balance = NewBalance)
        BY <1>t, <2>3, <3>1 DEF Look, HasRow
      <3>3. v \in Loaders(u)' /\ ~found'[v].row /\ ~HasRow(u)
        <4>1. HasRow(u) => v \in Loaders(u)'
          BY <1>2, <3>2 DEF Loaders
        <4>2. ~HasRow(u) => v \in Loaders(u)'
          BY <1>2, <1>n, <3>2 DEF Loaders
        <4>3. QED
          BY <3>2, <4>1, <4>2 DEF Alone
      <3>4. v \notin Loaders(u) /\ Loaders(u) = {}
        <4>1. v \notin Loaders(u)
          BY <1>s, <3>1 DEF Loaders, FoundLate
        <4>2. QED
          BY <1>e, <1>l, <3>3, <4>1
      <3>5. /\ vpc'[v] = "snap" /\ UNCHANGED <<wallet, mlog, dbBalance>>
        BY <1>t, <2>3 DEF Look, GoTo
      <3>6. Limit(u) = 0 /\ Limit(u)' = 0 /\ Loaders(u)' = {v}
        BY <1>e, <3>3, <3>4, <3>5 DEF Limit, HasRow
      <3>7. Purse(u, Claims(Repaying))' = Purse(u, Claims(Repaying))
        BY <1>p, <3>5
      <3>8. WithinLimit(u)'
        BY <1>k, <3>6, <3>7 DEF WithinLimit
      <3>9. Unseen(u)' /\ Funded(u)'
        BY <1>k, <3>3, <3>5, <3>6 DEF Unseen, Funded, HasRow
      <3>10. QED
        BY <3>8, <3>9
    <2>4. CASE Snap(v)
      <3>1. /\ vpc[v] = "snap" /\ vpc'[v] = "fund"
            /\ UNCHANGED <<visitor, found, wallet, mlog, dbBalance>>
        BY <1>t, <2>4 DEF Snap, GoTo
      <3>2. Loaders(u)' = Loaders(u)
        BY <3>1 DEF Loaders
      <3>3. QED
        BY <1>0, <3>1, <3>2
    <2>5. ASSUME vpc[v] \in {"fund", "push", "unsnap", "unfund"}
          PROVE  /\ v \in Loaders(u) /\ Loaders(u) = {v} /\ Loaders(u)' = {v}
                 /\ ~found[v].row /\ found[v].balance = NewBalance /\ visitor[v] = u
      <3>1. visitor[v] = u /\ found'[v] = found[v]
        BY <1>2, <1>f, <2>5
      <3>2. found[v].row \/ found[v].balance = NewBalance
        BY <1>s, <2>5 DEF FoundLate
      <3>3. v \in Loaders(u)
        BY <3>1, <3>2 DEF Loaders
      <3>4. QED
        BY <1>e, <3>1, <3>2, <3>3
    <2>6. CASE Fund(v)
      <3>1. vpc[v] = "fund"
        BY <2>6 DEF Fund
      <3>2. ~HasRow(u)
        BY <1>k, <2>5, <3>1 DEF Unseen
      <3>3. wallet'[u] = NewBalance /\ vpc'[v] = "push" /\ UNCHANGED <<mlog, dbBalance>>
        BY <1>a, <1>t, <2>5, <2>6, <3>1 DEF Fund, GoTo
      <3>4. Limit(u) = 0 /\ Limit(u)' = NewBalance
        BY <2>5, <3>1, <3>2, <3>3 DEF Limit, HasRow
      <3>5. Counter(wallet'[u]) = NewBalance
        BY <1>n, <3>3 DEF Counter
      <3>6. WithinLimit(u)'
        BY <1>k, <1>n, <1>p, <3>4, <3>5 DEF WithinLimit
      <3>7. Unseen(u)' /\ Funded(u)'
        BY <1>n, <2>5, <3>1, <3>3 DEF Unseen, Funded
      <3>8. QED
        BY <3>6, <3>7
    <2>7. CASE Push(v) \/ PushTaskFails(v) \/ Unsnap(v)
      <3>1. /\ vpc[v] \in {"push", "unsnap"} /\ vpc'[v] \in {"done", "unsnap", "unfund"}
            /\ UNCHANGED <<wallet, dbBalance>>
        BY <1>t, <2>7 DEF Push, PushTaskFails, Unsnap, GoTo
      <3>2. wallet[u] # Absent
        BY <1>k, <2>5, <3>1 DEF Funded
      <3>3. QED
        BY <1>0, <2>5, <3>1, <3>2
    <2>8. CASE Unfund(v)
      <3>1. /\ vpc[v] = "unfund" /\ vpc'[v] = "done" /\ UNCHANGED <<mlog, dbBalance>>
        BY <1>t, <2>8 DEF Unfund, GoTo
      <3>2. wallet' = [wallet EXCEPT ![u] = Absent]
        BY <1>a, <2>5, <2>8, <3>1 DEF Unfund, DeleteWallet
      <3>3. Counter(wallet'[u]) = 0
        BY <1>t, <3>2 DEF Counter
      <3>4. Limit(u)' = Limit(u) /\ Limit(u) \in Int
        BY <1>s, <2>5, <3>1, LimitTypes DEF Limit, HasRow
      <3>5. WithinLimit(u)'
        BY <1>k, <1>p, <3>3, <3>4 DEF WithinLimit
      <3>6. \A i \in DOMAIN mlog : mlog[i].user # u
        BY <2>5, <3>1 DEF Reserved, TasksBy
      <3>7. Unseen(u)' /\ Funded(u)'
        BY <2>5, <3>1, <3>6 DEF Unseen, Funded
      <3>8. QED
        BY <3>5, <3>7
    <2>9. QED
      BY <2>1, <2>2, <2>3, <2>4, <2>6, <2>7, <2>8 DEF Visit
  <1>3. QED
    BY <1>1, <1>2

\* The worker brings the row that the wallet has been filled for, and the wallet is there.
LEMMA MemberKeeps ==
  ASSUME Reserved, MemberStep, NEW u \in Users, Alone(u)'
  PROVE  WithinLimit(u)' /\ Unseen(u)' /\ Funded(u)'
  <1>t. /\ wallet \in [Users -> Int \cup {Absent}] /\ dbBalance \in [Users -> Int \cup {Absent}]
        /\ mlog \in Seq(MemberTask) /\ DOMAIN mlog = 1..Len(mlog) /\ Len(mlog) \in Nat
    BY DEF Reserved, ShopInductive, Inductive, TypeOK, StoreTypeOK, MemberGatewayTypeOK
  <1>s. /\ ShopInductive /\ [ShopNext]_shopVars /\ FoundLate /\ UNCHANGED tradeOnlyVars
        /\ UNCHANGED <<mlog, vpc, visitor, found>>
    BY DEF Reserved, ShopNext, MemberStep, visitVars
  <1>n. NewBalance \in Nat /\ NewBalance # Absent
    BY NewBalanceAssumption, MarkerAssumption
  <1>l. Alone(u) /\ Loaders(u)' = Loaders(u)
    BY <1>s, LoadersStay DEF Loaders
  <1>k. WithinLimit(u) /\ Unseen(u) /\ Funded(u)
    BY <1>l DEF Reserved, NewOnesKept
  <1>p. /\ Purse(u, Claims(Repaying)) \in Int /\ Counter(wallet[u]) \in Int
        /\ Purse(u, Claims(Repaying))'
             = Purse(u, Claims(Repaying)) - Counter(wallet[u]) + Counter(wallet'[u])
    BY <1>s, ShopStep, MembersPurse DEF Reserved
  <1>m. \A i \in DOMAIN mlog : mlog[i].user \in Users
    BY <1>s, TasksRemain
  <1>0. ASSUME wallet'[u] = wallet[u], dbBalance'[u] = dbBalance[u]
        PROVE  WithinLimit(u)' /\ Unseen(u)' /\ Funded(u)'
    <2>1. Purse(u, Claims(Repaying))' = Purse(u, Claims(Repaying))
      BY <1>0, <1>p
    <2>2. QED
      BY <1>0, <1>k, <1>l, <1>p, <1>s, <2>1, StillWithin
  <1>1. CASE CreateMember
    <2>1. PICK i \in mbatch : Insertable(mlog[i].user) /\ Insert(mlog[i].user, NewBalance)
      BY <1>1 DEF CreateMember, TakenAsDone
    <2>2. i \in DOMAIN mlog /\ mlog[i].user \in Users /\ wallet' = wallet
      BY <1>1, <1>m DEF Reserved, ShopInductive, MemberWorkerTypeOK, CreateMember
    <2>3. CASE mlog[i].user = u /\ ~HasRow(u)
      <3>1. dbBalance'[u] = NewBalance
        BY <1>t, <2>1, <2>3 DEF Insert
      <3>2. mlog[i].by \in Loaders(u) /\ vpc[mlog[i].by] = "done"
        BY <2>2, <2>3 DEF Reserved, TasksBy
      <3>3. Limit(u) = NewBalance
        BY <2>3, <3>2 DEF Limit
      <3>4. Limit(u)' = NewBalance
        BY <1>n, <3>1 DEF Limit, HasRow
      <3>5. Purse(u, Claims(Repaying))' = Purse(u, Claims(Repaying))
        BY <1>p, <2>2
      <3>6. WithinLimit(u)'
        BY <1>k, <3>3, <3>4, <3>5 DEF WithinLimit
      <3>7. \A v \in Loaders(u) : vpc[v] = "done"
        BY <1>l, <3>2 DEF Alone
      <3>8. Unseen(u)' /\ Funded(u)'
        BY <1>k, <1>l, <1>s, <2>2, <3>7 DEF Unseen, Funded
      <3>9. QED
        BY <3>6, <3>8
    <2>4. CASE ~(mlog[i].user = u /\ ~HasRow(u))
      <3>1. dbBalance'[u] = dbBalance[u]
        BY <1>t, <2>1, <2>4 DEF Insert
      <3>2. QED
        BY <1>0, <2>2, <3>1
    <2>5. QED
      BY <2>3, <2>4
  <1>2. CASE FundIfNone
    <2>1. mcur \in DOMAIN mlog
      BY <1>2, <1>t DEF FundIfNone, Reserved, ShopInductive, MemberWorkerTypeOK
    <2>2. dbBalance' = dbBalance
      BY <1>2 DEF FundIfNone
    <2>3. wallet'[u] = wallet[u]
      <3>1. CASE mlog[mcur].user = u
        <4>1. wallet[u] # Absent
          BY <1>k, <2>1, <3>1 DEF Funded
        <4>2. QED
          BY <1>2, <1>t, <3>1, <4>1 DEF FundIfNone, SetIfNone
      <3>2. CASE mlog[mcur].user # u
        BY <1>2, <1>m, <1>t, <2>1, <3>2 DEF FundIfNone, SetIfNone
      <3>3. QED
        BY <3>1, <3>2
    <2>4. QED
      BY <1>0, <2>2, <2>3
  <1>3. CASE ReadMembers \/ PassOver \/ SnapMember \/ AckMember
    <2>1. wallet' = wallet /\ dbBalance' = dbBalance
      BY <1>3 DEF ReadMembers, Loop!StartRead, Loop!Deliver, Loop!ReadNil, Loop!ReadError,
         Loop!Stop, Loop!dbVars, PassOver, SnapMember, AckMember
    <2>2. QED
      BY <1>0, <2>1
  <1>4. QED
    BY <1>1, <1>2, <1>3 DEF MemberStep, MemberWork

\* The pipeline and the process keep the purse within the balance, or within what the
\* balance will be.
LEMMA TradeKeeps ==
  ASSUME Reserved, NoDoubles, PricesWhole, PickupsOnly,
         TradeStep \/ ProcessStep \/ UNCHANGED shopVars, NEW u \in Users, Alone(u)'
  PROVE  WithinLimit(u)' /\ Unseen(u)' /\ Funded(u)'
  <1>t. /\ dbBalance \in [Users -> Int \cup {Absent}]
        /\ Limit(u) \in Int /\ NewBalance \in Nat
    BY LimitTypes, NewBalanceAssumption
    DEF Reserved, ShopInductive, Inductive, TypeOK, StoreTypeOK
  <1>s. /\ ShopInductive /\ [ShopNext]_shopVars /\ FoundLate /\ [Next]_vars
    BY TradeIsNext DEF Reserved, ShopNext, shopVars
  <1>v. /\ UNCHANGED <<visitor, found, mlog>>
        /\ \A v \in Visits : vpc'[v] = vpc[v] \/ (Visiting(v) /\ vpc'[v] = "dead")
    BY DEF TradeStep, ProcessStep, CutOff, StartMemberWorker, shopVars, memberVars, visitVars,
       Reserved, ShopInductive, MemberGatewayTypeOK
  <1>l. Alone(u) /\ Loaders(u)' = Loaders(u) /\ Loaders(u) \subseteq Visits
    BY <1>s, <1>v, LoadersStay DEF Loaders
  <1>k. WithinLimit(u) /\ Unseen(u) /\ Funded(u)
    BY <1>l DEF Reserved, NewOnesKept
  <1>r. HasRow(u)' <=> HasRow(u)
    BY <1>s, BookingOnly DEF ShopInductive
  <1>1. PICK d \in Int : d = Limit(u) - Counter(dbBalance[u])
    BY <1>t DEF Counter
  <1>2. Purse(u, Claims(Repaying)) <= Counter(dbBalance[u]) + d
    <2>1. Counter(dbBalance[u]) + d = Limit(u)
      BY <1>1, <1>t DEF Counter
    <2>2. QED
      BY <1>k, <2>1 DEF WithinLimit
  <1>3. Prepared' /\ Purse(u, Claims(Repaying))' <= Counter(dbBalance[u])' + d
    BY <1>2, <1>s, PurseStep DEF Reserved
  <1>4. /\ Counter(dbBalance[u])' + d <= Limit(u)' /\ Counter(dbBalance[u])' \in Int
        /\ Limit(u)' \in Int /\ Purse(u, Claims(Repaying))' \in Int
    <2>1. PICK S \in SUBSET DOMAIN log' : S = Claims(Repaying)'
      BY DEF Claims, Live
    <2>2. Counter(dbBalance[u])' \in Int /\ Purse(u, Claims(Repaying))' \in Int
      BY <1>3, <2>1, PurseTypes DEF PursesTyped, Purse
    <2>3. CASE HasRow(u)
      BY <1>1, <1>r, <1>t, <2>2, <2>3 DEF Limit, Counter, HasRow
    <2>4. CASE ~HasRow(u)
      <3>1. Counter(dbBalance[u]) = 0 /\ Counter(dbBalance[u])' = 0 /\ d = Limit(u)
        BY <1>1, <1>r, <1>t, <2>4 DEF Counter, HasRow
      <3>2. \A v \in Loaders(u) :
              vpc[v] \notin {"snap", "fund"} => vpc'[v] \notin {"snap", "fund"}
        BY <1>l, <1>v
      <3>3. Limit(u)' \in {Limit(u), NewBalance} /\ Limit(u) \in {0, NewBalance}
            /\ (Limit(u) = NewBalance => Limit(u)' = NewBalance)
        BY <1>l, <1>r, <2>4, <3>2 DEF Limit
      <3>4. QED
        BY <1>t, <2>2, <3>1, <3>3
    <2>5. QED
      BY <2>3, <2>4
  <1>5. WithinLimit(u)'
    BY <1>1, <1>3, <1>4 DEF WithinLimit
  <1>6. Unseen(u)'
    BY <1>k, <1>l, <1>r, <1>v DEF Unseen
  <1>7. Funded(u)'
    <2>1. wallet[u] # Absent => wallet'[u] # Absent
      BY <1>s, WalletsStayUp DEF Reserved
    <2>2. QED
      BY <1>k, <1>l, <1>v, <2>1 DEF Funded
  <1>8. QED
    BY <1>5, <1>6, <1>7

\* No wallet falls below zero, whoever fills it.
LEMMA ShopWallets ==
  ASSUME Reserved, NoDoubles, PricesWhole, PickupsOnly, [ShopNext]_shopVars
  PROVE  WalletsUp'
  <1>t. /\ wallet \in [Users -> Int \cup {Absent}]
        /\ \A u \in Users : Counter(wallet[u]) >= 0
    BY DEF Reserved, ShopInductive, Inductive, TypeOK, StoreTypeOK, WalletsUp
  <1>n. NewBalance \in Nat
    BY NewBalanceAssumption
  <1>1. ASSUME NEW x, NEW b, wallet' = [wallet EXCEPT ![x] = b], Counter(b) >= 0
        PROVE  WalletsUp'
    <2>1. \A u \in Users : wallet'[u] = wallet[u] \/ wallet'[u] = b
      BY <1>1, <1>t
    <2>2. \A u \in Users : Counter(wallet'[u]) >= 0
      BY <1>1, <1>t, <2>1
    <2>3. QED
      BY <2>2 DEF WalletsUp, Counter
  <1>2. CASE wallet' = wallet
    BY <1>2, <1>t DEF WalletsUp, Counter
  <1>3. ASSUME NEW v \in Visits, Visit(v)
        PROVE  WalletsUp'
    <2>1. CASE Fund(v)
      <3>1. PICK b \in Assign(wallet[visitor[v]], found[v].balance) :
              wallet' = [wallet EXCEPT ![visitor[v]] = b]
        BY <2>1 DEF Fund
      <3>2. b = wallet[visitor[v]] \/ b = found[v].balance
        BY AssignIsOne
      <3>3. visitor[v] \in Users /\ found[v].balance \in Int /\ found[v].balance >= 0
        BY <2>1 DEF Fund, Reserved, ShopInductive, MemberGatewayTypeOK, FoundLate
      <3>4. Counter(b) >= 0
        BY <1>t, <3>2, <3>3 DEF Counter
      <3>5. QED
        BY <1>1, <3>1, <3>4
    <2>2. CASE Unfund(v)
      <3>1. PICK b \in Assign(wallet[visitor[v]], Absent) :
              wallet' = [wallet EXCEPT ![visitor[v]] = b]
        BY <2>2 DEF Unfund, DeleteWallet
      <3>2. b = wallet[visitor[v]] \/ b = Absent
        BY AssignIsOne
      <3>3. visitor[v] \in Users
        BY <2>2 DEF Unfund, Reserved, ShopInductive, MemberGatewayTypeOK
      <3>4. Counter(b) >= 0
        BY <1>t, <3>2, <3>3 DEF Counter
      <3>5. QED
        BY <1>1, <3>1, <3>4
    <2>3. CASE ~Fund(v) /\ ~Unfund(v)
      BY <1>2, <1>3, <2>3 DEF Visit, Arrive, QueryFails, PlainLook, PlainInsert, PlainAgain, Hit,
         Look, Snap, Push, PushTaskFails, Unsnap
    <2>4. QED
      BY <2>1, <2>2, <2>3
  <1>4. CASE VisitStep
    BY <1>2, <1>3, <1>4 DEF VisitStep, Forget
  <1>5. CASE MemberStep
    <2>1. CASE FundIfNone
      <3>1. PICK b : b = IF wallet[mlog[mcur].user] = Absent THEN NewBalance
                                                             ELSE wallet[mlog[mcur].user]
        OBVIOUS
      <3>2. wallet' = wallet \/ wallet' = [wallet EXCEPT ![mlog[mcur].user] = b]
        BY <2>1, <3>1 DEF FundIfNone, SetIfNone
      <3>3. mcur \in DOMAIN mlog
        BY <2>1 DEF FundIfNone, Reserved, ShopInductive, MemberWorkerTypeOK, MemberGatewayTypeOK
      <3>4. mlog[mcur].user \in Users
        BY <3>3, TasksRemain DEF Reserved
      <3>5. Counter(b) >= 0
        BY <1>n, <1>t, <3>1, <3>4 DEF Counter
      <3>6. QED
        BY <1>1, <1>2, <3>2, <3>5
    <2>2. CASE ~FundIfNone
      BY <1>2, <1>5, <2>2 DEF MemberStep, MemberWork, ReadMembers, Loop!StartRead, Loop!Deliver,
         Loop!ReadNil, Loop!ReadError, Loop!Stop, CreateMember, PassOver, SnapMember, AckMember
    <2>3. QED
      BY <2>1, <2>2
  <1>6. CASE TradeStep \/ ProcessStep \/ UNCHANGED shopVars
    <2>1. [Next]_vars
      BY <1>6, TradeIsNext DEF shopVars
    <2>2. QED
      BY <2>1, WalletsStayUp DEF Reserved
  <1>7. QED
    BY <1>4, <1>5, <1>6 DEF ShopNext

\* Every step of the whole process.
LEMMA ReservedStep ==
  ASSUME Reserved, NoDoubles, PricesWhole, PickupsOnly, "redis" \notin Faults, NewBalance # 0,
         [ShopNext]_shopVars
  PROVE  Reserved'
  <1>1. ShopInductive' /\ DbNonNegative' /\ FoundLate' /\ TasksBy' /\ IsFiniteSet(Begun)'
        /\ WalletsUp'
    <2>1. ShopInductive' /\ FoundLate' /\ TasksBy' /\ IsFiniteSet(Begun)' /\ WalletsUp'
      BY ShopStep, FoundLateStep, TasksByStep, BegunStep, ShopWallets DEF Reserved
    <2>2. DbNonNegative'
      BY ShopNonNegative DEF Reserved
    <2>3. QED
      BY <2>1, <2>2
  <1>2. Prepared' /\ InHand'
    <2>1. CASE VisitStep \/ MemberStep
      <3>1. UNCHANGED tradeOnlyVars
        BY <2>1 DEF VisitStep, MemberStep
      <3>2. QED
        BY <1>1, <3>1, TradeAside DEF Reserved
    <2>2. CASE TradeStep \/ ProcessStep \/ UNCHANGED shopVars
      <3>1. [Next]_vars
        BY <2>2, TradeIsNext DEF shopVars
      <3>2. QED
        BY <3>1, InductiveStep, AddedUpStep, AsPricedStep, InHandStep DEF Reserved, Prepared
    <2>3. QED
      BY <2>1, <2>2 DEF ShopNext
  <1>3. NewOnesKept'
    <2> SUFFICES ASSUME NEW u \in Users, Alone(u)'
                 PROVE  WithinLimit(u)' /\ Unseen(u)' /\ Funded(u)'
      BY DEF NewOnesKept
    <2>1. CASE VisitStep
      <3>1. ASSUME NEW v \in Visits, Visit(v)
            PROVE  WithinLimit(u)' /\ Unseen(u)' /\ Funded(u)'
        BY <2>1, <3>1, VisitKeeps
      <3>2. ASSUME NEW w \in Users, Forget(w)
            PROVE  WithinLimit(u)' /\ Unseen(u)' /\ Funded(u)'
        <4>1. UNCHANGED <<vpc, visitor, found, wallet, mlog, dbBalance, tradeOnlyVars>>
          BY <2>1, <3>2 DEF Forget, visitVars, VisitStep
        <4>2. [ShopNext]_shopVars /\ ShopInductive /\ ShopInductive'
          BY <1>1 DEF Reserved
        <4>3. Alone(u) /\ Loaders(u)' = Loaders(u)
          BY <4>1 DEF Alone, Loaders
        <4>4. WithinLimit(u) /\ Unseen(u) /\ Funded(u)
          BY <4>3 DEF Reserved, NewOnesKept
        <4>5. /\ Purse(u, Claims(Repaying)) \in Int /\ Counter(wallet[u]) \in Int
              /\ Purse(u, Claims(Repaying))'
                   = Purse(u, Claims(Repaying)) - Counter(wallet[u]) + Counter(wallet'[u])
          BY <4>1, <4>2, MembersPurse DEF Reserved
        <4>6. Purse(u, Claims(Repaying))' = Purse(u, Claims(Repaying))
          BY <4>1, <4>5
        <4>7. QED
          BY <4>1, <4>2, <4>3, <4>4, <4>5, <4>6, StillWithin
      <3>3. QED
        BY <2>1, <3>1, <3>2 DEF VisitStep
    <2>2. CASE MemberStep
      BY <2>2, MemberKeeps
    <2>3. CASE TradeStep \/ ProcessStep \/ UNCHANGED shopVars
      BY <2>3, TradeKeeps
    <2>4. QED
      BY <2>1, <2>2, <2>3 DEF ShopNext
  <1>4. QED
    BY <1>1, <1>2, <1>3 DEF Reserved

\* A member who orders before the row is there is promised no more than the row will
\* hold, whichever of the visit, the calls and the two workers comes first.  Needed: whole
\* prices, carts of pickups, a balance for new members that is not zero (the code gives
\* 1000), wallets that open within their balances, a Redis that answers, and no command
\* that counts twice or by half and no COMMIT taken for a failure.
THEOREM ReservationsAreKept ==
  ASSUME NoDoubles, "redis" \notin Faults, PricesWhole, PickupsOnly, OpensCovered,
         NewBalance # 0
  PROVE  ShopSpec => []ReservationsKept
  <1>1. ShopInit => Reserved
    <2> SUFFICES ASSUME ShopInit
                 PROVE  Reserved
      OBVIOUS
    <2>1. Init /\ MemberInit
      BY DEF ShopInit
    <2>2. ShopInductive /\ Prepared /\ InHand
      BY <2>1, ShopStarts, InductiveInit, PurseInit DEF Prepared
    <2>3. DbNonNegative
      BY <2>1, OpeningAssumption, MarkerAssumption DEF Init, StoreInit, DbNonNegative
    <2>4. mlog = <<>> /\ \A v \in Visits : /\ vpc[v] = "idle"
                                          /\ found[v] = [balance |-> 0, row |-> FALSE]
      BY <2>1 DEF MemberInit
    <2>5. FoundLate /\ TasksBy
      BY <2>4 DEF FoundLate, TasksBy
    <2>6. IsFiniteSet(Begun)
      <3>1. Begun = {}
        BY <2>4 DEF Begun
      <3>2. QED
        BY <3>1, FS_EmptySet
    <2>7. WalletsUp
      <3>1. wallet = OpeningWallet
        BY <2>1 DEF Init, StoreInit
      <3>2. QED
        BY <3>1, OpeningAssumption DEF WalletsUp, Counter
    <2>8. NewOnesKept
      <3> SUFFICES ASSUME NEW u \in Users
                   PROVE  WithinLimit(u) /\ Unseen(u) /\ Funded(u)
        BY DEF NewOnesKept
      <3>1. Loaders(u) = {}
        BY <2>4 DEF Loaders
      <3>2. Limit(u) = Counter(dbBalance[u])
        BY <3>1 DEF Limit, Counter, HasRow
      <3>3. /\ Purse(u, Claims(Repaying)) = Counter(OpeningWallet[u])
            /\ Counter(dbBalance[u]) = Counter(OpeningBalance[u])
        BY <2>1, PurseInit
      <3>4. WithinLimit(u)
        BY <3>2, <3>3 DEF WithinLimit, OpensCovered
      <3>5. QED
        BY <2>4, <3>1, <3>4 DEF Unseen, Funded
    <2>9. QED
      BY <2>2, <2>3, <2>5, <2>6, <2>7, <2>8 DEF Reserved
  <1>2. Reserved /\ [ShopNext]_shopVars => Reserved'
    BY ReservedStep
  <1>3. Reserved => ReservationsKept
    <2> SUFFICES ASSUME Reserved, NEW u \in Users, Asks[u] = {"hit"},
                        Cardinality(Loaders(u)) <= 1, \A v \in Loaders(u) : ~found[v].row
                 PROVE  Counter(wallet[u]) + HeldMoney(u) + TaskMoney(u, Live) <= Due(u)
      BY DEF ReservationsKept
    <2>1. \A v, w \in Loaders(u) : v = w
      <3>1. Loaders(u) \subseteq Begun
        BY DEF Reserved, FoundLate, Loaders, Begun
      <3>2. IsFiniteSet(Loaders(u))
        BY <3>1, FS_Subset DEF Reserved
      <3>3. SUFFICES ASSUME NEW v \in Loaders(u), NEW w \in Loaders(u) \ {v}
                     PROVE  FALSE
        OBVIOUS
      <3>4. /\ IsFiniteSet(Loaders(u) \ {v}) /\ Cardinality(Loaders(u)) \in Nat
            /\ Cardinality(Loaders(u) \ {v}) = Cardinality(Loaders(u)) - 1
        BY <3>2, FS_RemoveElement, FS_CardinalityType
      <3>5. Cardinality(Loaders(u) \ {v}) = 0
        BY <3>4, FS_CardinalityType
      <3>6. Loaders(u) \ {v} = {}
        BY <3>4, <3>5, FS_EmptySet
      <3>7. QED
        BY <3>6
    <2>2. Purse(u, Claims(Repaying)) <= Limit(u)
      BY <2>1 DEF Alone, Reserved, NewOnesKept, WithinLimit
    <2>3. PICK S \in SUBSET DOMAIN log : S = Claims(Repaying)
      BY DEF Claims, Live
    <2>4. PICK T \in SUBSET S : T = Live
      BY <2>3 DEF Claims
    <2>5. TaskMoney(u, T) <= TaskMoney(u, S)
      BY FewerCosts DEF Reserved, Prepared
    <2>6. T \in SUBSET DOMAIN log
      OBVIOUS
    <2>7. /\ TaskMoney(u, T) \in Int /\ TaskMoney(u, S) \in Int /\ HeldMoney(u) \in Int
          /\ Counter(wallet[u]) \in Int
      BY <2>6, PurseTypes DEF PursesTyped, Reserved
    <2>8. Limit(u) \in Int /\ Limit(u) <= Due(u) /\ Due(u) \in Int
      <3>1. dbBalance \in [Users -> Int \cup {Absent}] /\ NewBalance \in Nat
        BY NewBalanceAssumption DEF Reserved, ShopInductive, Inductive, TypeOK, StoreTypeOK
      <3>2. Limit(u) \in Int
        BY LimitTypes DEF Reserved
      <3>3. CASE HasRow(u)
        BY <3>2, <3>3 DEF Limit, Due
      <3>4. CASE ~HasRow(u)
        BY <3>1, <3>4 DEF Limit, Due
      <3>5. QED
        BY <3>2, <3>3, <3>4
    <2>9. QED
      BY <2>2, <2>3, <2>4, <2>5, <2>7, <2>8 DEF Purse
  <1>4. QED
    BY <1>1, <1>2, <1>3, PTL DEF ShopSpec
=============================================================================

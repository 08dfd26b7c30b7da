-------------------------------- MODULE Shop --------------------------------
(***************************************************************************)
(* The whole process: the order pipeline and the member initialisation     *)
(* side by side, over one wallet counter and one member table, started and *)
(* stopped together (application.go: Serve registers both workers).        *)
(***************************************************************************)
EXTENDS TradeAccounts, MemberWorker

memberVars == <<snapshot, mlog, visitVars, memberWorkerVars>>
shopVars == <<vars, memberVars>>

\* What no step of a visit or of the member worker touches.
tradeOnlyVars == <<appVars, stock, lock, streamVars, dbStock, history,
                   gatewayVars, workerVars>>

ShopInit == Init /\ MemberInit /\ MemberWorkerInit

VisitStep ==
  /\ \/ \E v \in Visits : Visit(v)
     \/ \E u \in Users : Forget(u)
  /\ UNCHANGED <<memberWorkerVars, tradeOnlyVars>>

MemberStep == MemberWork /\ UNCHANGED <<mlog, visitVars, tradeOnlyVars>>

TradeStep == (GatewayStep \/ WorkerStep) /\ UNCHANGED memberVars

-----------------------------------------------------------------------------
\* The visits at work end with the process: at once in a crash, and five
\* seconds after GracefulStop in a shutdown.
CutOff ==
  /\ vpc' = [v \in Visits |-> IF Visiting(v) THEN "dead" ELSE vpc[v]]
  /\ mwpc' = "down"
  /\ UNCHANGED <<snapshot, mlog, visitor, found,
                 mdeleted, mcursor, mrpos, mbatch, mcur, refused>>

\* The member worker starts at "$" too.
StartMemberWorker ==
  /\ mwpc' = "loop"
  /\ mcursor' = Loop!StartId
  /\ mrpos' = 0
  /\ mbatch' = {}
  /\ mcur' = 0
  /\ UNCHANGED <<snapshot, mlog, visitVars, mdeleted, refused>>

ProcessStep ==
  \/ (Signal \/ GracefulStop) /\ UNCHANGED memberVars
  \/ (Exit \/ Crash) /\ CutOff
  \/ Restart /\ StartMemberWorker

ShopNext == VisitStep \/ MemberStep \/ TradeStep \/ ProcessStep

ShopSpec == ShopInit /\ [][ShopNext]_shopVars

-----------------------------------------------------------------------------
\* Every variable holds a value of its kind.
ShopTypeOK == TypeOK /\ MemberGatewayTypeOK /\ MemberWorkerTypeOK

\* A balance that exists in the database changes by booking only: whichever of
\* the visits and the worker inserts the row first, none of the others touches
\* it (ON CONFLICT DO NOTHING in MemberRepo.Create).
RowsKept ==
  [][\A u \in Users :
       HasRow(u) /\ dbBalance'[u] # dbBalance[u] => history' # history]_shopVars

\* No task of a new member gets lost on the way through the worker: one that is
\* deleted has brought its row, and one that the cursor moves past has brought it
\* or was refused by the database and is still in the stream.
MemberTasksKept ==
  [][/\ \A i \in mdeleted : HasRow(mlog[i].user)
     /\ mcursor' \notin {mcursor, Latest} =>
          \A i \in DOMAIN mlog :
            mrpos < i /\ i <= mcursor' => HasRow(mlog[i].user)' \/ i \in refused]_shopVars

\* A task for u's row is in the stream, or a visit of u is at one of these places.
Vouched(u, places) ==
  \/ \E i \in DOMAIN mlog \ mdeleted : mlog[i].user = u
  \/ \E v \in Visits : visitor[v] = u /\ vpc[v] \in places

\* A push that fails takes back what the visit has given (GetMemberMQ, lines
\* 111-116): while a member has no row, there is a snapshot or a wallet only with
\* the message for the row still in the stream, or under a visit that has not
\* answered.  (Whether the worker will take that message up is another matter:
\* one that the database refused, or that "$" has missed, stays where it is.)
\* It says nothing of members with a visit that was cut off with the process,
\* which leaves what it had written, nor of the wallet of one who has ordered,
\* which the refund of the order would bring back.
NothingUnvouched ==
  \A u \in Users :
    /\ ~HasRow(u)
    /\ \A v \in Visits : visitor[v] = u => vpc[v] # "dead"
    =>
      /\ snapshot[u] # Absent => Vouched(u, {"fund", "push", "unsnap"})
      /\ wallet[u] # Absent /\ (\A r \in Requests : order[r] = Absent \/ order[r].user # u)
           => Vouched(u, {"push", "unsnap", "unfund"})

\* Visits of u that went past the snapshot.
Loaders(u) ==
  {v \in Visits : visitor[v] = u /\ (found[v].row \/ found[v].balance # 0)}

\* What the counter may promise: a member without a row is due a new balance.
Due(u) == IF HasRow(u) THEN dbBalance[u] ELSE NewBalance

\* A member who orders before the row is written: the worker gives nothing back
\* that an order has reserved meanwhile.  It holds for a member with one visit
\* past the snapshot, as a new one, and none to GET /member.
ReservationsKept ==
  \A u \in Users :
    /\ Asks[u] = {"hit"}
    /\ Cardinality(Loaders(u)) <= 1
    /\ \A v \in Loaders(u) : ~found[v].row
    => Counter(wallet[u]) + HeldMoney(u) + TaskMoney(u, Live) <= Due(u)

\* Nothing is at work in the whole process.
AllQuiet ==
  /\ Quiet
  /\ \A v \in Visits : ~Visiting(v)
  /\ \A i \in DOMAIN mlog : HasRow(mlog[i].user)
  /\ mwpc \in {"loop", "reading"}

\* What the documents call eventual consistency, with the members in it.
QuietShopAgrees ==
  AllQuiet => \A u \in Users : Counter(wallet[u]) = Counter(dbBalance[u])
=============================================================================

----------------------------- MODULE MemberWorker ---------------------------
(***************************************************************************)
(* The member worker: the loop of MemberInitWorker.Start                   *)
(* (pkg/workers/member.go), which writes the rows of new members.  It      *)
(* reads its stream exactly as the trade worker does; a message goes       *)
(*                                                                         *)
(*   batch -> fund -> snap -> ack -> batch ... -> loop                     *)
(*                                                                         *)
(* unless its row cannot be inserted: then the loop goes on without        *)
(* deleting it and without moving the cursor.                              *)
(***************************************************************************)
EXTENDS MemberGateway

VARIABLES
  mdeleted,  \* ids that XDEL removed
  mwpc,      \* where the loop is
  mcursor,   \* lastIdx
  mrpos,     \* what the server made of it for the current XREAD
  mbatch,    \* ids of the last reply still to be handled
  mcur,      \* id of the message in hand, 0 if none
  refused    \* ids whose row could not be inserted

memberWorkerVars == <<mdeleted, mwpc, mcursor, mrpos, mbatch, mcur, refused>>

Loop == INSTANCE TradeWorker WITH
  log <- mlog, deleted <- mdeleted, wpc <- mwpc, cursor <- mcursor, rpos <- mrpos,
  batch <- mbatch, cur <- mcur, rejected <- refused

\* The end of a message's turn, or of a batch.
NextTurn(rest) == mwpc' = IF rest = {} THEN "loop" ELSE "batch"

\* Variant: the comparison with DUPLICATE_KEY (line 87) matches.
DuplicateIsDone(u) == TRUE

\* Which inserts the loop takes for done.  errors.Is never matches the new error
\* it is given, so a name that is taken counts as any other error.
TakenAsDone(u) == Insertable(u)

\* The row is inserted, or is there already.
CreateMember ==
  /\ mwpc = "batch"
  /\ \E i \in mbatch :
       /\ Loop!IsOldest(i)
       /\ TakenAsDone(mlog[i].user)
       /\ Insert(mlog[i].user, NewBalance)
       /\ Loop!Take(i)
  /\ mwpc' = "fund"
  /\ UNCHANGED <<mcursor, mrpos, refused, mdeleted, wallet, snapshot>>

\* Any other answer, or no answer: the message is passed over.
PassOver ==
  /\ mwpc = "batch"
  /\ \E i \in mbatch :
       /\ Loop!IsOldest(i)
       /\ ~TakenAsDone(mlog[i].user) \/ "db" \in Faults
       /\ mbatch' = mbatch \ {i}
       /\ refused' = refused \cup {i}
  /\ NextTurn(mbatch')
  /\ UNCHANGED <<mcursor, mrpos, mcur, mdeleted, wallet, snapshot, dbBalance>>

\* Variant: SET where the code has SETNX.
SetAlways(u) == wallet' = [wallet EXCEPT ![u] = NewBalance]

SetIfNone(u) == wallet' = [wallet EXCEPT ![u] = IF @ = Absent THEN NewBalance ELSE @]

\* SETNX of the wallet counter, with the worker's context.
FundIfNone ==
  /\ mwpc = "fund"
  /\ \E ok \in Loop!Reaches :
       IF ok THEN SetIfNone(mlog[mcur].user) ELSE UNCHANGED wallet
  /\ mwpc' = "snap"
  /\ UNCHANGED <<mcursor, mrpos, mbatch, mcur, refused, mdeleted, snapshot, dbBalance>>

\* SetMemberCache takes no context: it still works during a shutdown.
SnapMember ==
  /\ mwpc = "snap"
  /\ \E b \in Assign(snapshot[mlog[mcur].user], NewBalance) :
       snapshot' = [snapshot EXCEPT ![mlog[mcur].user] = b]
  /\ mwpc' = "ack"
  /\ UNCHANGED <<mcursor, mrpos, mbatch, mcur, refused, mdeleted, wallet, dbBalance>>

\* XDEL, whose error is ignored, and the cursor moves on.
AckMember ==
  /\ mwpc = "ack"
  /\ \E ok \in Loop!Reaches : mdeleted' = IF ok THEN mdeleted \cup {mcur} ELSE mdeleted
  /\ mcursor' = mcur
  /\ mcur' = 0
  /\ NextTurn(mbatch)
  /\ UNCHANGED <<mrpos, mbatch, refused, wallet, snapshot, dbBalance>>

ReadMembers ==
  /\ Loop!StartRead \/ Loop!Deliver \/ Loop!ReadNil \/ Loop!ReadError \/ Loop!Stop
  /\ UNCHANGED snapshot

MemberWork ==
  ReadMembers \/ CreateMember \/ PassOver \/ FundIfNone \/ SnapMember \/ AckMember

MemberWorkerInit == mdeleted = {} /\ Loop!WorkerInit

MemberWorkerTypeOK ==
  /\ mwpc \in {"down", "loop", "reading", "batch", "fund", "snap", "ack", "stopped"}
  /\ mdeleted \cup mbatch \cup refused \subseteq DOMAIN mlog
  /\ mcursor \in DOMAIN mlog \cup {Latest}
  /\ mrpos \in 0..Len(mlog)
  /\ mcur \in 0..Len(mlog)
  /\ mwpc \in {"fund", "snap", "ack"} => mcur # 0
=============================================================================

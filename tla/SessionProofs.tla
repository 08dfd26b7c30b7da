---------------------------- MODULE SessionProofs ---------------------------
(***************************************************************************)
(* Proofs about the sessions, for every set of users and calls and every   *)
(* set of faults.                                                          *)
(***************************************************************************)
EXTENDS Session, TLAPS

\* A login that has its stamp.
Stamped(l) == pc[l] \in {"cache", "time", "key", "done"}

\* A login whose stamp has been sent to the record.
Bound(l) == pc[l] \in {"key", "done"}

\* Every call is where calls of its kind go.
Placed ==
  /\ \A l \in Logins :
       pc[l] \in {"idle", "stamp", "cache", "time", "key", "done", "refused"}
  /\ \A r \in Renewals :
       pc[r] \in {"idle", "readTime", "readKey", "mint", "cache", "done", "refused"}
  /\ \A c \in Checks :
       pc[c] \in {"idle", "get", "compare", "drop", "verify", "refill", "refused",
                  "kicked", "accepted"}

\* A call that has begun has a user, and presents what an ended call of the same
\* user has issued.
Presented ==
  /\ given \in [Renewals \cup Checks -> Issuers \cup {Absent}]
  /\ \A c \in Calls : pc[c] # "idle" => user[c] \in Users
  /\ \A c \in Calls : \A l \in past[c] : pc[l] = "done" /\ user[l] = user[c]
  /\ \A r \in Renewals : pc[r] # "idle" =>
       given[r] \in Logins /\ pc[given[r]] = "done" /\ user[given[r]] = user[r]
  /\ \A c \in Checks : pc[c] # "idle" =>
       given[c] \in Issuers /\ pc[given[c]] = "done" /\ user[given[c]] = user[c]

\* Issued tokens have the stamp of a login.
Issued ==
  /\ \A l \in Logins : token[l] = stamp[l] /\ (stamp[l] # 0 <=> Stamped(l))
  /\ \A r \in Renewals : pc[r] = "mint" => read[r] # 0
  /\ \A r \in Renewals : pc[r] \in {"cache", "done"} => token[r] # 0

\* What a record holds comes from a login of its user that got so far.
Recorded ==
  /\ \A u \in Users : loginTime[u] # 0 =>
       \E l \in Logins : user[l] = u /\ Bound(l) /\ stamp[l] = loginTime[u]
  /\ \A u \in Users : refreshKey[u] # Absent => pc[refreshKey[u]] = "done"

\* A login that is no rival had ended before any other login of its user that is
\* still at work with the record got its stamp.
InTurn ==
  \A l \in Logins \ rivals, m \in Logins :
    l # m /\ user[l] = user[m] /\ Stamped(l) /\ Binding(m) =>
      pc[l] = "done" /\ stamp[l] < stamp[m]

\* Of a user with a sound record, the record is as new as every login that is no
\* rival and has written it.
UpToDate ==
  \A l \in Logins \ rivals : user[l] \notin blind =>
    /\ Bound(l) => loginTime[user[l]] >= stamp[l]
    /\ pc[l] = "key" => loginTime[user[l]] = stamp[l]
    /\ pc[l] = "done" =>
         refreshKey[user[l]] # Absent /\ stamp[refreshKey[user[l]]] >= stamp[l]

SessionInv ==
  /\ TypeOK /\ Placed /\ Presented /\ Issued /\ Recorded /\ InTurn /\ UpToDate
  /\ NewestNotKicked /\ OldIsOut /\ OldKeyIsOut /\ RecordIsWhole

-----------------------------------------------------------------------------
\* The actions, one by one: a case split over Next.
LEMMA Steps ==
  ASSUME [Next]_sessionVars
  PROVE  \/ UNCHANGED sessionVars
         \/ \E l \in Logins : LoginBegin(l)
         \/ \E l \in Logins : Stamp(l)
         \/ \E l \in Logins : LoginCache(l)
         \/ \E l \in Logins : BindTime(l)
         \/ \E l \in Logins : BindKey(l)
         \/ \E r \in Renewals : RenewBegin(r)
         \/ \E r \in Renewals : ReadTime(r)
         \/ \E r \in Renewals : ReadKey(r)
         \/ \E r \in Renewals : Mint(r)
         \/ \E r \in Renewals : RenewCache(r)
         \/ \E c \in Checks : CheckBegin(c)
         \/ \E c \in Checks : Get(c)
         \/ \E c \in Checks : CompareCached(c)
         \/ \E c \in Checks : Drop(c)
         \/ \E c \in Checks : CompareSigned(c)
         \/ \E c \in Checks : Refill(c)
         \/ \E i \in Issuers : QueryFails(i)
         \/ \E i \in Issuers : Lapse(i)
         \/ \E u \in Users : LapseRecord(u)
  BY DEF Next, Login, Renew, Check

\* A call of any kind begins.
Begins(c) ==
  \/ c \in Logins /\ LoginBegin(c)
  \/ c \in Renewals /\ RenewBegin(c)
  \/ c \in Checks /\ CheckBegin(c)

\* What no step takes back: a call keeps what it began with, a login its stamp
\* and an ended call its token.
LEMMA Kept ==
  ASSUME TypeOK, Placed, Presented, [Next]_sessionVars
  PROVE  /\ \A c \in Calls : pc[c] # "idle" =>
              pc'[c] # "idle" /\ user'[c] = user[c] /\ past'[c] = past[c]
         /\ \A c \in Calls : pc[c] = "idle" /\ pc'[c] # "idle" => Begins(c)
         /\ \A c \in Renewals \cup Checks : pc[c] # "idle" => given'[c] = given[c]
         /\ \A i \in Issuers : pc[i] = "done" => pc'[i] = "done" /\ token'[i] = token[i]
         /\ \A l \in Logins : Stamped(l) => Stamped(l)' /\ stamp'[l] = stamp[l]
         /\ \A l \in Logins : Bound(l) => Bound(l)'
         /\ rivals \subseteq rivals' /\ blind \subseteq blind'
  <1> DEFINE Same(c) == user'[c] = user[c] /\ past'[c] = past[c]
  <1>1. CASE \E c \in Calls : Begins(c)
    <2>1. PICK c \in Calls : Begins(c)
      BY <1>1
    <2>2. pc[c] = "idle" /\ pc'[c] # "idle" /\ \A d \in Calls \ {c} : pc'[d] = pc[d] /\ Same(d)
      BY <2>1 DEF Begins, LoginBegin, RenewBegin, CheckBegin, Begin, At, GoTo, Refuse, TypeOK
    <2>3. \A d \in Renewals \cup Checks : d # c => given'[d] = given[d]
      BY <2>1 DEF Begins, LoginBegin, RenewBegin, CheckBegin, Presented
    <2>4. UNCHANGED <<stamp, token, rivals, blind>>
      BY <2>1 DEF Begins, LoginBegin, RenewBegin, CheckBegin, tokenVars
    <2>5. QED
      BY <2>1, <2>2, <2>3, <2>4 DEF Stamped, Bound, Calls, Issuers
  <1>2. CASE \E l \in Logins : Stamp(l) \/ LoginCache(l) \/ BindTime(l) \/ BindKey(l)
    <2>1. PICK l \in Logins : Stamp(l) \/ LoginCache(l) \/ BindTime(l) \/ BindKey(l)
      BY <1>2
    <2>2. /\ UNCHANGED <<user, past, given>>
          /\ rivals \subseteq rivals' /\ blind \subseteq blind'
      BY <2>1 DEF Stamp, LoginCache, BindTime, BindKey, Note, historyVars, tokenVars
    <2>3. /\ \A d \in Calls \ {l} : pc'[d] = pc[d]
          /\ \/ pc[l] = "stamp" /\ pc'[l] = "cache"
             \/ pc[l] = "cache" /\ pc'[l] = "time"
             \/ pc[l] = "time" /\ pc'[l] = "key"
             \/ pc[l] = "key" /\ pc'[l] = "done"
      BY <2>1 DEF Stamp, LoginCache, BindTime, BindKey, At, GoTo, TypeOK, Calls, Issuers
    <2>4. /\ \A m \in Logins : pc[m] # "stamp" => stamp'[m] = stamp[m]
          /\ \A i \in Issuers : pc[i] # "stamp" => token'[i] = token[i]
      BY <2>1 DEF Stamp, LoginCache, BindTime, BindKey, tokenVars, At, TypeOK
    <2>5. QED
      BY <2>2, <2>3, <2>4 DEF Stamped, Bound, Calls, Issuers
  <1>3. CASE ~(\E c \in Calls : Begins(c))
             /\ ~(\E l \in Logins : Stamp(l) \/ LoginCache(l) \/ BindTime(l) \/ BindKey(l))
    <2>1. /\ UNCHANGED <<user, past, given, stamp, rivals>>
          /\ blind \subseteq blind'
          /\ \A i \in Issuers : pc[i] # "mint" => token'[i] = token[i]
      BY <1>3, Steps DEF Begins, Calls, Issuers, sessionVars, tokenVars, historyVars, ReadTime,
         ReadKey,
         Mint, RenewCache, Get, CompareCached, Compare, Note, Drop, CompareSigned, Refill,
         QueryFails, Lapse, LapseRecord, At, TypeOK
    <2>2. \A c \in Calls : \/ pc'[c] = pc[c]
                           \/ /\ c \notin Logins \/ pc[c] = "stamp"
                              /\ pc[c] \notin {"idle", "done"} /\ pc'[c] # "idle"
      <3>1. ASSUME NEW r \in Renewals, ReadTime(r) \/ ReadKey(r) \/ Mint(r) \/ RenewCache(r)
            PROVE  /\ pc[r] \notin {"idle", "done"} /\ pc'[r] # "idle" /\ r \notin Logins
                   /\ \A d \in Calls \ {r} : pc'[d] = pc[d]
        BY <3>1, CallsDisjoint DEF ReadTime, ReadKey, Mint, RenewCache, At, GoTo, Refuse, TypeOK,
           Calls, Issuers
      <3>2. ASSUME NEW c \in Checks,
                   Get(c) \/ CompareCached(c) \/ Drop(c) \/ CompareSigned(c) \/ Refill(c)
            PROVE  /\ pc[c] \notin {"idle", "done"} /\ pc'[c] # "idle" /\ c \notin Logins
                   /\ \A d \in Calls \ {c} : pc'[d] = pc[d]
        BY <3>2, CallsDisjoint DEF Get, CompareCached, Drop, CompareSigned, Refill, Compare, At,
           GoTo, Refuse, TypeOK, Calls, Issuers
      <3>3. ASSUME NEW i \in Issuers, QueryFails(i)
            PROVE  /\ pc[i] \notin {"idle", "done"} /\ pc'[i] # "idle"
                   /\ i \notin Logins \/ pc[i] = "stamp"
                   /\ \A d \in Calls \ {i} : pc'[d] = pc[d]
        BY <3>3, CallsDisjoint DEF QueryFails, GoTo, Refuse, TypeOK, Calls, Issuers, Placed
      <3>4. UNCHANGED sessionVars \/ (\E i \in Issuers : Lapse(i)) \/ (\E u \in Users : LapseRecord(u))
            => pc' = pc
        BY DEF sessionVars, Lapse, LapseRecord
      <3>5. QED
        BY <1>3, <3>1, <3>2, <3>3, <3>4, Steps DEF Begins, Calls, Issuers
    <2>3. QED
      BY <2>1, <2>2 DEF Stamped, Bound, Calls, Issuers
  <1>4. QED
    BY <1>1, <1>2, <1>3

-----------------------------------------------------------------------------
\* Every call stays where calls of its kind go.
LEMMA PlacedStep ==
  ASSUME TypeOK, Placed, [Next]_sessionVars
  PROVE  Placed'
  <1>t. pc \in [Calls -> {pc[c] : c \in Calls}]
    BY DEF TypeOK
  <1>1. ASSUME NEW l \in Logins,
               LoginBegin(l) \/ Stamp(l) \/ LoginCache(l) \/ BindTime(l) \/ BindKey(l)
        PROVE  Placed'
    BY <1>1, CallsDisjoint DEF LoginBegin, Stamp, LoginCache, BindTime, BindKey, GoTo, Refuse,
       TypeOK, Placed, Calls, Issuers
  <1>2. ASSUME NEW r \in Renewals,
               RenewBegin(r) \/ ReadTime(r) \/ ReadKey(r) \/ Mint(r) \/ RenewCache(r)
        PROVE  Placed'
    BY <1>2, CallsDisjoint DEF RenewBegin, ReadTime, ReadKey, Mint, RenewCache, GoTo, Refuse,
       TypeOK, Placed, Calls, Issuers
  <1>3. ASSUME NEW c \in Checks,
               CheckBegin(c) \/ Get(c) \/ CompareCached(c) \/ Drop(c) \/ CompareSigned(c)
                 \/ Refill(c)
        PROVE  Placed'
    BY <1>3, CallsDisjoint DEF CheckBegin, Get, CompareCached, Drop, CompareSigned, Refill,
       Compare, GoTo, Refuse, TypeOK, Placed, Calls, Issuers
  <1>4. ASSUME NEW i \in Issuers, QueryFails(i) PROVE Placed'
    BY <1>4, CallsDisjoint DEF QueryFails, GoTo, Refuse, TypeOK, Placed, Calls, Issuers
  <1>5. CASE pc' = pc
    BY <1>5 DEF Placed
  <1>6. QED
    BY <1>1, <1>2, <1>3, <1>4, <1>5, Steps DEF sessionVars, Lapse, LapseRecord

\* Every variable keeps its kind.
LEMMA TypeStep ==
  ASSUME TypeOK, Placed, Presented, Issued, [Next]_sessionVars
  PROVE  TypeOK'
  <1>1. ASSUME NEW l \in Logins, LoginBegin(l) \/ LoginCache(l) \/ BindTime(l) \/ BindKey(l)
        PROVE  TypeOK'
    <2>1. pc[l] # "idle" => user[l] \in Users
      BY DEF Presented, Calls, Issuers
    <2>2. pc[l] = "cache" => token[l] # 0
      BY DEF Issued, Stamped
    <2>3. CASE LoginBegin(l)
      BY <2>3, CallsDisjoint DEF LoginBegin, Begin, GoTo, Refuse, Finished, TypeOK, Calls, Issuers,
         recordVars, tokenVars
    <2>4. CASE LoginCache(l)
      BY <2>2, <2>4, CallsDisjoint DEF LoginCache, Cache, At, GoTo, TypeOK, Calls, Issuers,
         recordVars, historyVars
    <2>5. CASE BindTime(l)
      BY <2>1, <2>5, CallsDisjoint DEF BindTime, At, Note, GoTo, TypeOK, Calls, Issuers, tokenVars
    <2>6. CASE BindKey(l)
      BY <2>1, <2>6, CallsDisjoint DEF BindKey, NewKey, At, Note, GoTo, TypeOK, Calls, Issuers,
         tokenVars
    <2>7. QED
      BY <1>1, <2>3, <2>4, <2>5, <2>6
  <1>8. ASSUME NEW l \in Logins, Stamp(l) PROVE TypeOK'
    <2>1. 0..clock \subseteq 0..clock' /\ clock' \in 0..clock' /\ clock' # 0 /\ clock' \in Nat
      BY <1>8 DEF Stamp, TypeOK
    <2>2. /\ stamp' \in [Logins -> 0..clock'] /\ token' \in [Issuers -> 0..clock']
          /\ loginTime' \in [Users -> 0..clock'] /\ read' \in [Renewals -> 0..clock']
          /\ {i \in Issuers : token[i] # 0} \cup {l} \subseteq {i \in Issuers : token'[i] # 0}
      BY <1>8, <2>1 DEF Stamp, TypeOK, recordVars, Issuers
    <2>3. QED
      BY <1>8, <2>1, <2>2 DEF Stamp, GoTo, TypeOK, recordVars, Calls, Issuers
  <1>2. ASSUME NEW r \in Renewals,
               RenewBegin(r) \/ ReadTime(r) \/ ReadKey(r) \/ Mint(r) \/ RenewCache(r)
        PROVE  TypeOK'
    <2>1. pc[r] # "idle" => user[r] \in Users
      BY DEF Presented, Calls, Issuers
    <2>2. (pc[r] = "cache" => token[r] # 0) /\ (pc[r] = "mint" => read[r] # 0)
      BY DEF Issued
    <2>3. CASE RenewBegin(r)
      BY <2>3, CallsDisjoint DEF RenewBegin, Begin, At, GoTo, Finished, Presented, TypeOK, Calls,
         Issuers, recordVars, tokenVars
    <2>4. CASE ReadTime(r) \/ ReadKey(r)
      BY <2>1, <2>4, CallsDisjoint DEF ReadTime, ReadKey, At, GoTo, Refuse, TypeOK, Calls, Issuers,
         recordVars, tokenVars, historyVars
    <2>5. CASE Mint(r)
      BY <2>2, <2>5, CallsDisjoint DEF Mint, NewLoginAt, At, GoTo, TypeOK, Calls, Issuers,
         recordVars, historyVars
    <2>6. CASE RenewCache(r)
      BY <2>2, <2>6, CallsDisjoint DEF RenewCache, Cache, At, GoTo, TypeOK, Calls, Issuers,
         recordVars, historyVars
    <2>7. QED
      BY <1>2, <2>3, <2>4, <2>5, <2>6
  <1>3. ASSUME NEW c \in Checks,
               CheckBegin(c) \/ Get(c) \/ CompareCached(c) \/ Drop(c) \/ CompareSigned(c)
                 \/ Refill(c)
        PROVE  TypeOK'
    <2>1. pc[c] # "idle" => user[c] \in Users /\ given[c] \in Issuers /\ pc[given[c]] = "done"
      BY DEF Presented, Calls, Issuers
    <2>2. \A i \in Issuers : pc[i] = "done" => token[i] # 0
      BY DEF Issued, Stamped, Issuers
    <2>3. CASE CheckBegin(c)
      BY <2>3, CallsDisjoint DEF CheckBegin, Begin, At, GoTo, Finished, Presented, TypeOK, Calls,
         Issuers, recordVars, tokenVars
    <2>4. CASE Get(c) \/ CompareCached(c) \/ CompareSigned(c)
      BY <2>1, <2>4, CallsDisjoint DEF Get, CompareCached, CompareSigned, Compare, Note, At, GoTo,
         Refuse, TypeOK, Calls, Issuers, recordVars, tokenVars, historyVars
    <2>5. CASE Drop(c) \/ Refill(c)
      BY <2>1, <2>2, <2>5, CallsDisjoint DEF Drop, Refill, Cache, At, GoTo, TypeOK, Calls, Issuers,
         recordVars, historyVars
    <2>6. QED
      BY <1>3, <2>3, <2>4, <2>5
  <1>4. ASSUME NEW i \in Issuers, QueryFails(i) \/ Lapse(i) PROVE TypeOK'
    BY <1>4, CallsDisjoint DEF QueryFails, Lapse, GoTo, Refuse, TypeOK, Calls, Issuers, 
       recordVars, tokenVars, historyVars
  <1>5. ASSUME NEW u \in Users, LapseRecord(u) PROVE TypeOK'
    BY <1>5 DEF LapseRecord, Note, TypeOK, tokenVars
  <1>6. CASE UNCHANGED sessionVars
    BY <1>6 DEF sessionVars, recordVars, tokenVars, historyVars, TypeOK
  <1>7. QED
    BY <1>1, <1>2, <1>3, <1>4, <1>5, <1>6, <1>8, Steps

\* Calls keep what they present.
LEMMA PresentedStep ==
  ASSUME TypeOK, Placed, Presented, [Next]_sessionVars
  PROVE  Presented'
  <1>1. CASE \E c \in Calls : Begins(c)
    <2>1. PICK c \in Calls : Begins(c)
      BY <1>1
    <2>2. /\ pc[c] = "idle" /\ user'[c] \in Users
          /\ past'[c] = {l \in Finished : user[l] = user'[c]}
          /\ \A d \in Calls \ {c} : pc'[d] = pc[d] /\ user'[d] = user[d] /\ past'[d] = past[d]
      BY <2>1 DEF Begins, LoginBegin, RenewBegin, CheckBegin, Begin, At, GoTo, Refuse, TypeOK,
         Presented,
         Finished, Calls, Issuers
    <2>3. \A l \in Finished : l # c /\ l \in Calls /\ pc[l] = "done"
      BY <2>2 DEF Finished, At, Calls, Issuers
    <2>4. \A d \in Calls : \A l \in past'[d] : pc'[l] = "done" /\ user'[l] = user'[d]
      BY <2>2, <2>3 DEF Presented, TypeOK, Calls, Issuers
    <2>5. CASE c \in Logins /\ LoginBegin(c)
      <3>1. given' = given /\ c \notin Renewals \cup Checks
        BY <2>5, CallsDisjoint DEF LoginBegin, Issuers
      <3>2. QED
        BY <2>2, <2>4, <3>1 DEF Presented, Calls, Issuers
    <2>6. CASE c \in Renewals /\ RenewBegin(c)
      <3>1. PICK l \in Finished : /\ user' = [user EXCEPT ![c] = user[l]]
                                 /\ given' = [given EXCEPT ![c] = l]
        BY <2>6 DEF RenewBegin, Begin
      <3>2. /\ l \in Issuers /\ l \in Logins /\ pc'[l] = "done" /\ l # c
            /\ user'[l] = user'[c] /\ given'[c] = l
        BY <2>2, <2>3, <2>6, <3>1 DEF Finished, TypeOK, Presented, Calls, Issuers
      <3>3. QED
        BY <2>2, <2>4, <2>6, <3>1, <3>2, CallsDisjoint DEF Presented, Calls, Issuers
    <2>8. CASE c \in Checks /\ CheckBegin(c)
      <3>1. PICK i \in Issuers : /\ pc[i] = "done"
                                /\ user' = [user EXCEPT ![c] = user[i]]
                                /\ given' = [given EXCEPT ![c] = i]
        BY <2>8 DEF CheckBegin, Begin, At
      <3>2. pc'[i] = "done" /\ i # c /\ user'[i] = user'[c] /\ given'[c] = i
        BY <2>2, <2>8, <3>1 DEF TypeOK, Presented, Calls, Issuers
      <3>3. QED
        BY <2>2, <2>4, <2>8, <3>1, <3>2, CallsDisjoint DEF Presented, Calls, Issuers
    <2>7. QED
      BY <2>1, <2>5, <2>6, <2>8 DEF Begins
  <1>2. CASE ~(\E c \in Calls : Begins(c))
    <2>1. UNCHANGED <<user, past, given>>
      BY <1>2, Steps DEF Begins, Calls, Issuers, sessionVars, historyVars, Stamp, LoginCache,
         BindTime,
         BindKey, ReadTime, ReadKey, Mint, RenewCache, Get, CompareCached, Drop, CompareSigned,
         Refill, QueryFails, Lapse, LapseRecord
    <2>2. \A c \in Calls : pc[c] = "idle" => pc'[c] = "idle"
      BY <1>2, Kept
    <2>3. \A i \in Issuers : pc[i] = "done" => pc'[i] = "done"
      BY Kept
    <2>4. QED
      BY <2>1, <2>2, <2>3 DEF Presented, TypeOK, Calls, Issuers
  <1>3. QED
    BY <1>1, <1>2

\* A token is issued with the stamp of a login, or with one that was read.
LEMMA IssuedStep ==
  ASSUME TypeOK, Placed, Presented, Issued, [Next]_sessionVars
  PROVE  Issued'
  <1>1. ASSUME NEW l \in Logins, LoginBegin(l) \/ LoginCache(l) \/ BindTime(l) \/ BindKey(l)
        PROVE  Issued'
    BY <1>1, CallsDisjoint DEF LoginBegin, LoginCache, BindTime, BindKey, Begin, At, GoTo, Refuse,
       TypeOK, Placed, Issued, Stamped, Calls, Issuers, tokenVars
  <1>2. ASSUME NEW l \in Logins, Stamp(l) PROVE Issued'
    BY <1>2, CallsDisjoint DEF Stamp, At, GoTo, TypeOK, Placed, Issued, Stamped, Calls, Issuers
  <1>3. ASSUME NEW r \in Renewals, RenewBegin(r) \/ ReadTime(r) \/ ReadKey(r) \/ RenewCache(r)
        PROVE  Issued'
    BY <1>3, CallsDisjoint DEF RenewBegin, ReadTime, ReadKey, MayRenew, RenewCache, Begin, At, GoTo,
       Refuse, TypeOK, Placed, Issued, Stamped, Calls, Issuers, tokenVars
  <1>4. ASSUME NEW r \in Renewals, Mint(r) PROVE Issued'
    BY <1>4, CallsDisjoint DEF Mint, NewLoginAt, At, GoTo, TypeOK, Placed, Issued, Stamped, Calls,
       Issuers
  <1>5. ASSUME NEW c \in Checks,
               CheckBegin(c) \/ Get(c) \/ CompareCached(c) \/ Drop(c) \/ CompareSigned(c)
                 \/ Refill(c)
        PROVE  Issued'
    BY <1>5, CallsDisjoint DEF CheckBegin, Get, CompareCached, Drop, CompareSigned, Refill,
       Compare, Begin, At, GoTo, Refuse, TypeOK, Placed, Issued, Stamped, Calls, Issuers, tokenVars
  <1>6. ASSUME NEW i \in Issuers, QueryFails(i) PROVE Issued'
    BY <1>6, CallsDisjoint DEF QueryFails, At, GoTo, Refuse, TypeOK, Placed, Issued, Stamped,
       Calls, Issuers, tokenVars
  <1>7. CASE UNCHANGED <<stamp, token, pc, read>>
    BY <1>7 DEF Issued, Stamped
  <1>8. QED
    BY <1>1, <1>2, <1>3, <1>4, <1>5, <1>6, <1>7, Steps
       DEF sessionVars, tokenVars, Lapse, LapseRecord

\* The places a login goes through, and the command of each move.
LEMMA LoginMoves ==
  ASSUME TypeOK, Placed, [Next]_sessionVars, NEW l \in Logins
  PROVE  \/ pc'[l] = pc[l]
         \/ pc[l] \in {"idle", "stamp"} /\ pc'[l] \in {"stamp", "refused"}
         \/ pc[l] = "stamp" /\ pc'[l] = "cache" /\ Stamp(l)
         \/ pc[l] = "cache" /\ pc'[l] = "time" /\ LoginCache(l)
         \/ pc[l] = "time" /\ pc'[l] = "key" /\ BindTime(l)
         \/ pc[l] = "key" /\ pc'[l] = "done" /\ BindKey(l)
  <1>1. ASSUME NEW m \in Logins,
               LoginBegin(m) \/ Stamp(m) \/ LoginCache(m) \/ BindTime(m) \/ BindKey(m)
        PROVE  /\ m # l => pc'[l] = pc[l]
               /\ \/ pc[m] = "idle" /\ pc'[m] \in {"stamp", "refused"}
                  \/ pc[m] = "stamp" /\ pc'[m] = "cache" /\ Stamp(m)
                  \/ pc[m] = "cache" /\ pc'[m] = "time" /\ LoginCache(m)
                  \/ pc[m] = "time" /\ pc'[m] = "key" /\ BindTime(m)
                  \/ pc[m] = "key" /\ pc'[m] = "done" /\ BindKey(m)
    BY <1>1 DEF LoginBegin, Begin, Stamp, LoginCache, BindTime, BindKey, At, GoTo, Refuse,
       TypeOK, Calls,
       Issuers
  <1>2. ASSUME NEW i \in Issuers, QueryFails(i)
        PROVE  pc'[l] = pc[l] \/ (pc[l] = "stamp" /\ pc'[l] = "refused")
    BY <1>2 DEF QueryFails, GoTo, Refuse, TypeOK, Placed, Calls, Issuers
  <1>3. ASSUME NEW r \in Renewals,
               RenewBegin(r) \/ ReadTime(r) \/ ReadKey(r) \/ Mint(r) \/ RenewCache(r)
        PROVE  pc'[l] = pc[l]
    <2>1. \E p : pc' = [pc EXCEPT ![r] = p]
      BY <1>3 DEF RenewBegin, ReadTime, ReadKey, Mint, RenewCache, GoTo, Refuse
    <2>2. QED
      BY <2>1, CallsDisjoint DEF TypeOK, Calls, Issuers
  <1>4. ASSUME NEW c \in Checks,
               \/ CheckBegin(c) \/ Get(c) \/ CompareCached(c) \/ Drop(c)
               \/ CompareSigned(c) \/ Refill(c)
        PROVE  pc'[l] = pc[l]
    <2>1. \E p : pc' = [pc EXCEPT ![c] = p]
      BY <1>4 DEF CheckBegin, Get, CompareCached, Drop, CompareSigned, Refill, Compare, GoTo, Refuse
    <2>2. QED
      BY <2>1, CallsDisjoint DEF TypeOK, Calls, Issuers
  <1>5. QED
    BY <1>1, <1>2, <1>3, <1>4, Steps DEF sessionVars, Lapse, LapseRecord

\* The record changes by the two commands of a login, or when it lapses.
LEMMA RecordSteps ==
  ASSUME TypeOK, Placed, [Next]_sessionVars,
         ~ \E l \in Logins : BindTime(l) \/ BindKey(l),
         ~ \E u \in Users : LapseRecord(u)
  PROVE  /\ UNCHANGED recordVars
         /\ \A l \in Logins : (Bound(l)' => Bound(l)) /\ (pc'[l] = "key" => pc[l] = "key")
  <1>1. UNCHANGED recordVars
    BY Steps DEF sessionVars, LoginBegin, Stamp, LoginCache, RenewBegin, ReadTime, ReadKey, Mint,
       RenewCache, CheckBegin, Get, CompareCached, Drop, CompareSigned, Refill, QueryFails, Lapse
  <1>2. QED
    BY <1>1, LoginMoves DEF Bound

\* What a record holds comes from a login of its user.
LEMMA RecordedStep ==
  ASSUME TypeOK, Placed, Presented, Issued, Recorded, [Next]_sessionVars
  PROVE  Recorded'
  <1>t. loginTime \in [Users -> 0..clock] /\ refreshKey \in [Users -> Logins \cup {Absent}]
    BY DEF TypeOK
  <1>a. /\ \A l \in Logins : Bound(l) =>
              Bound(l)' /\ user'[l] = user[l] /\ stamp'[l] = stamp[l]
        /\ \A l \in Logins : pc[l] = "done" => pc'[l] = "done"
    BY Kept DEF Bound, Stamped, Calls, Issuers
  <1>1. ASSUME NEW l \in Logins, BindTime(l) PROVE Recorded'
    <2>1. user[l] \in Users /\ user' = user /\ stamp' = stamp /\ refreshKey' = refreshKey
      BY <1>1 DEF BindTime, At, Presented, Calls, Issuers
    <2>2. Bound(l)'
      BY <1>1 DEF BindTime, GoTo, TypeOK, Bound, Calls, Issuers
    <2>3. loginTime' = loginTime \/ loginTime' = [loginTime EXCEPT ![user[l]] = stamp[l]]
      BY <1>1, <1>t DEF BindTime
    <2>4. QED
      BY <1>t, <1>a, <2>1, <2>2, <2>3 DEF Recorded
  <1>2. ASSUME NEW l \in Logins, BindKey(l) PROVE Recorded'
    <2>1. user[l] \in Users /\ loginTime' = loginTime
      BY <1>2 DEF BindKey, At, Presented, Calls, Issuers
    <2>2. pc'[l] = "done"
      BY <1>2 DEF BindKey, GoTo, TypeOK, Calls, Issuers
    <2>3. refreshKey' = refreshKey \/ refreshKey' = [refreshKey EXCEPT ![user[l]] = l]
      BY <1>2, <1>t DEF BindKey, NewKey
    <2>4. QED
      BY <1>t, <1>a, <2>1, <2>2, <2>3 DEF Recorded
  <1>3. ASSUME NEW u \in Users, LapseRecord(u) PROVE Recorded'
    BY <1>3, <1>t, <1>a DEF LapseRecord, Recorded
  <1>4. CASE UNCHANGED recordVars
    BY <1>4, <1>t, <1>a DEF recordVars, Recorded
  <1>5. QED
    BY <1>1, <1>2, <1>3, <1>4, RecordSteps

\* A login that gets its stamp while another of its user is at work with the
\* record makes both of them rivals.
LEMMA InTurnStep ==
  ASSUME TypeOK, Placed, Presented, Issued, InTurn, [Next]_sessionVars
  PROVE  InTurn'
  <1>a. /\ \A c \in Calls : pc[c] # "idle" => user'[c] = user[c]
        /\ \A l \in Logins : Stamped(l) => stamp'[l] = stamp[l]
        /\ rivals \subseteq rivals'
        /\ \A l \in Logins : pc[l] = "done" => pc'[l] = "done"
    BY Kept DEF Issuers
  <1>1. ASSUME NEW l \in Logins, Stamp(l) PROVE InTurn'
    <2>1. /\ user' = user /\ pc' = [pc EXCEPT ![l] = "cache"] /\ pc[l] = "stamp"
          /\ stamp' = [stamp EXCEPT ![l] = clock + 1]
          /\ \A m \in Logins : user[m] = user[l] /\ Binding(m) => m \in rivals' /\ l \in rivals'
      BY <1>1 DEF Stamp, At, GoTo
    <2>2. \A m \in Logins : stamp[m] < clock + 1
      BY DEF TypeOK
    <2>3. \A m \in Logins : Binding(m)' => m = l \/ Binding(m)
      BY <2>1 DEF Binding, TypeOK, Calls, Issuers
    <2>4. \A m \in Logins : Stamped(m)' /\ m # l => Stamped(m)
      BY <2>1 DEF Stamped, TypeOK, Calls, Issuers
    <2>5. ASSUME NEW k \in Logins \ rivals', NEW m \in Logins,
                 k # m, user'[k] = user'[m], Stamped(k)', Binding(m)'
          PROVE  pc'[k] = "done" /\ stamp'[k] < stamp'[m]
      <3>1. CASE m = l
        <4>1. pc[k] = "done"
          BY <2>1, <2>4, <2>5, <3>1 DEF Stamped, Binding
        <4>2. QED
          BY <1>a, <2>1, <2>2, <2>5, <3>1, <4>1 DEF TypeOK
      <3>2. CASE m # l
        <4>1. Binding(m) /\ user[k] = user[m] /\ k # l
          BY <2>1, <2>3, <2>5, <3>2
        <4>2. QED
          BY <1>a, <2>1, <2>4, <2>5, <3>2, <4>1 DEF InTurn, TypeOK
      <3>3. QED
        BY <3>1, <3>2
    <2>6. QED
      BY <2>5 DEF InTurn
  <1>2. CASE ~ \E l \in Logins : Stamp(l)
    <2>1. \A l \in Logins : (Stamped(l)' => Stamped(l)) /\ (Binding(l)' => Binding(l))
      BY <1>2, LoginMoves DEF Stamped, Binding
    <2>2. \A l \in Logins : Binding(l) => Stamped(l) /\ pc[l] # "idle"
      BY DEF Stamped, Binding
    <2>3. \A l \in Logins : Stamped(l) => pc[l] # "idle"
      BY DEF Stamped
    <2>4. QED
      BY <1>a, <2>1, <2>2, <2>3 DEF InTurn, Calls, Issuers
  <1>3. QED
    BY <1>1, <1>2

\* The two commands of a login that is no rival leave the record as new as every
\* other one; nobody else touches the record of a user who is not blind.
LEMMA UpToDateStep ==
  ASSUME TypeOK, Placed, Presented, Issued, Recorded, InTurn, UpToDate, [Next]_sessionVars
  PROVE  UpToDate'
  <1>t. loginTime \in [Users -> 0..clock] /\ refreshKey \in [Users -> Logins \cup {Absent}]
        /\ stamp \in [Logins -> 0..clock] /\ clock \in Nat
    BY DEF TypeOK
  <1>a. /\ \A c \in Calls : pc[c] # "idle" => user'[c] = user[c]
        /\ \A l \in Logins : Stamped(l) => stamp'[l] = stamp[l]
        /\ rivals \subseteq rivals' /\ blind \subseteq blind'
        /\ \A l \in Logins : Bound(l) => Bound(l)' /\ user[l] \in Users /\ Stamped(l)
    BY Kept DEF Issuers, Bound, Stamped, Presented, Calls
  <1>1. ASSUME NEW m \in Logins, BindTime(m) PROVE UpToDate'
    <2>1. /\ user[m] \in Users /\ user' = user /\ stamp' = stamp /\ refreshKey' = refreshKey
          /\ Binding(m) /\ rivals' = rivals /\ pc[m] = "time" /\ pc' = [pc EXCEPT ![m] = "key"]
      BY <1>1 DEF BindTime, At, GoTo, Binding, Presented, Calls, Issuers
    <2>2. \/ loginTime' = [loginTime EXCEPT ![user[m]] = stamp[m]] /\ blind' = blind
          \/ user[m] \in blind' /\ loginTime' = loginTime
      BY <1>1, <1>t DEF BindTime, Note
    <2>3. ASSUME NEW l \in Logins \ rivals, user[l] \notin blind'
          PROVE  /\ Bound(l)' => loginTime'[user[l]] >= stamp[l]
                 /\ pc'[l] = "key" => loginTime'[user[l]] = stamp[l]
                 /\ pc'[l] = "done" =>
                      refreshKey[user[l]] # Absent /\ stamp[refreshKey[user[l]]] >= stamp[l]
      <3>1. CASE l = m
        BY <1>t, <2>1, <2>2, <2>3, <3>1 DEF TypeOK, Calls, Issuers
      <3>2. CASE l # m
        <4>1. pc'[l] = pc[l]
          BY <2>1, <3>2 DEF TypeOK
        <4>2. CASE Bound(l) /\ user[l] = user[m]
          <5>1. pc[l] = "done" /\ stamp[l] < stamp[m]
            BY <1>a, <2>1, <2>3, <3>2, <4>2 DEF InTurn
          <5>2. QED
            BY <1>t, <1>a, <2>1, <2>2, <2>3, <4>1, <4>2, <5>1 DEF UpToDate
        <4>3. CASE Bound(l) /\ user[l] # user[m]
          <5>1. loginTime'[user[l]] = loginTime[user[l]]
            BY <1>t, <1>a, <2>2, <4>3
          <5>2. QED
            BY <1>a, <2>3, <4>1, <4>3, <5>1 DEF UpToDate
        <4>4. QED
          BY <4>1, <4>2, <4>3 DEF Bound
      <3>3. QED
        BY <3>1, <3>2
    <2>4. QED
      BY <2>1, <2>3 DEF UpToDate
  <1>2. ASSUME NEW m \in Logins, BindKey(m) PROVE UpToDate'
    <2>1. /\ user[m] \in Users /\ user' = user /\ stamp' = stamp /\ loginTime' = loginTime
          /\ Binding(m) /\ rivals' = rivals /\ pc[m] = "key" /\ pc' = [pc EXCEPT ![m] = "done"]
      BY <1>2 DEF BindKey, At, GoTo, Binding, Presented, Calls, Issuers
    <2>2. \/ refreshKey' = [refreshKey EXCEPT ![user[m]] = m] /\ blind' = blind
          \/ user[m] \in blind' /\ refreshKey' = refreshKey
      BY <1>2, <1>t DEF BindKey, NewKey, Note
    <2>3. ASSUME NEW l \in Logins \ rivals, user[l] \notin blind'
          PROVE  /\ Bound(l)' => loginTime[user[l]] >= stamp[l]
                 /\ pc'[l] = "key" => loginTime[user[l]] = stamp[l]
                 /\ pc'[l] = "done" =>
                      refreshKey'[user[l]] # Absent /\ stamp[refreshKey'[user[l]]] >= stamp[l]
      <3>1. CASE l = m
        <4>1. pc'[l] = "done" /\ refreshKey'[user[l]] = l /\ user[l] \notin blind
          BY <1>t, <1>a, <2>1, <2>2, <2>3, <3>1 DEF TypeOK, Calls, Issuers
        <4>2. loginTime[user[l]] >= stamp[l] /\ stamp[l] >= stamp[l] /\ l # Absent
          BY <1>t, <2>1, <2>3, <3>1, <4>1, CallsDisjoint DEF UpToDate, Bound, Calls, Issuers
        <4>3. QED
          BY <4>1, <4>2
      <3>2. CASE l # m
        <4>1. pc'[l] = pc[l]
          BY <2>1, <3>2 DEF TypeOK
        <4>2. CASE Bound(l) /\ user[l] = user[m]
          <5>1. pc[l] = "done" /\ stamp[l] < stamp[m]
            BY <1>a, <2>1, <2>3, <3>2, <4>2 DEF InTurn
          <5>2. refreshKey'[user[l]] = m /\ m # Absent
            BY <1>t, <1>a, <2>1, <2>2, <2>3, <4>2, CallsDisjoint DEF Calls, Issuers
          <5>3. QED
            BY <1>t, <1>a, <2>1, <2>3, <4>1, <4>2, <5>1, <5>2 DEF UpToDate
        <4>3. CASE Bound(l) /\ user[l] # user[m]
          <5>1. refreshKey'[user[l]] = refreshKey[user[l]]
            BY <1>t, <1>a, <2>2, <4>3
          <5>2. QED
            BY <1>a, <2>3, <4>1, <4>3, <5>1 DEF UpToDate
        <4>4. QED
          BY <4>1, <4>2, <4>3 DEF Bound
      <3>3. QED
        BY <3>1, <3>2
    <2>4. QED
      BY <2>1, <2>3 DEF UpToDate
  <1>3. ASSUME NEW u \in Users, LapseRecord(u) PROVE UpToDate'
    <2>1. /\ UNCHANGED <<stamp, pc, user, rivals>> /\ u \in blind'
          /\ loginTime' = [loginTime EXCEPT ![u] = 0]
          /\ refreshKey' = [refreshKey EXCEPT ![u] = Absent]
      BY <1>3 DEF LapseRecord, Note
    <2>2. QED
      BY <1>t, <1>a, <2>1 DEF UpToDate, Bound
  <1>4. CASE /\ ~ \E l \in Logins : BindTime(l) \/ BindKey(l)
             /\ ~ \E u \in Users : LapseRecord(u)
    <2>1. UNCHANGED <<loginTime, refreshKey>>
      BY <1>4, RecordSteps DEF recordVars
    <2>2. \A l \in Logins : (Bound(l)' => Bound(l)) /\ (pc'[l] = "key" => pc[l] = "key")
                            /\ (pc'[l] = "done" => pc[l] = "done")
      BY <1>4, LoginMoves DEF Bound
    <2>3. \A l \in Logins : Bound(l) /\ refreshKey[user[l]] # Absent =>
            stamp'[refreshKey[user[l]]] = stamp[refreshKey[user[l]]]
      BY <1>t, <1>a DEF Recorded, Stamped
    <2>4. ASSUME NEW l \in Logins \ rivals', user'[l] \notin blind', Bound(l)'
          PROVE  /\ loginTime[user'[l]] >= stamp'[l]
                 /\ pc'[l] = "key" => loginTime[user'[l]] = stamp'[l]
                 /\ pc'[l] = "done" =>
                      refreshKey[user'[l]] # Absent /\ stamp'[refreshKey[user'[l]]] >= stamp'[l]
      <3>1. /\ Bound(l) /\ stamp'[l] = stamp[l] /\ user'[l] = user[l]
            /\ user[l] \notin blind /\ l \notin rivals
        BY <1>a, <2>2, <2>4 DEF Bound, Calls, Issuers
      <3>2. QED
        BY <2>2, <2>3, <3>1 DEF UpToDate
    <2>5. \A l \in Logins : pc'[l] \in {"key", "done"} => Bound(l)'
      BY DEF Bound
    <2>6. QED
      BY <2>1, <2>4, <2>5 DEF UpToDate
  <1>5. QED
    BY <1>1, <1>2, <1>3, <1>4

-----------------------------------------------------------------------------
\* How a check comes to its verdict.
LEMMA CheckMoves ==
  ASSUME TypeOK, [Next]_sessionVars, NEW c \in Checks
  PROVE  \/ pc'[c] = pc[c]
         \/ pc'[c] \in {"get", "compare", "verify", "refused"}
         \/ pc[c] = "compare" /\ CompareCached(c)
         \/ pc[c] = "verify" /\ CompareSigned(c)
         \/ pc[c] = "drop" /\ pc'[c] = "kicked"
         \/ pc[c] = "refill" /\ pc'[c] = "accepted"
  <1>1. ASSUME NEW d \in Checks,
               \/ CheckBegin(d) \/ Get(d) \/ CompareCached(d) \/ Drop(d)
               \/ CompareSigned(d) \/ Refill(d)
        PROVE  /\ d # c => pc'[c] = pc[c]
               /\ \/ pc'[d] \in {"get", "compare", "verify", "refused"}
                  \/ pc[d] = "compare" /\ CompareCached(d)
                  \/ pc[d] = "verify" /\ CompareSigned(d)
                  \/ pc[d] = "drop" /\ pc'[d] = "kicked"
                  \/ pc[d] = "refill" /\ pc'[d] = "accepted"
    <2>1. \E p : pc' = [pc EXCEPT ![d] = p]
      BY <1>1 DEF CheckBegin, Get, CompareCached, Drop, CompareSigned, Refill, Compare, GoTo, Refuse
    <2>2. CASE CheckBegin(d) \/ Get(d) \/ Drop(d) \/ Refill(d)
      BY <2>2 DEF CheckBegin, Get, Drop, Refill, At, GoTo, Refuse, TypeOK, Calls
    <2>3. CASE CompareCached(d) \/ CompareSigned(d)
      BY <2>1, <2>3 DEF CompareCached, CompareSigned, At, TypeOK, Calls
    <2>4. QED
      BY <1>1, <2>1, <2>2, <2>3 DEF TypeOK, Calls
  <1>2. ASSUME NEW i \in Issuers,
               \/ /\ i \in Logins
                  /\ LoginBegin(i) \/ Stamp(i) \/ LoginCache(i) \/ BindTime(i) \/ BindKey(i)
               \/ /\ i \in Renewals
                  /\ RenewBegin(i) \/ ReadTime(i) \/ ReadKey(i) \/ Mint(i) \/ RenewCache(i)
               \/ QueryFails(i)
        PROVE  pc'[c] = pc[c]
    <2>1. \E p : pc' = [pc EXCEPT ![i] = p]
      BY <1>2 DEF LoginBegin, Stamp, LoginCache, BindTime, BindKey, RenewBegin, ReadTime, ReadKey,
         Mint, RenewCache, QueryFails, GoTo, Refuse
    <2>2. QED
      BY <2>1, CallsDisjoint DEF TypeOK, Calls, Issuers
  <1>3. QED
    BY <1>1, <1>2, Steps DEF Issuers, sessionVars, Lapse, LapseRecord

\* What a check compares is settled when it begins.
LEMMA CheckKeeps ==
  ASSUME TypeOK, Placed, Presented, [Next]_sessionVars, NEW c \in Checks, pc[c] # "idle"
  PROVE  /\ user'[c] = user[c] /\ given'[c] = given[c] /\ past'[c] = past[c]
         /\ given[c] \in Issuers /\ token'[given[c]] = token[given[c]]
         /\ \A l \in past[c] : /\ pc[l] = "done" /\ user[l] = user[c]
                               /\ l \in Logins /\ stamp'[l] = stamp[l]
  BY Kept DEF Presented, TypeOK, Stamped, Calls

\* Whoever is thrown out has a token older than a login that reached the record.
LEMMA NewestNotKickedStep ==
  ASSUME TypeOK, Placed, Presented, Issued, Recorded, NewestNotKicked, [Next]_sessionVars
  PROVE  NewestNotKicked'
  <1> SUFFICES ASSUME NEW c \in Checks, pc'[c] \in {"drop", "kicked"}
               PROVE  \E l \in Logins : /\ user'[l] = user'[c]
                                        /\ pc'[l] \in {"key", "done"}
                                        /\ token'[given'[c]] < stamp'[l]
    BY DEF NewestNotKicked
  <1>a. \A l \in Logins : pc[l] \in {"key", "done"} =>
          user'[l] = user[l] /\ pc'[l] \in {"key", "done"} /\ stamp'[l] = stamp[l]
    BY Kept DEF Bound, Stamped, Calls, Issuers
  <1>1. CASE pc[c] \in {"drop", "kicked"}
    <2>1. PICK l \in Logins : /\ user[l] = user[c] /\ pc[l] \in {"key", "done"}
                             /\ token[given[c]] < stamp[l]
      BY <1>1 DEF NewestNotKicked
    <2>2. QED
      BY <1>1, <1>a, <2>1, CheckKeeps
  <1>2. CASE pc[c] \notin {"drop", "kicked"}
    <2>1. pc[c] \in {"compare", "verify"} /\ (CompareCached(c) \/ CompareSigned(c))
      BY <1>2, CheckMoves
    <2>2. Older(given[c], user[c])
      BY <1>2, <2>1 DEF CompareCached, CompareSigned, Compare, GoTo, TypeOK, Calls
    <2>3. PICK l \in Logins : user[l] = user[c] /\ Bound(l) /\ stamp[l] = loginTime[user[c]]
      BY <2>1, <2>2 DEF Older, Recorded, Presented, Calls
    <2>4. QED
      BY <1>a, <2>1, <2>2, <2>3, CheckKeeps DEF Older, Bound
  <1>3. QED
    BY <1>1, <1>2

\* Whoever is let in has a token as new as every login the record can show.
LEMMA OldIsOutStep ==
  ASSUME TypeOK, Placed, Presented, Issued, UpToDate, OldIsOut, [Next]_sessionVars
  PROVE  OldIsOut'
  <1> SUFFICES ASSUME NEW c \in Checks, pc'[c] \in {"refill", "accepted"},
                      NEW l \in Settled(c)'
               PROVE  token'[given'[c]] >= stamp'[l]
    BY DEF OldIsOut
  <1>1. pc[c] # "idle" /\ (pc[c] \in {"refill", "accepted"} \/ CompareCached(c) \/ CompareSigned(c))
    BY CheckMoves
  <1>2. l \in Settled(c) /\ user[c] \notin blind'
    BY <1>1, CheckKeeps, Kept DEF Settled
  <1>3. /\ l \in past[c] \ rivals /\ l \in Logins /\ pc[l] = "done" /\ user[l] = user[c]
        /\ user[c] \in Users /\ user[c] \notin blind
    BY <1>1, <1>2, CheckKeeps DEF Settled, Presented, Calls
  <1>4. token[given[c]] >= stamp[l]
    <2>1. CASE pc[c] \in {"refill", "accepted"}
      BY <1>2, <2>1 DEF OldIsOut
    <2>2. CASE CompareCached(c) \/ CompareSigned(c)
      <3>1. ~ Older(given[c], user[c])
        BY <1>2, <2>2 DEF CompareCached, CompareSigned, Compare, Note, GoTo, TypeOK, Calls
      <3>2. loginTime[user[c]] >= stamp[l] /\ stamp[l] # 0
        BY <1>3 DEF UpToDate, Bound, Issued, Stamped
      <3>3. /\ loginTime[user[c]] \in Int /\ stamp[l] \in Nat /\ token[given[c]] \in Int
        BY <1>1, <1>3, CheckKeeps DEF TypeOK
      <3>4. QED
        BY <3>1, <3>2, <3>3 DEF Older
    <2>3. QED
      BY <1>1, <2>1, <2>2
  <1>5. QED
    BY <1>1, <1>3, <1>4, CheckKeeps

\* How a renewal comes to a new token.
LEMMA RenewalMoves ==
  ASSUME TypeOK, [Next]_sessionVars, NEW r \in Renewals
  PROVE  \/ pc'[r] = pc[r]
         \/ pc'[r] \in {"readTime", "readKey", "refused"}
         \/ pc[r] = "readKey" /\ MayRenew(r) /\ recordVars' = recordVars /\ blind' = blind
         \/ pc[r] \in {"mint", "cache"}
  <1>1. ASSUME NEW q \in Renewals,
               RenewBegin(q) \/ ReadTime(q) \/ ReadKey(q) \/ Mint(q) \/ RenewCache(q)
        PROVE  /\ q # r => pc'[r] = pc[r]
               /\ \/ pc'[q] \in {"readTime", "readKey", "refused"}
                  \/ pc[q] = "readKey" /\ MayRenew(q) /\ recordVars' = recordVars /\ blind' = blind
                  \/ pc[q] \in {"mint", "cache"}
    BY <1>1 DEF RenewBegin, ReadTime, ReadKey, Mint, RenewCache, At, GoTo, Refuse, historyVars,
       TypeOK, Calls, Issuers
  <1>2. ASSUME NEW i \in Issuers, QueryFails(i)
        PROVE  pc'[r] = pc[r] \/ pc'[r] = "refused"
    BY <1>2 DEF QueryFails, GoTo, Refuse, TypeOK, Calls, Issuers
  <1>3. ASSUME NEW c \in Calls,
               \/ /\ c \in Logins
                  /\ LoginBegin(c) \/ Stamp(c) \/ LoginCache(c) \/ BindTime(c) \/ BindKey(c)
               \/ /\ c \in Checks
                  /\ \/ CheckBegin(c) \/ Get(c) \/ CompareCached(c) \/ Drop(c)
                     \/ CompareSigned(c) \/ Refill(c)
        PROVE  pc'[r] = pc[r]
    <2>1. \E p : pc' = [pc EXCEPT ![c] = p]
      BY <1>3 DEF LoginBegin, Stamp, LoginCache, BindTime, BindKey, CheckBegin, Get, CompareCached,
         Drop, CompareSigned, Refill, Compare, GoTo, Refuse
    <2>2. QED
      BY <1>3, <2>1, CallsDisjoint DEF TypeOK, Calls, Issuers
  <1>4. QED
    BY <1>1, <1>2, <1>3, Steps DEF Calls, Issuers, sessionVars, Lapse, LapseRecord

\* Whoever may renew has the key of a login as new as that.
LEMMA OldKeyIsOutStep ==
  ASSUME TypeOK, Placed, Presented, Issued, UpToDate, OldKeyIsOut, [Next]_sessionVars
  PROVE  OldKeyIsOut'
  <1> SUFFICES ASSUME NEW r \in Renewals, pc'[r] \in {"mint", "cache", "done"},
                      NEW l \in Settled(r)'
               PROVE  stamp'[given'[r]] >= stamp'[l]
    BY DEF OldKeyIsOut
  <1>1. /\ pc[r] # "idle"
        /\ pc[r] \in {"mint", "cache", "done"} \/ (MayRenew(r) /\ blind' = blind)
    BY RenewalMoves
  <1>2. /\ user'[r] = user[r] /\ given'[r] = given[r] /\ past'[r] = past[r]
        /\ given[r] \in Logins /\ stamp'[given[r]] = stamp[given[r]]
    BY <1>1, Kept DEF Presented, Stamped, Calls, Issuers
  <1>3. l \in past[r] /\ l \notin rivals /\ user[r] \notin blind
    BY <1>1, <1>2, Kept DEF Settled
  <1>4. /\ l \in Logins /\ pc[l] = "done" /\ user[l] = user[r] /\ stamp'[l] = stamp[l]
    BY <1>3, Kept DEF Presented, TypeOK, Stamped, Calls, Issuers
  <1>5. stamp[given[r]] >= stamp[l]
    BY <1>1, <1>3, <1>4 DEF OldKeyIsOut, Settled, UpToDate, MayRenew
  <1>6. QED
    BY <1>2, <1>4, <1>5

\* The two keys of a record come from one login.
LEMMA RecordIsWholeStep ==
  ASSUME TypeOK, Placed, Presented, Issued, Recorded, InTurn, UpToDate, RecordIsWhole,
         [Next]_sessionVars
  PROVE  RecordIsWhole'
  <1> SUFFICES ASSUME NEW u \in Users \ blind',
                      ~ \E l \in Logins : user'[l] = u /\ pc'[l] = "key",
                      refreshKey'[u] \notin rivals'
               PROVE  \/ refreshKey'[u] = Absent /\ loginTime'[u] = 0
                      \/ refreshKey'[u] # Absent /\ loginTime'[u] = stamp'[refreshKey'[u]]
    BY DEF RecordIsWhole
  <1>t. loginTime \in [Users -> 0..clock] /\ refreshKey \in [Users -> Logins \cup {Absent}]
    BY DEF TypeOK
  <1>a. /\ \A l \in Logins : pc[l] # "idle" => user'[l] = user[l]
        /\ \A l \in Logins : pc[l] = "done" => stamp'[l] = stamp[l]
        /\ u \notin blind /\ rivals \subseteq rivals'
    BY Kept DEF Stamped, Calls, Issuers
  <1>1. ASSUME NEW l \in Logins, BindTime(l), user[l] = u PROVE FALSE
    BY <1>1, <1>a DEF BindTime, At, GoTo, TypeOK, Calls, Issuers
  <1>2. CASE \E l \in Logins : BindKey(l) /\ user[l] = u
    <2>1. PICK l \in Logins : BindKey(l) /\ user[l] = u
      BY <1>2
    <2>2. pc[l] = "key" /\ refreshKey'[u] = l /\ loginTime' = loginTime /\ stamp' = stamp
      BY <1>t, <2>1 DEF BindKey, NewKey, Note, At
    <2>3. loginTime[u] = stamp[l] /\ l # Absent
      BY <1>a, <2>1, <2>2, CallsDisjoint DEF UpToDate, Calls, Issuers
    <2>4. QED
      BY <2>2, <2>3
  <1>3. CASE ~ \E l \in Logins : (BindTime(l) \/ BindKey(l)) /\ user[l] = u
    <2>1. loginTime'[u] = loginTime[u] /\ refreshKey'[u] = refreshKey[u]
      <3>1. CASE \E l \in Logins : (BindTime(l) \/ BindKey(l)) /\ user[l] # u
        BY <1>t, <3>1 DEF BindTime, BindKey
      <3>2. CASE \E w \in Users : LapseRecord(w)
        BY <1>t, <1>a, <3>2 DEF LapseRecord, Note
      <3>3. QED
        BY <1>3, <3>1, <3>2, RecordSteps DEF recordVars
    <2>2. ~ \E l \in Logins : user[l] = u /\ pc[l] = "key"
      BY <1>3, <1>a, LoginMoves
    <2>3. refreshKey[u] # Absent => stamp'[refreshKey[u]] = stamp[refreshKey[u]]
      BY <1>t, <1>a DEF Recorded
    <2>4. QED
      BY <1>a, <2>1, <2>2, <2>3 DEF RecordIsWhole
  <1>4. QED
    BY <1>1, <1>2, <1>3

-----------------------------------------------------------------------------
\* The invariant holds at the start.
LEMMA SessionInit == Init => SessionInv
  BY CallsDisjoint DEF Init, SessionInv, TypeOK, Placed, Presented, Issued, Stamped, Recorded,
     InTurn, UpToDate,
     Bound, Binding, NewestNotKicked, OldIsOut, OldKeyIsOut, RecordIsWhole, Calls, Issuers

\* Every step keeps it.
LEMMA SessionStep == SessionInv /\ [Next]_sessionVars => SessionInv'
  BY PlacedStep, TypeStep, PresentedStep, IssuedStep, RecordedStep, InTurnStep, UpToDateStep,
     NewestNotKickedStep, OldIsOutStep, OldKeyIsOutStep, RecordIsWholeStep DEF SessionInv

\* The inductive invariant, from which the others follow.
THEOREM SessionHolds == Spec => []SessionInv
  BY SessionInit, SessionStep, PTL DEF Spec

\* Every variable keeps its kind, and every token that was issued has the stamp of
\* a login (UserInfo.LoginAt of ExecuteLogin and of RefreshToken).
THEOREM SessionTypeCorrect == Spec => []TypeOK
  BY SessionHolds, PTL DEF SessionInv

\* Nobody is thrown out but by a login newer than the token (both comparisons of
\* HandleBearerTokenToUserInfo).
THEOREM NewestStays == Spec => []NewestNotKicked
  BY SessionHolds, PTL DEF SessionInv

\* After a login has answered, no older token of the user is let in, from the cache
\* or by its signature.
THEOREM OldTokensAreOut == Spec => []OldIsOut
  BY SessionHolds, PTL DEF SessionInv

\* Nor does an older refresh token bring a new one.
THEOREM OldKeysAreOut == Spec => []OldKeyIsOut
  BY SessionHolds, PTL DEF SessionInv

\* The two keys that BindUserLatestLoginTime sets belong to one login.
THEOREM RecordsAreWhole == Spec => []RecordIsWhole
  BY SessionHolds, PTL DEF SessionInv
=============================================================================

------------------------------- MODULE Session ------------------------------
(***************************************************************************)
(* One session per user: concurrent logins, renewals and checked requests  *)
(* over the user's login record in Redis (pkg/services/auth.go,            *)
(* HandleBearerTokenToUserInfo in pkg/transports/common.go).               *)
(*                                                                         *)
(*   login:   idle -> stamp -> cache -> time -> key -> done                *)
(*   renewal: idle -> readTime -> readKey -> mint -> cache -> done         *)
(*   check:   idle -> get -> compare -> accepted      (token in the cache) *)
(*                 \          \-> drop -> kicked                           *)
(*                  \-> verify -> refill -> accepted  (signature only)     *)
(*                            \-> kicked                                   *)
(*                                                                         *)
(* DELETE /sessions is a check, too: its handler panics after it, on a     *)
(* type assertion, and changes nothing.                                    *)
(*                                                                         *)
(* The record of a user is two keys, latest_login_time and refresh_token,  *)
(* written and read by separate commands.  A token is named after the call *)
(* that issued it, a refresh token after its login.                        *)
(***************************************************************************)
EXTENDS Integers

CONSTANTS
  Users,
  Logins, Renewals, Checks,  \* the calls (model values)
  Faults,  \* what may happen: "db", "redis" (errors), "lapse" (expiry)
  Absent

Issuers == Logins \cup Renewals
Calls == Issuers \cup Checks

ASSUME CallsDisjoint ==
  /\ Logins \cap Renewals = {}
  /\ Checks \cap Issuers = {}
  /\ Absent \notin Users \cup Calls

VARIABLES
  clock,       \* the last nanosecond stamp given out
  stamp,       \* the LoginAt of a login, 0 before it has one
  loginTime,   \* user:latest_login_time:<user>, 0 if there is none
  refreshKey,  \* user:refresh_token:<user>: the login that made it, or Absent
  token,       \* the LoginAt inside an issued token, 0 if there is none
  cached,      \* the tokens with a token:<jwt> key
  fresh,       \* the tokens whose thirty minutes are not over
  pc,          \* where a call is
  user,        \* its user
  given,       \* what the client presents: a login's key, or a token
  read,        \* the latest_login_time that a renewal has read
  past,        \* the logins finished when the call began
  rivals,      \* logins that wrote the record while another of the user did
  blind        \* users with a command on their record that failed or lapsed

recordVars == <<loginTime, refreshKey>>
tokenVars == <<token, cached, fresh>>
historyVars == <<past, rivals, blind>>
sessionVars == <<clock, stamp, recordVars, tokenVars, pc, user, given, read, historyVars>>

Init ==
  /\ clock = 0
  /\ stamp = [l \in Logins |-> 0]
  /\ loginTime = [u \in Users |-> 0]
  /\ refreshKey = [u \in Users |-> Absent]
  /\ token = [i \in Issuers |-> 0]
  /\ cached = {}
  /\ fresh = {}
  /\ pc = [c \in Calls |-> "idle"]
  /\ user = [c \in Calls |-> Absent]
  /\ given = [c \in Renewals \cup Checks |-> Absent]
  /\ read = [r \in Renewals |-> 0]
  /\ past = [c \in Calls |-> {}]
  /\ rivals = {}
  /\ blind = {}

At(c, l) == pc[c] = l
GoTo(c, l) == pc' = [pc EXCEPT ![c] = l]
Finished == {l \in Logins : At(l, "done")}

\* A call of u begins.
Begin(c, u) ==
  /\ At(c, "idle")
  /\ user' = [user EXCEPT ![c] = u]
  /\ past' = [past EXCEPT ![c] = {l \in Finished : user[l] = u}]

\* A query or the credentials are refused: the call ends with an error.
Refuse(c) == GoTo(c, "refused")

Binding(l) == pc[l] \in {"cache", "time", "key"}

\* Whether a Redis command whose error is ignored takes effect.
Outcomes == IF "redis" \in Faults THEN BOOLEAN ELSE {TRUE}
Note(u, ok) == blind' = IF ok THEN blind ELSE blind \cup {u}

\* SetUserToken.
Cache(i) == \E ok \in Outcomes : cached' = IF ok THEN cached \cup {i} ELSE cached

-----------------------------------------------------------------------------
\* The account is read and the password compared.
LoginBegin(l) ==
  /\ \E u \in Users : Begin(l, u)
  /\ GoTo(l, "stamp") \/ Refuse(l)
  /\ UNCHANGED <<clock, stamp, recordVars, tokenVars, given, read, rivals, blind>>

\* The permissions are read, LoginAt is stamped and the token signed.
Stamp(l) ==
  /\ At(l, "stamp")
  /\ clock' = clock + 1
  /\ stamp' = [stamp EXCEPT ![l] = clock']
  /\ token' = [token EXCEPT ![l] = clock']
  /\ fresh' = fresh \cup {l}
  /\ LET others == {m \in Logins : user[m] = user[l] /\ Binding(m)}
     IN rivals' = IF others = {} THEN rivals ELSE rivals \cup others \cup {l}
  /\ GoTo(l, "cache")
  /\ UNCHANGED <<recordVars, cached, user, given, read, past, blind>>

LoginCache(l) ==
  /\ At(l, "cache")
  /\ Cache(l)
  /\ GoTo(l, "time")
  /\ UNCHANGED <<clock, stamp, recordVars, token, fresh, user, given, read, historyVars>>

\* BindUserLatestLoginTime, first command.
BindTime(l) ==
  /\ At(l, "time")
  /\ \E ok \in Outcomes :
       /\ loginTime' = [loginTime EXCEPT ![user[l]] = IF ok THEN stamp[l] ELSE @]
       /\ Note(user[l], ok)
  /\ GoTo(l, "key")
  /\ UNCHANGED <<clock, stamp, refreshKey, tokenVars, user, given, read, past, rivals>>

\* Variant: SET with NX.
KeyIfNone(l) == IF refreshKey[user[l]] = Absent THEN l ELSE refreshKey[user[l]]

\* The value that the second command sets.
NewKey(l) == l

\* Second command; its error is ignored as well, and the login answers.
BindKey(l) ==
  /\ At(l, "key")
  /\ \E ok \in Outcomes :
       /\ refreshKey' = [refreshKey EXCEPT ![user[l]] = IF ok THEN NewKey(l) ELSE @]
       /\ Note(user[l], ok)
  /\ GoTo(l, "done")
  /\ UNCHANGED <<clock, stamp, loginTime, tokenVars, user, given, read, past, rivals>>

-----------------------------------------------------------------------------
\* A client presents the refresh token of a login that has answered.
RenewBegin(r) ==
  /\ \E l \in Finished :
       /\ Begin(r, user[l])
       /\ given' = [given EXCEPT ![r] = l]
  /\ GoTo(r, "readTime")
  /\ UNCHANGED <<clock, stamp, recordVars, tokenVars, read, rivals, blind>>

\* An error counts as no record: both end the renewal after the next command.
ReadTime(r) ==
  /\ At(r, "readTime")
  /\ \E ok \in Outcomes :
       read' = [read EXCEPT ![r] = IF ok THEN loginTime[user[r]] ELSE 0]
  /\ GoTo(r, "readKey")
  /\ UNCHANGED <<clock, stamp, recordVars, tokenVars, user, given, historyVars>>

\* Variant: the record need only exist.
AnyKey(r) == read[r] # 0 /\ refreshKey[user[r]] # Absent

MayRenew(r) == read[r] # 0 /\ refreshKey[user[r]] = given[r]

ReadKey(r) ==
  /\ At(r, "readKey")
  /\ \/ MayRenew(r) /\ GoTo(r, "mint")
     \/ (~MayRenew(r) \/ "redis" \in Faults) /\ Refuse(r)
  /\ UNCHANGED <<clock, stamp, recordVars, tokenVars, user, given, read, historyVars>>

\* Variant: LoginAt is left out of the new UserInfo.
NoLoginAt(r) == 0

\* The LoginAt of the new token: that of the record, not a stamp of its own.
NewLoginAt(r) == read[r]

\* The user, who must be active, and the permissions are read again.
Mint(r) ==
  /\ At(r, "mint")
  /\ token' = [token EXCEPT ![r] = NewLoginAt(r)]
  /\ fresh' = fresh \cup {r}
  /\ GoTo(r, "cache")
  /\ UNCHANGED <<clock, stamp, recordVars, cached, user, given, read, historyVars>>

RenewCache(r) ==
  /\ At(r, "cache")
  /\ Cache(r)
  /\ GoTo(r, "done")
  /\ UNCHANGED <<clock, stamp, recordVars, token, fresh, user, given, read, historyVars>>

\* A query of a login or a renewal reports an error.
QueryFails(i) ==
  /\ "db" \in Faults
  /\ pc[i] \in {"stamp", "mint"}
  /\ Refuse(i)
  /\ UNCHANGED <<clock, stamp, recordVars, tokenVars, user, given, read, historyVars>>

-----------------------------------------------------------------------------
\* A request comes with the token of a login or a renewal that has answered.
CheckBegin(c) ==
  /\ \E i \in Issuers :
       /\ At(i, "done")
       /\ Begin(c, user[i])
       /\ given' = [given EXCEPT ![c] = i]
  /\ GoTo(c, "get")
  /\ UNCHANGED <<clock, stamp, recordVars, tokenVars, read, rivals, blind>>

\* GetUserToken; an error is taken for a miss.  A miss needs a valid signature.
Get(c) ==
  /\ At(c, "get")
  /\ \/ given[c] \in cached /\ GoTo(c, "compare")
     \/ /\ given[c] \notin cached \/ "redis" \in Faults
        /\ IF given[c] \in fresh THEN GoTo(c, "verify") ELSE Refuse(c)
  /\ UNCHANGED <<clock, stamp, recordVars, tokenVars, user, given, read, historyVars>>

\* Variant: <= for <.
NotNewer(i, u) == loginTime[u] # 0 /\ token[i] <= loginTime[u]

\* The token of an older login, by the record of now.
Older(i, u) == loginTime[u] # 0 /\ token[i] < loginTime[u]

\* Both paths compare; a record that cannot be read lets the request pass.
Compare(c, ifOlder, else) ==
  \E ok \in Outcomes :
    /\ GoTo(c, IF ok /\ Older(given[c], user[c]) THEN ifOlder ELSE else)
    /\ Note(user[c], ok)

CompareCached(c) ==
  /\ At(c, "compare")
  /\ Compare(c, "drop", "accepted")
  /\ UNCHANGED <<clock, stamp, recordVars, tokenVars, user, given, read, past, rivals>>

\* DeleteUserToken.
Drop(c) ==
  /\ At(c, "drop")
  /\ \E ok \in Outcomes : cached' = IF ok THEN cached \ {given[c]} ELSE cached
  /\ GoTo(c, "kicked")
  /\ UNCHANGED <<clock, stamp, recordVars, token, fresh, user, given, read, historyVars>>

\* Variant: a signed token is put back without the comparison.
TrustSigned(c) ==
  /\ At(c, "verify")
  /\ GoTo(c, "refill")
  /\ UNCHANGED <<clock, stamp, recordVars, tokenVars, user, given, read, historyVars>>

CompareSigned(c) ==
  /\ At(c, "verify")
  /\ Compare(c, "kicked", "refill")
  /\ UNCHANGED <<clock, stamp, recordVars, tokenVars, user, given, read, past, rivals>>

Refill(c) ==
  /\ At(c, "refill")
  /\ Cache(given[c])
  /\ GoTo(c, "accepted")
  /\ UNCHANGED <<clock, stamp, recordVars, token, fresh, user, given, read, historyVars>>

-----------------------------------------------------------------------------
\* The half hour of a signature is over, and later that of a cache entry, which
\* was set after the signature and lasts as long or up to four minutes longer.
\* Neither call that issues a token lasts that long.
Lapse(i) ==
  /\ "lapse" \in Faults
  /\ At(i, "done")
  /\ \/ i \in fresh /\ fresh' = fresh \ {i} /\ UNCHANGED cached
     \/ i \in cached \ fresh /\ cached' = cached \ {i} /\ UNCHANGED fresh
  /\ UNCHANGED <<clock, stamp, recordVars, token, pc, user, given, read, historyVars>>

\* The seven days of a record are over.  No call lasts that long, nor does the
\* token that a login has issued.
LapseRecord(u) ==
  /\ "lapse" \in Faults
  /\ loginTime[u] # 0 \/ refreshKey[u] # Absent
  /\ \A c \in Calls :
       user[c] = u => /\ pc[c] \in {"done", "refused", "kicked", "accepted"}
                      /\ c \in Logins => c \notin cached \cup fresh
  /\ loginTime' = [loginTime EXCEPT ![u] = 0]
  /\ refreshKey' = [refreshKey EXCEPT ![u] = Absent]
  /\ Note(u, FALSE)
  /\ UNCHANGED <<clock, stamp, tokenVars, pc, user, given, read, past, rivals>>

Login(l) == LoginBegin(l) \/ Stamp(l) \/ LoginCache(l) \/ BindTime(l) \/ BindKey(l)
Renew(r) == RenewBegin(r) \/ ReadTime(r) \/ ReadKey(r) \/ Mint(r) \/ RenewCache(r)
Check(c) ==
  \/ CheckBegin(c) \/ Get(c) \/ CompareCached(c) \/ Drop(c)
  \/ CompareSigned(c) \/ Refill(c)

Next ==
  \/ \E l \in Logins : Login(l)
  \/ \E r \in Renewals : Renew(r)
  \/ \E c \in Checks : Check(c)
  \/ \E i \in Issuers : QueryFails(i) \/ Lapse(i)
  \/ \E u \in Users : LapseRecord(u)

Spec == Init /\ [][Next]_sessionVars

-----------------------------------------------------------------------------
\* Every variable holds a value of its kind; a token that was issued carries
\* the stamp of a login.
TypeOK ==
  /\ clock \in Nat
  /\ stamp \in [Logins -> 0..clock]
  /\ loginTime \in [Users -> 0..clock]
  /\ refreshKey \in [Users -> Logins \cup {Absent}]
  /\ token \in [Issuers -> 0..clock]
  /\ cached \subseteq {i \in Issuers : token[i] # 0}
  /\ fresh \subseteq {i \in Issuers : token[i] # 0}
  /\ pc \in [Calls -> {"idle", "stamp", "cache", "time", "key", "readTime", "readKey",
                       "mint", "get", "compare", "drop", "verify", "refill",
                       "done", "refused", "kicked", "accepted"}]
  /\ user \in [Calls -> Users \cup {Absent}]
  /\ \A r \in Renewals : given[r] \in Logins \cup {Absent}
  /\ \A c \in Checks : given[c] \in Issuers \cup {Absent}
  /\ read \in [Renewals -> 0..clock]
  /\ past \in [Calls -> SUBSET Logins]
  /\ rivals \subseteq Logins
  /\ blind \subseteq Users

\* The newest session is never thrown out: whoever is told that the account has
\* logged in elsewhere has a token older than a login that reached the record.
NewestNotKicked ==
  \A c \in Checks : pc[c] \in {"drop", "kicked"} =>
    \E l \in Logins :
      /\ user[l] = user[c]
      /\ pc[l] \in {"key", "done"}
      /\ token[given[c]] < stamp[l]

\* Logins that a call of a user with a sound record can rely on: they had ended
\* when it began, and no other login of the user wrote the record meanwhile.
Settled(c) == IF user[c] \in blind THEN {} ELSE past[c] \ rivals

\* The older session is out: a request that begins after a login has answered is
\* never accepted on a token from before it, from the cache or by signature.
OldIsOut ==
  \A c \in Checks : pc[c] \in {"refill", "accepted"} =>
    \A l \in Settled(c) : token[given[c]] >= stamp[l]

\* So is its refresh token: a renewal that begins after a login has answered
\* succeeds only with the key of that login or of a later one.
OldKeyIsOut ==
  \A r \in Renewals : pc[r] \in {"mint", "cache", "done"} =>
    \A l \in Settled(r) : stamp[given[r]] >= stamp[l]

\* The two keys of a record belong to one login when none is being written,
\* unless its key is of a login that another one of the user overlapped.
RecordIsWhole ==
  \A u \in Users \ blind :
    \/ \E l \in Logins : user[l] = u /\ pc[l] = "key"
    \/ refreshKey[u] \in rivals
    \/ refreshKey[u] = Absent /\ loginTime[u] = 0
    \/ refreshKey[u] # Absent /\ loginTime[u] = stamp[refreshKey[u]]
=============================================================================

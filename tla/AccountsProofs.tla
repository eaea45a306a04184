--------------------------- MODULE AccountsProofs ---------------------------
(***************************************************************************)
(* Proofs about Accounts, for any number of replicas, accounts, requests,  *)
(* tokens and password writes, and any length of a second.                 *)
(***************************************************************************)
EXTENDS Accounts, TLAPS

\* Truncating to a multiple of n keeps the order of two times
\* (TokenPredatesPasswordChange truncates the change to the second, Issue the
\* clock).
LEMMA TruncMonotone ==
    ASSUME NEW n \in Nat \ {0}, NEW a \in Nat, NEW b \in Nat, a <= b
    PROVE  a - (a % n) <= b - (b % n) /\ a - (a % n) <= a /\ a - (a % n) \in Int
  OBVIOUS

USE AccountsAssumption DEF Emails

-----------------------------------------------------------------------------
(* The inductive invariant.                                                *)

UserRows ==
    [role : {"none", "tenant_admin", "super_admin"}, pw : 0..MaxWrites, must : BOOLEAN,
     failed : 0..(MaxFailures - 1), locked : 0..(MaxClock + LockWindow), changed : 0..MaxClock]
Tokens == [user : Emails, aud : {"tenant", "platform"}, iat : Int, pw : 0..MaxWrites,
           raced : {"no", "yes"}]
Steps ==
    {"idle", "read", "wrong", "failed", "right", "issue", "verify", "route", "change", "reset",
     "changing", "resetting", "suspend", "activate", "delete"}
Requests ==
    [at : Steps, user : Emails \cup {NoUser}, pw : 0..MaxWrites, match : BOOLEAN,
     locked : 0..(MaxClock + LockWindow), found : BOOLEAN, active : BOOLEAN, time : 0..MaxClock]
Boots == [at : {"down", "count", "create", "serving"}, email : Emails \cup {NoUser}]

Types ==
    /\ users \in [Emails -> UserRows]
    /\ tenants \in [Admins -> {"active", "suspended", "deleted"}]
    /\ tokens \subseteq Tokens
    /\ boot \in [Replicas -> Boots]
    /\ lock \in Replicas \cup {NoUser}
    /\ calls \in [Calls -> Requests]
    /\ clock \in 1..MaxClock
    /\ writes \in 0..MaxWrites

\* Nothing carries a time to come; a request under way has a user, and an
\* address without a row has no lock.
Sane ==
    /\ \A tok \in tokens : tok.iat <= clock
    /\ \A e \in Emails : users[e].changed <= clock
    /\ \A e \in Emails : users[e].role = "none" => users[e].locked = 0
    /\ \A c \in Calls : calls[c].time <= clock
    /\ \A c \in Calls : calls[c].at # "idle" => calls[c].user \in Emails
    /\ \A c \in Calls : calls[c].at = "right" => ~calls[c].found

\* Requests and tokens come after the bootstrap.
ServedAfterBoot ==
    (tokens # {} \/ \E c \in Calls : calls[c].at # "idle") => Serving

\* The advisory lock: a replica between its count and its insert holds it, and
\* the count it acts on is still true.
BootUnderLock ==
    \A r \in Replicas :
        /\ boot[r].at \in {"count", "create"} => lock = r
        /\ boot[r].at = "create" => /\ boot[r].email \in Emails
                                    /\ \A e \in Emails : users[e].role # "super_admin"

\* A password about to be written is known to nobody else: no row, no token and
\* no other request carries it.
PendingIsFresh ==
    /\ \A e \in Emails : users[e].pw <= writes
    /\ \A tok \in tokens : tok.pw <= writes
    /\ \A c \in Calls : calls[c].pw <= writes
    /\ \A c \in Calls : calls[c].at \in {"changing", "resetting"} =>
          /\ calls[c].pw > 0
          /\ \A e \in Emails : users[e].pw # calls[c].pw
          /\ \A tok \in tokens : tok.pw # calls[c].pw
          /\ \A d \in Calls \ {c} : calls[d].pw # calls[c].pw

\* A token that was issued while no write of the password was under way is of the
\* password in force, or no later than the change in force and than those to come.
Traced ==
    /\ \A tok \in tokens : tok.iat <= Trunc(clock)
    /\ \A tok \in tokens : tok.raced = "no" /\ users[tok.user].role # "none" =>
          tok.pw = users[tok.user].pw \/ tok.iat <= Trunc(users[tok.user].changed)
    /\ \A tok \in tokens, d \in Calls :
          tok.raced = "no" /\ calls[d].at \in {"changing", "resetting"} /\ calls[d].user = tok.user
          => tok.iat <= Trunc(calls[d].time)

IInv ==
    /\ Types /\ Sane /\ ServedAfterBoot
    /\ BootUnderLock /\ OneSuperAdmin
    /\ PendingIsFresh /\ FreshTokenAccepted /\ Traced

-----------------------------------------------------------------------------
(* What an action makes of a request and of a row.                         *)

\* The fields of request c that the invariant speaks of; the others stand still.
Became(c, at, user, pw, found, time) ==
    /\ calls' \in [Calls -> Requests]
    /\ \A d \in Calls : d # c => calls'[d] = calls[d]
    /\ calls'[c].at = at /\ calls'[c].user = user /\ calls'[c].pw = pw
    /\ calls'[c].found = found /\ calls'[c].time = time

\* The fields of the record a handler carries its request in.
LEMMA RequestFields ==
    ASSUME NEW r \in Requests
    PROVE  /\ r.at \in Steps /\ r.user \in Emails \cup {NoUser} /\ r.pw \in 0..MaxWrites
           /\ r.match \in BOOLEAN /\ r.locked \in 0..(MaxClock + LockWindow)
           /\ r.found \in BOOLEAN /\ r.active \in BOOLEAN /\ r.time \in 0..MaxClock
  BY Zenon DEF Requests

\* The columns of a row of users.
LEMMA RowFields ==
    ASSUME NEW r \in UserRows
    PROVE  /\ r.role \in {"none", "tenant_admin", "super_admin"} /\ r.pw \in 0..MaxWrites
           /\ r.must \in BOOLEAN /\ r.failed \in 0..(MaxFailures - 1)
           /\ r.locked \in 0..(MaxClock + LockWindow) /\ r.changed \in 0..MaxClock
  BY Zenon DEF UserRows

\* One request is given a new record.
LEMMA BecameRecord ==
    ASSUME Types, NEW c \in Calls, NEW r \in Requests, calls' = [calls EXCEPT ![c] = r]
    PROVE  Became(c, r.at, r.user, r.pw, r.found, r.time)
  BY Zenon DEF Types, Became

\* Return: the request is idle again.
LEMMA BecameIdle ==
    ASSUME Types, NEW c \in Calls, Return(c)
    PROVE  Became(c, "idle", NoUser, 0, FALSE, 0)
<1>1. Idle \in Requests
  BY DEF Idle, Requests, Steps
<1> QED BY <1>1, BecameRecord, Zenon DEF Return, Idle

\* The request goes on to the next statement of its handler.
LEMMA BecameStep ==
    ASSUME Types, NEW c \in Calls, NEW at \in Steps, Step(c, at)
    PROVE  Became(c, at, calls[c].user, calls[c].pw, calls[c].found, calls[c].time)
<1> DEFINE r == [calls[c] EXCEPT !.at = at]
<1>1. calls[c] \in Requests
  BY Zenon DEF Types
<1>2. r \in Requests /\ r.at = at /\ r.user = calls[c].user /\ r.pw = calls[c].pw
      /\ r.found = calls[c].found /\ r.time = calls[c].time
  BY <1>1, Zenon DEF Requests
<1>3. calls' = [calls EXCEPT ![c] = r]
  BY Zenon DEF Step
<1> HIDE DEF r
<1>4. Became(c, r.at, r.user, r.pw, r.found, r.time)
  BY <1>2, <1>3, BecameRecord, Zenon
<1> QED BY <1>2, <1>4, Zenon

\* Login's decision on a row that was not locked.
LEMMA BecameFound ==
    ASSUME Types, NEW c \in Calls, NEW at \in Steps, NotLocked(c), Found(c, at)
    PROVE  Became(c, at, calls[c].user, calls[c].pw, FALSE, calls[c].time)
<1>1. (calls[c].locked > clock) = FALSE
  BY DEF NotLocked, IsLocked
<1> DEFINE r == [calls[c] EXCEPT !.at = at, !.locked = 0, !.found = FALSE]
<1>2. calls[c] \in Requests
  BY Zenon DEF Types
<1>3. r \in Requests
  <2>1. 0 \in 0..(MaxClock + LockWindow)
    OBVIOUS
  <2> QED BY <1>2, <2>1, Zenon DEF Requests
<1>4. r.at = at /\ r.user = calls[c].user /\ r.pw = calls[c].pw /\ r.time = calls[c].time
  BY <1>2, Zenon DEF Requests
<1>5. r.found = FALSE
  BY <1>2, Zenon DEF Requests
<1>6. calls' = [calls EXCEPT ![c] = r]
  BY <1>1, Zenon DEF Found, IsLocked
<1> HIDE DEF r
<1>7. Became(c, r.at, r.user, r.pw, r.found, r.time)
  BY <1>3, <1>6, BecameRecord, Zenon
<1> QED BY <1>4, <1>5, <1>7, Zenon

\* A request that a token admits.
LEMMA BecameAdmitted ==
    ASSUME Types, NEW c \in Calls, NEW tok, NEW at \in Steps, NEW user \in Emails,
           Admitted(c, tok, at, user)
    PROVE  Became(c, at, user, 0, FALSE, 0)
<1> DEFINE r == [Idle EXCEPT !.at = at, !.user = user]
<1>1. r \in Requests
  <2>1. 0 \in 0..MaxWrites /\ 0 \in 0..(MaxClock + LockWindow) /\ 0 \in 0..MaxClock
    OBVIOUS
  <2> QED BY <2>1, Zenon DEF Requests, Idle
<1>2. r.at = at /\ r.user = user /\ r.pw = 0 /\ r.found = FALSE /\ r.time = 0
  BY Zenon DEF Idle
<1>3. calls' = [calls EXCEPT ![c] = r]
  BY Zenon DEF Admitted
<1> HIDE DEF r
<1>4. Became(c, r.at, r.user, r.pw, r.found, r.time)
  BY <1>1, <1>3, BecameRecord, Zenon
<1> QED BY <1>2, <1>4, Zenon

\* A login that has read its user.
LEMMA BecameRead ==
    ASSUME Types, NEW c \in Calls, NEW u \in Emails, NEW match \in BOOLEAN, LoginRead(c, u, match)
    PROVE  \E pw \in {0, users[u].pw} : Became(c, "read", u, pw, FALSE, 0)
<1>1. \E active \in BOOLEAN : active = TenantActive(u)
  <2>1. (u \in Admins => tenants[u] = "active") \in BOOLEAN
    BY Zenon
  <2> QED BY <2>1, Zenon DEF TenantActive
<1> PICK active \in BOOLEAN : active = TenantActive(u)
  BY <1>1, Zenon
<1> DEFINE pw == IF match THEN users[u].pw ELSE 0
           r == [at |-> "read", user |-> u, pw |-> pw, match |-> match,
                 locked |-> users[u].locked, found |-> FALSE, active |-> active, time |-> 0]
<1>2. users[u] \in UserRows
  BY Zenon DEF Types
<1>3. pw \in 0..MaxWrites /\ pw \in {0, users[u].pw} /\ users[u].locked \in 0..(MaxClock + LockWindow)
  BY <1>2, RowFields
<1> HIDE DEF pw
<1>4. r \in Requests
  BY <1>3 DEF Requests, Steps
<1>5. calls' = [calls EXCEPT ![c] = r]
  BY Zenon DEF LoginRead, pw
<1>6. Became(c, r.at, r.user, r.pw, r.found, r.time)
  BY <1>4, <1>5, BecameRecord, Zenon
<1> QED BY <1>3, <1>6, Zenon

\* The failed attempt is counted.
LEMMA BecameFailed ==
    ASSUME Types, NEW c \in Calls, NEW locked \in 0..(MaxClock + LockWindow),
           NEW match \in BOOLEAN,
           calls' = [calls EXCEPT ![c].at = "failed", ![c].match = match, ![c].locked = locked]
    PROVE  Became(c, "failed", calls[c].user, calls[c].pw, calls[c].found, calls[c].time)
<1> DEFINE r == [calls[c] EXCEPT !.at = "failed", !.match = match, !.locked = locked]
<1>1. calls[c] \in Requests
  BY Zenon DEF Types
<1>2. r \in Requests
  BY <1>1, Zenon DEF Requests, Steps
<1>3. r.at = "failed" /\ r.user = calls[c].user /\ r.pw = calls[c].pw
      /\ r.found = calls[c].found /\ r.time = calls[c].time
  BY <1>1, Zenon DEF Requests
<1>4. calls' = [calls EXCEPT ![c] = r]
  BY Zenon
<1> HIDE DEF r
<1>5. Became(c, r.at, r.user, r.pw, r.found, r.time)
  BY <1>2, <1>4, BecameRecord, Zenon
<1> QED BY <1>3, <1>5, Zenon

\* The transaction of a password write has begun.
LEMMA BecamePending ==
    ASSUME Types, NEW c \in Calls, NEW at \in {"changing", "resetting"}, NEW pw \in 0..MaxWrites,
           NEW time \in 0..MaxClock,
           calls' = [calls EXCEPT ![c].at = at, ![c].pw = pw, ![c].time = time]
    PROVE  Became(c, at, calls[c].user, pw, calls[c].found, time)
<1> DEFINE r == [calls[c] EXCEPT !.at = at, !.pw = pw, !.time = time]
<1>1. calls[c] \in Requests
  BY Zenon DEF Types
<1>2. r \in Requests
  BY <1>1, Zenon DEF Requests, Steps
<1>3. r.at = at /\ r.user = calls[c].user /\ r.pw = pw /\ r.found = calls[c].found /\ r.time = time
  BY <1>1, Zenon DEF Requests
<1>4. calls' = [calls EXCEPT ![c] = r]
  BY Zenon
<1> HIDE DEF r
<1>5. Became(c, r.at, r.user, r.pw, r.found, r.time)
  BY <1>2, <1>4, BecameRecord, Zenon
<1> QED BY <1>3, <1>5, Zenon

\* The fields of the row of u that the invariant speaks of; the others stand.
RowBecame(u, role, pw, locked, changed) ==
    /\ users' \in [Emails -> UserRows]
    /\ \A e \in Emails : e # u => users'[e] = users[e]
    /\ users'[u].role = role /\ users'[u].pw = pw /\ users'[u].locked = locked
    /\ users'[u].changed = changed

\* One statement writes one row of users.
LEMMA RowRecord ==
    ASSUME Types, NEW u \in Emails, NEW r \in UserRows, users' = [users EXCEPT ![u] = r]
    PROVE  RowBecame(u, r.role, r.pw, r.locked, r.changed)
  BY Zenon DEF Types, RowBecame

\* createUser, updatePassword and the cascade of a deletion write a whole row.
LEMMA RowWritten ==
    ASSUME Types, NEW u \in Emails, NEW role \in {"none", "tenant_admin", "super_admin"},
           NEW pw \in 0..MaxWrites, NEW must \in BOOLEAN, NEW changed \in 0..MaxClock,
           users' = [users EXCEPT ![u] = Row(role, pw, must, changed)]
    PROVE  RowBecame(u, role, pw, 0, changed)
<1> DEFINE r == Row(role, pw, must, changed)
<1>1. r \in UserRows
  BY DEF UserRows, Row
<1>2. r.role = role /\ r.pw = pw /\ r.locked = 0 /\ r.changed = changed
  BY Zenon DEF Row
<1>3. users' = [users EXCEPT ![u] = r]
  OBVIOUS
<1> HIDE DEF r
<1>4. RowBecame(u, r.role, r.pw, r.locked, r.changed)
  BY <1>1, <1>3, RowRecord, Zenon
<1> QED BY <1>2, <1>4, Zenon

\* registerFailedLogin and clearLoginFailures touch the counter and the lock.
LEMMA RowCounted ==
    ASSUME Types, NEW u \in Emails, NEW failed \in 0..(MaxFailures - 1),
           NEW locked \in 0..(MaxClock + LockWindow),
           users' = [users EXCEPT ![u].failed = failed, ![u].locked = locked]
    PROVE  RowBecame(u, users[u].role, users[u].pw, locked, users[u].changed)
<1> DEFINE r == [users[u] EXCEPT !.failed = failed, !.locked = locked]
<1>1. users[u] \in UserRows
  BY Zenon DEF Types
<1>2. r \in UserRows
  BY <1>1, Zenon DEF UserRows
<1>3. r.role = users[u].role /\ r.pw = users[u].pw /\ r.locked = locked /\ r.changed = users[u].changed
  BY <1>1, Zenon DEF UserRows
<1>4. users' = [users EXCEPT ![u] = r]
  BY Zenon
<1> HIDE DEF r
<1>5. RowBecame(u, r.role, r.pw, r.locked, r.changed)
  BY <1>2, <1>4, RowRecord, Zenon
<1> QED BY <1>3, <1>5, Zenon

-----------------------------------------------------------------------------
(* Steps.                                                                  *)

\* Nobody is served, no super-admin exists, no token is out.
LEMMA InvariantInit == Init => IInv
<1> SUFFICES ASSUME Init PROVE IInv
  OBVIOUS
<1>1. /\ \A e \in Emails : users[e] = Row("tenant_admin", 0, FALSE, 0) \/ users[e] = NoRow
      /\ DOMAIN users = Emails /\ users = [e \in Emails |-> users[e]]
      /\ \A c \in Calls : calls[c] = Idle
  BY Zenon DEF Init
<1>2. Row("tenant_admin", 0, FALSE, 0) \in UserRows /\ NoRow \in UserRows /\ Idle \in Requests
  BY DEF UserRows, Row, NoRow, Requests, Steps, Idle
<1>3. Types
  <2>1. users \in [Emails -> UserRows] /\ calls \in [Calls -> Requests]
    BY <1>1, <1>2, Zenon DEF Init
  <2>2. tenants \in [Admins -> {"active", "suspended", "deleted"}] /\ boot \in [Replicas -> Boots]
    BY Zenon DEF Init, Boots
  <2>3. tokens = {} /\ lock = NoUser /\ clock = 1 /\ writes = 0
    BY Zenon DEF Init
  <2> QED BY <2>1, <2>2, <2>3 DEF Types
<1>4. \A e \in Emails : users[e].role # "super_admin" /\ users[e].pw = 0 /\ users[e].locked = 0
                          /\ users[e].changed = 0
  BY <1>1, SMTT(20) DEF Row, NoRow
<1>5. \A c \in Calls : calls[c].at = "idle" /\ calls[c].pw = 0 /\ calls[c].time = 0
  BY <1>1 DEF Idle
<1>6. tokens = {} /\ clock = 1 /\ writes = 0 /\ \A r \in Replicas : boot[r].at = "down"
  BY Zenon DEF Init
<1> QED BY <1>3, <1>4, <1>5, <1>6
        DEF IInv, Sane, ServedAfterBoot, BootUnderLock, OneSuperAdmin, SuperAdmins, PendingIsFresh,
            FreshTokenAccepted, Traced

\* A row keeps what identifies its owner and its password, or is gone.
RowKept(e) ==
    \/ /\ users'[e].role = users[e].role /\ users'[e].pw = users[e].pw
       /\ users'[e].changed = users[e].changed
       /\ users[e].role = "none" => users'[e].locked = 0
    \/ users'[e].role = "none" /\ users'[e].pw = 0 /\ users'[e].locked = 0 /\ users'[e].changed = 0

\* A handler that neither issues a token nor writes a password: it moves its
\* request on and leaves every row as RowKept says.
LEMMA QuietStep ==
    ASSUME IInv, NEW c \in Calls, NEW at \in Steps, NEW user, NEW found, NEW time \in 0..MaxClock,
           NEW pw \in 0..MaxWrites,
           Became(c, at, user, pw, found, time),
           at # "idle" => user \in Emails /\ Serving,
           at = "right" => ~found,
           at \notin {"changing", "resetting"},
           time <= clock,
           pw = 0 \/ pw = calls[c].pw \/ \E e \in Emails : pw = users[e].pw,
           users' \in [Emails -> UserRows], \A e \in Emails : RowKept(e),
           tenants' \in [Admins -> {"active", "suspended", "deleted"}],
           UNCHANGED <<tokens, boot, lock, clock, writes>>
    PROVE  IInv'
<1> USE DEF IInv
<1>1. Types'
  BY Zenon DEF Types, Became
<1>2. \A d \in Calls : d # c => calls'[d] = calls[d]
  BY Zenon DEF Became
<1>3. calls'[c].at = at /\ calls'[c].user = user /\ calls'[c].pw = pw /\ calls'[c].time = time
      /\ calls'[c].found = found
  BY Zenon DEF Became
<1>4. Sane'
  <2>1. \A e \in Emails : users'[e].changed <= clock /\ (users'[e].role = "none" => users'[e].locked = 0)
    BY DEF Sane, RowKept, Types
  <2>2. \A d \in Calls : /\ calls'[d].time <= clock
                         /\ calls'[d].at # "idle" => calls'[d].user \in Emails
                         /\ calls'[d].at = "right" => ~calls'[d].found
    BY <1>2, <1>3, Zenon DEF Sane
  <2> QED BY <2>1, <2>2, Zenon DEF Sane
<1>5. ServedAfterBoot'
  BY <1>2, <1>3, Zenon DEF ServedAfterBoot, Serving
<1>6. BootUnderLock' /\ OneSuperAdmin'
  BY DEF BootUnderLock, OneSuperAdmin, SuperAdmins, RowKept
<1>7. PendingIsFresh'
  <2>1. \A e \in Emails : users'[e].pw = users[e].pw \/ users'[e].pw = 0
    BY Zenon DEF RowKept
  <2>2. \A e \in Emails : users'[e].pw <= writes
    BY <2>1 DEF PendingIsFresh, Types
  <2>3. \A d \in Calls : calls'[d].pw <= writes
    BY <1>2, <1>3 DEF PendingIsFresh, Types
  <2>4. ASSUME NEW d \in Calls, calls'[d].at \in {"changing", "resetting"}
        PROVE  /\ calls'[d].pw > 0
               /\ \A e \in Emails : users'[e].pw # calls'[d].pw
               /\ \A tok \in tokens : tok.pw # calls'[d].pw
               /\ \A f \in Calls \ {d} : calls'[f].pw # calls'[d].pw
    <3>1. d # c /\ calls'[d] = calls[d]
      BY <1>2, <1>3, <2>4, Zenon
    <3>2. calls[d].pw > 0 /\ calls[d].pw \in Nat /\ \A e \in Emails : users[e].pw # calls[d].pw
      BY <2>4, <3>1, RequestFields DEF PendingIsFresh, Types
    <3>3. pw # calls[d].pw
      BY <2>4, <3>1, <3>2, SMTT(20) DEF PendingIsFresh
    <3> QED BY <1>2, <1>3, <2>1, <2>4, <3>1, <3>2, <3>3 DEF PendingIsFresh
  <2> QED BY <2>2, <2>3, <2>4, Zenon DEF PendingIsFresh
<1>8. FreshTokenAccepted'
  BY Zenon DEF FreshTokenAccepted, Exists, RowKept, TokenPredatesPasswordChange, Types, Tokens
<1>9. Traced'
  <2>1. \A d \in Calls : calls'[d].at \in {"changing", "resetting"} => calls'[d] = calls[d]
    BY <1>2, <1>3, Zenon
  <2>2. ASSUME NEW tok \in tokens, tok.raced = "no", users'[tok.user].role # "none"
        PROVE  tok.pw = users'[tok.user].pw \/ tok.iat <= Trunc(users'[tok.user].changed)
    <3>1. tok.user \in Emails
      BY Zenon DEF Types, Tokens
    <3>2. /\ users'[tok.user].role = users[tok.user].role /\ users'[tok.user].pw = users[tok.user].pw
          /\ users'[tok.user].changed = users[tok.user].changed
      BY <2>2, <3>1, Zenon DEF RowKept
    <3>3. tok.pw = users[tok.user].pw \/ tok.iat <= Trunc(users[tok.user].changed)
      BY <2>2, <3>2, Zenon DEF Traced
    <3> QED BY <3>2, <3>3, Zenon
  <2>3. \A tok \in tokens, d \in Calls :
          tok.raced = "no" /\ calls'[d].at \in {"changing", "resetting"} /\ calls'[d].user = tok.user
          => tok.iat <= Trunc(calls'[d].time)
    BY <2>1, Zenon DEF Traced
  <2> QED BY <2>2, <2>3, Zenon DEF Traced
<1> QED BY <1>1, <1>4, <1>5, <1>6, <1>7, <1>8, <1>9, Zenon

\* Time passes and tokens expire.
LEMMA TickStep == IInv /\ Tick => IInv'
<1> SUFFICES ASSUME IInv, Tick PROVE IInv'
  OBVIOUS
<1> USE DEF IInv
<1>1. /\ clock' = clock + 1 /\ clock' \in 1..MaxClock /\ tokens' \subseteq tokens
      /\ UNCHANGED <<users, tenants, boot, lock, calls, writes>>
  BY DEF Tick, Types
<1>2. Types'
  BY <1>1, Zenon DEF Types
<1>3. Sane'
  <2>1. \A tok \in tokens : tok.iat \in Int
    BY Zenon DEF Types, Tokens
  <2>2. \A e \in Emails : users[e].changed \in Int
    BY RowFields DEF Types
  <2>3. \A c \in Calls : calls[c].time \in Int
    BY RequestFields DEF Types
  <2> QED BY <1>1, <2>1, <2>2, <2>3 DEF Sane, Types
<1>4. ServedAfterBoot' /\ BootUnderLock' /\ OneSuperAdmin'
  BY <1>1, Zenon DEF ServedAfterBoot, BootUnderLock, OneSuperAdmin, SuperAdmins, Serving
<1>5. PendingIsFresh' /\ FreshTokenAccepted'
  BY <1>1, Zenon DEF PendingIsFresh, FreshTokenAccepted, Exists, TokenPredatesPasswordChange
<1>6. Traced'
  <2>1. Trunc(clock) <= Trunc(clock') /\ Trunc(clock) \in Int /\ Trunc(clock') \in Int
    <3>1. /\ clock \in Nat /\ clock' \in Nat /\ clock <= clock' /\ clock' <= clock'
          /\ Second \in Nat \ {0}
      BY <1>1 DEF Types
    <3> QED BY <3>1, TruncMonotone, Zenon DEF Trunc
  <2>2. \A tok \in tokens : tok.iat \in Int /\ tok.iat <= Trunc(clock)
    BY Zenon DEF Types, Tokens, Traced
  <2>3. \A tok \in tokens' : tok.iat <= Trunc(clock')
    <3>1. \A a, b, c \in Int : a <= b /\ b <= c => a <= c
      OBVIOUS
    <3> QED BY <1>1, <2>1, <2>2, <3>1, Zenon
  <2> QED BY <1>1, <2>3, Zenon DEF Traced
<1> QED BY <1>2, <1>3, <1>4, <1>5, <1>6, Zenon

\* A replica's boot: nobody is served yet, so there is no token to become stale.
LEMMA BootStep ==
    ASSUME IInv, NEW r \in Replicas, Bootstrap(r)
    PROVE  IInv'
<1> USE DEF IInv
<1>1. boot[r].at # "serving" /\ UNCHANGED <<tenants, tokens, calls, clock, writes>>
  BY Zenon DEF Bootstrap, BootLock, BootCount, BootCreate, Crash, NotAccounts
<1>2. tokens = {} /\ \A c \in Calls : calls[c].at = "idle"
  BY <1>1, Zenon DEF ServedAfterBoot, Serving
<1>3. ServedAfterBoot' /\ FreshTokenAccepted' /\ Traced'
  BY <1>1, <1>2, Zenon DEF ServedAfterBoot, FreshTokenAccepted, Traced
<1>4. ASSUME UNCHANGED users PROVE Sane' /\ OneSuperAdmin' /\ PendingIsFresh'
  BY <1>1, <1>4, Zenon DEF Sane, OneSuperAdmin, SuperAdmins, PendingIsFresh
<1>5. CASE BootLock(r)
  <2>1. Types'
    BY <1>1, <1>5 DEF Types, BootLock, Boots
  <2>2. BootUnderLock'
    BY <1>5 DEF BootLock, BootUnderLock, Types, Boots
  <2> QED BY <1>3, <1>4, <1>5, <2>1, <2>2, Zenon DEF BootLock
<1>6. CASE BootCount(r)
  <2>1. Types'
    BY <1>1, <1>6 DEF Types, BootCount, Boots, Goto
  <2>2. CASE SuperAdmins # {} \/ boot[r].email = NoUser
    <3>1. BootUnderLock'
      BY <1>6, <2>2 DEF BootCount, BootUnderLock, Types, Boots, Goto
    <3> QED BY <1>3, <1>4, <1>6, <2>1, <3>1, Zenon DEF BootCount
  <2>3. CASE SuperAdmins = {} /\ boot[r].email # NoUser
    <3>1. \A e \in Emails : users[e].role # "super_admin"
      BY <2>3, Zenon DEF SuperAdmins
    <3>2. BootUnderLock'
      BY <1>6, <2>3, <3>1 DEF BootCount, BootUnderLock, Types, Boots, Goto
    <3> QED BY <1>3, <1>4, <1>6, <2>1, <3>2, Zenon DEF BootCount
  <2> QED BY <2>2, <2>3, Zenon
<1>7. CASE BootCreate(r)
  <2>1. boot[r].email \in Emails /\ \A e \in Emails : users[e].role # "super_admin"
    BY <1>7, Zenon DEF BootCreate, BootUnderLock
  <2>2. \A q \in Replicas : q # r => boot[q].at \notin {"count", "create"}
    BY <1>7, Zenon DEF BootCreate, BootUnderLock
  <2>3. boot' \in [Replicas -> Boots] /\ lock' = NoUser
        /\ \A q \in Replicas : boot'[q].at \notin {"count", "create"}
    BY <1>7, <2>2 DEF BootCreate, Goto, Types, Boots
  <2>4. BootUnderLock'
    BY <2>3, Zenon DEF BootUnderLock
  <2>5. CASE UNCHANGED users
    BY <1>1, <1>3, <1>4, <2>3, <2>4, <2>5, Zenon DEF Types
  <2>6. CASE users' = CreateUser(boot[r].email, "super_admin")
    <3> DEFINE u == boot[r].email
    <3>1. clock \in 0..MaxClock /\ 0 \in 0..MaxWrites
      BY DEF Types
    <3>2. RowBecame(u, "super_admin", 0, 0, clock)
      BY <2>1, <2>6, <3>1, RowWritten, Zenon DEF CreateUser
    <3>3. Types'
      BY <1>1, <2>3, <3>2, Zenon DEF Types, RowBecame
    <3>4. Sane'
      BY <1>1, <2>1, <3>2 DEF Sane, RowBecame, Types
    <3>5. OneSuperAdmin'
      BY <2>1, <3>2, Zenon DEF OneSuperAdmin, SuperAdmins, RowBecame
    <3>6. PendingIsFresh'
      BY <1>1, <1>2, <2>1, <3>2 DEF PendingIsFresh, RowBecame, Types
    <3> QED BY <1>3, <2>4, <3>3, <3>4, <3>5, <3>6, Zenon
  <2> QED BY <1>7, <2>5, <2>6, Zenon DEF BootCreate
<1>8. CASE Crash(r)
  <2>1. Types'
    BY <1>1, <1>8, Zenon DEF Types, Crash, Boots, Goto
  <2>2. BootUnderLock'
    BY <1>8, Zenon DEF Crash, BootUnderLock, Types, Boots, Goto
  <2> QED BY <1>3, <1>4, <1>8, <2>1, <2>2, Zenon DEF Crash
<1> QED BY <1>5, <1>6, <1>7, <1>8, Zenon DEF Bootstrap

\* LoginIssue: the token's second is not before the one of any change so far.
LEMMA IssueStep ==
    ASSUME IInv, NEW c \in Calls, LoginIssue(c)
    PROVE  IInv'
<1> USE DEF IInv
<1> DEFINE tok == Issue(calls[c].user, calls[c].pw)
<1>1. calls[c].at = "issue" /\ calls[c] \in Requests /\ calls[c].user \in Emails
  BY Zenon DEF LoginIssue, Sane, Types
<1>2. Trunc(clock) \in Int /\ Trunc(clock) <= clock
  BY TruncMonotone DEF Types, Trunc
<1>3. tok \in Tokens /\ tok.user = calls[c].user /\ tok.iat = Trunc(clock) /\ tok.pw = calls[c].pw
  BY <1>1, <1>2, RequestFields, Zenon DEF Issue, Tokens
<1>4. /\ tokens' = tokens \cup {tok} /\ UNCHANGED <<users, tenants, writes, boot, lock, clock>>
      /\ Became(c, "idle", NoUser, 0, FALSE, 0)
  BY BecameIdle, Zenon DEF LoginIssue, NotBoot
<1>5. ~TokenPredatesPasswordChange(users[tok.user], tok)
  <2>1. users[tok.user].changed \in Nat /\ clock \in Nat /\ users[tok.user].changed <= clock
    BY <1>1, <1>3, RowFields, SMTT(20) DEF Types, Sane
  <2>2. Trunc(users[tok.user].changed) <= Trunc(clock) /\ Trunc(users[tok.user].changed) \in Int
    BY <2>1, TruncMonotone, Zenon DEF Trunc
  <2> QED BY <1>2, <1>3, <2>2 DEF TokenPredatesPasswordChange
<1> HIDE DEF tok
<1>6. Types'
  BY <1>3, <1>4, Zenon DEF Types, Became
<1>7. Sane'
  BY <1>2, <1>3, <1>4, SMTT(20) DEF Sane, Became, Types
<1>8. ServedAfterBoot' /\ BootUnderLock' /\ OneSuperAdmin'
  <2>1. Serving
    BY <1>1, Zenon DEF ServedAfterBoot
  <2> QED BY <1>4, <2>1, Zenon DEF ServedAfterBoot, BootUnderLock, OneSuperAdmin, SuperAdmins, Serving
<1>9. PendingIsFresh'
  <2>1. \A d \in Calls : calls'[d].at \in {"changing", "resetting"} =>
          d # c /\ calls'[d] = calls[d] /\ calls[d].pw # calls[c].pw
    BY <1>4, Zenon DEF Became, PendingIsFresh
  <2>2. calls[c].pw <= writes /\ calls'[c].pw = 0 /\ 0 <= writes
    BY <1>4 DEF Became, PendingIsFresh, Types
  <2>3. /\ \A e \in Emails : users'[e].pw <= writes'
        /\ \A t \in tokens' : t.pw <= writes' /\ (t \in tokens \/ t.pw = calls[c].pw)
        /\ \A d \in Calls : calls'[d].pw <= writes' /\ calls'[d].pw \in {0, calls[d].pw}
    BY <1>3, <1>4, <2>2, Zenon DEF Became, PendingIsFresh
  <2>4. ASSUME NEW d \in Calls, calls'[d].at \in {"changing", "resetting"}
        PROVE  /\ calls'[d].pw > 0 /\ \A e \in Emails : users'[e].pw # calls'[d].pw
               /\ \A t \in tokens' : t.pw # calls'[d].pw
               /\ \A o \in Calls \ {d} : calls'[o].pw # calls'[d].pw
    BY <1>4, <2>1, <2>3, <2>4 DEF PendingIsFresh
  <2> QED BY <2>3, <2>4, Zenon DEF PendingIsFresh
<1>10. FreshTokenAccepted'
  BY <1>4, <1>5, Zenon DEF FreshTokenAccepted, Exists, TokenPredatesPasswordChange
<1>11. Traced'
  <2>1. \A d \in Calls : calls'[d].at \in {"changing", "resetting"} => calls'[d] = calls[d]
    BY <1>4, Zenon DEF Became
  <2>2. Trunc(clock) <= Trunc(clock)
    BY <1>2
  <2>3. tok.raced = "no" => /\ tok.pw = users[tok.user].pw
                            /\ \A d \in Calls : calls[d].at \in {"changing", "resetting"} => calls[d].user # tok.user
    <3>1. "no" # "yes"
      OBVIOUS
    <3>2. tok.raced = (IF users[calls[c].user].pw # calls[c].pw \/ BeingWritten(calls[c].user) THEN "yes" ELSE "no")
      BY Zenon DEF tok, Issue
    <3> QED BY <1>3, <3>1, <3>2, Zenon DEF BeingWritten
  <2>4. \A t \in tokens' : t.iat <= Trunc(clock')
    BY <1>3, <1>4, <2>2, Zenon DEF Traced
  <2>5. \A t \in tokens' : t.raced = "no" /\ users'[t.user].role # "none" =>
          t.pw = users'[t.user].pw \/ t.iat <= Trunc(users'[t.user].changed)
    BY <1>4, <2>3, Zenon DEF Traced
  <2>6. \A t \in tokens', d \in Calls :
          t.raced = "no" /\ calls'[d].at \in {"changing", "resetting"} /\ calls'[d].user = t.user
          => t.iat <= Trunc(calls'[d].time)
    BY <1>4, <2>1, <2>3, Zenon DEF Traced
  <2> QED BY <2>4, <2>5, <2>6, Zenon DEF Traced
<1> QED BY <1>6, <1>7, <1>8, <1>9, <1>10, <1>11, Zenon

\* Begin: the password about to be written has a number of its own.
LEMMA BeginStep ==
    ASSUME IInv, NEW c \in Calls, Begin(c), writes' # writes
    PROVE  IInv'
<1> USE DEF IInv
<1> DEFINE at == IF calls[c].at = "reset" THEN "resetting" ELSE "changing"
<1>1. /\ calls[c].at \in {"change", "reset"} /\ writes < MaxWrites /\ writes' = writes + 1
      /\ calls' = [calls EXCEPT ![c].at = at, ![c].pw = writes', ![c].time = clock]
      /\ UNCHANGED <<users, tenants, tokens, boot, lock, clock>>
  BY Zenon DEF Begin, NotBoot
<1>2. at \in {"changing", "resetting"} /\ writes' \in 0..MaxWrites /\ clock \in 0..MaxClock
  BY <1>1 DEF Types
<1> HIDE DEF at
<1>3. Became(c, at, calls[c].user, writes', calls[c].found, clock)
  BY <1>1, <1>2, BecamePending, Zenon
<1>4. Types'
  BY <1>1, <1>2, <1>3, Zenon DEF Types, Became
<1>5. Sane'
  BY <1>1, <1>2, <1>3 DEF Sane, Became, Types
<1>6. ServedAfterBoot' /\ BootUnderLock' /\ OneSuperAdmin'
  <2>1. Serving
    BY <1>1, Zenon DEF ServedAfterBoot
  <2> QED BY <1>1, <2>1, Zenon DEF ServedAfterBoot, BootUnderLock, OneSuperAdmin, SuperAdmins, Serving
<1>7. PendingIsFresh'
  <2>1. \A d \in Calls : calls[d].pw \in Nat
    BY RequestFields DEF Types
  <2>2. \A e \in Emails : users[e].pw \in Nat
    BY RowFields DEF Types
  <2>3. \A tok \in tokens : tok.pw \in Nat
    BY DEF Types, Tokens
  <2>4. writes \in Nat /\ writes' = writes + 1
    BY <1>1 DEF Types
  <2>5. /\ \A d \in Calls : calls[d].pw <= writes
        /\ \A e \in Emails : users[e].pw <= writes
        /\ \A tok \in tokens : tok.pw <= writes
    BY Zenon DEF PendingIsFresh
  <2>6. /\ \A d \in Calls : calls'[d].pw <= writes'
        /\ \A e \in Emails : users'[e].pw <= writes'
        /\ \A tok \in tokens' : tok.pw <= writes'
    BY <1>1, <1>3, <2>1, <2>2, <2>3, <2>4, <2>5 DEF Became
  <2>7. ASSUME NEW d \in Calls, calls'[d].at \in {"changing", "resetting"}
        PROVE  /\ calls'[d].pw > 0
               /\ \A e \in Emails : users'[e].pw # calls'[d].pw
               /\ \A tok \in tokens' : tok.pw # calls'[d].pw
               /\ \A f \in Calls \ {d} : calls'[f].pw # calls'[d].pw
    <3>1. CASE d = c
      BY <1>1, <1>3, <2>1, <2>2, <2>3, <2>4, <2>5, <3>1 DEF Became
    <3>2. CASE d # c
      BY <1>1, <1>3, <2>1, <2>4, <2>5, <2>7, <3>2 DEF Became, PendingIsFresh
    <3> QED BY <3>1, <3>2, Zenon
  <2> QED BY <2>6, <2>7, Zenon DEF PendingIsFresh
<1>8. FreshTokenAccepted'
  BY <1>1, Zenon DEF FreshTokenAccepted, Exists, TokenPredatesPasswordChange
<1>9. Traced'
  <2>1. \A d \in Calls : d # c => calls'[d] = calls[d]
    BY <1>3, Zenon DEF Became
  <2>2. calls'[c].time = clock
    BY <1>3, Zenon DEF Became
  <2>3. \A tok \in tokens, d \in Calls :
          tok.raced = "no" /\ calls'[d].at \in {"changing", "resetting"} /\ calls'[d].user = tok.user
          => tok.iat <= Trunc(calls'[d].time)
    <3> TAKE tok \in tokens, d \in Calls
    <3>1. CASE d = c
      BY <2>2, <3>1, Zenon DEF Traced
    <3>2. CASE d # c
      BY <2>1, <3>2, Zenon DEF Traced
    <3> QED BY <3>1, <3>2, Zenon
  <2> QED BY <1>1, <2>3, Zenon DEF Traced
<1> QED BY <1>4, <1>5, <1>6, <1>7, <1>8, <1>9, Zenon

\* UpdatePassword: no token, no other row and no other request knows the password.
LEMMA WriteStep ==
    ASSUME IInv, NEW c \in Calls, NEW must \in BOOLEAN,
           calls[c].at \in {"changing", "resetting"}, Exists(calls[c].user), WritePassword(c, must)
    PROVE  IInv'
<1> USE DEF IInv
<1> DEFINE u == calls[c].user
           pw == calls[c].pw
<1>1. calls[c] \in Requests /\ u \in Emails /\ users[u] \in UserRows
  BY Zenon DEF Sane, Types
<1>2. pw \in 0..MaxWrites /\ calls[c].time \in 0..MaxClock /\ calls[c].time <= clock
      /\ users[u].role \in {"none", "tenant_admin", "super_admin"}
  BY <1>1, RequestFields, RowFields, Zenon DEF Sane
<1>3. users' = [users EXCEPT ![u] = Row(users[u].role, pw, must, calls[c].time)]
  BY Zenon DEF WritePassword, UpdatePassword
<1>4. RowBecame(u, users[u].role, pw, 0, calls[c].time)
  BY <1>1, <1>2, <1>3, RowWritten, Zenon
<1>5. Became(c, "idle", NoUser, 0, FALSE, 0) /\ UNCHANGED <<tenants, tokens, writes, boot, lock, clock>>
  BY BecameIdle, Zenon DEF WritePassword, NotBoot
<1>6. /\ pw > 0 /\ pw <= writes
      /\ \A tok \in tokens : tok.pw # pw
      /\ \A d \in Calls \ {c} : calls[d].pw # pw
  BY Zenon DEF PendingIsFresh
<1> HIDE DEF u, pw
<1>7. Types'
  BY <1>4, <1>5, Zenon DEF Types, RowBecame, Became
<1>8. Sane'
  <2>1. \A e \in Emails : users'[e].changed <= clock /\ (users'[e].role = "none" => users'[e].locked = 0)
    BY <1>2, <1>4, Zenon DEF Sane, RowBecame
  <2>2. \A d \in Calls : /\ calls'[d].time <= clock
                         /\ calls'[d].at # "idle" => calls'[d].user \in Emails
                         /\ calls'[d].at = "right" => ~calls'[d].found
    BY <1>5 DEF Sane, Became, Types
  <2> QED BY <1>5, <2>1, <2>2, Zenon DEF Sane
<1>9. ServedAfterBoot' /\ BootUnderLock' /\ OneSuperAdmin'
  <2>1. Serving
    BY Zenon DEF ServedAfterBoot
  <2>2. \A e \in Emails : users'[e].role = users[e].role
    BY <1>4, Zenon DEF RowBecame
  <2> QED BY <1>5, <2>1, <2>2, Zenon DEF ServedAfterBoot, BootUnderLock, OneSuperAdmin, SuperAdmins, Serving
<1>10. PendingIsFresh'
  <2>1. \A d \in Calls : calls'[d].at \in {"changing", "resetting"} =>
          d # c /\ calls'[d] = calls[d] /\ calls[d].pw # pw
    BY <1>5, <1>6, Zenon DEF Became
  <2>2. \A e \in Emails : users'[e].pw <= writes /\ users'[e].pw \in {users[e].pw, pw}
    BY <1>4, <1>6, Zenon DEF RowBecame, PendingIsFresh
  <2>3. \A d \in Calls : calls'[d].pw <= writes /\ (d = c => calls'[d].pw = 0)
                              /\ (d # c => calls'[d] = calls[d])
    BY <1>5 DEF Became, PendingIsFresh, Types
  <2> QED BY <1>5, <2>1, <2>2, <2>3, SMTT(20) DEF PendingIsFresh
<1>11. FreshTokenAccepted'
  BY <1>4, <1>5, <1>6, Zenon
  DEF FreshTokenAccepted, Exists, TokenPredatesPasswordChange, RowBecame, Types, Tokens
<1>12. Traced'
  <2>1. \A d \in Calls : calls'[d].at \in {"changing", "resetting"} => calls'[d] = calls[d]
    BY <1>5, Zenon DEF Became
  <2>2. ASSUME NEW tok \in tokens, tok.raced = "no", users'[tok.user].role # "none"
        PROVE  tok.pw = users'[tok.user].pw \/ tok.iat <= Trunc(users'[tok.user].changed)
    <3>1. tok.user \in Emails
      BY Zenon DEF Types, Tokens
    <3>2. CASE tok.user = u
      <4>1. tok.iat <= Trunc(calls[c].time)
        BY <2>2, <3>2, Zenon DEF Traced, u
      <4> QED BY <1>4, <3>2, <4>1, Zenon DEF RowBecame
    <3>3. CASE tok.user # u
      <4>1. users'[tok.user] = users[tok.user]
        BY <1>4, <3>1, <3>3, Zenon DEF RowBecame
      <4> QED BY <2>2, <4>1, Zenon DEF Traced
    <3> QED BY <3>2, <3>3, Zenon
  <2>3. \A tok \in tokens, d \in Calls :
          tok.raced = "no" /\ calls'[d].at \in {"changing", "resetting"} /\ calls'[d].user = tok.user
          => tok.iat <= Trunc(calls'[d].time)
    BY <2>1, Zenon DEF Traced
  <2> QED BY <1>5, <2>2, <2>3, Zenon DEF Traced
<1> QED BY <1>7, <1>8, <1>9, <1>10, <1>11, <1>12, Zenon

\* The rows and tenants as they are, for QuietStep.
LEMMA RowsStay ==
    ASSUME IInv, UNCHANGED <<users, tenants>>
    PROVE  /\ users' \in [Emails -> UserRows] /\ \A e \in Emails : RowKept(e)
           /\ tenants' \in [Admins -> {"active", "suspended", "deleted"}]
  BY Zenon DEF IInv, Types, Sane, RowKept

\* A handler that returns without a change to the rows.
LEMMA ReturnStep ==
    ASSUME IInv, NEW c \in Calls, Return(c), users' \in [Emails -> UserRows],
           \A e \in Emails : RowKept(e),
           tenants' \in [Admins -> {"active", "suspended", "deleted"}],
           UNCHANGED <<tokens, boot, lock, clock, writes>>
    PROVE  IInv'
<1>1. Became(c, "idle", NoUser, 0, FALSE, 0)
  BY BecameIdle, Zenon DEF IInv
<1>2. "idle" \in Steps /\ 0 \in 0..MaxWrites /\ 0 \in 0..MaxClock /\ 0 <= clock
  BY DEF Steps, IInv, Types
<1> QED BY <1>1, <1>2, QuietStep, Zenon

\* A handler that takes its request to another step and keeps what it carries.
LEMMA MoveStep ==
    ASSUME IInv, NEW c \in Calls, calls[c].at # "idle", NEW at \in Steps, NEW found,
           Became(c, at, calls[c].user, calls[c].pw, found, calls[c].time),
           at = "right" => ~found, at \notin {"changing", "resetting"},
           users' \in [Emails -> UserRows], \A e \in Emails : RowKept(e),
           UNCHANGED <<tenants, tokens, boot, lock, clock, writes>>
    PROVE  IInv'
<1>1. /\ calls[c].time \in 0..MaxClock /\ calls[c].time <= clock /\ calls[c].pw \in 0..MaxWrites
      /\ calls[c].user \in Emails /\ Serving
      /\ tenants' \in [Admins -> {"active", "suspended", "deleted"}]
  BY RequestFields, Zenon DEF IInv, Types, Sane, ServedAfterBoot
<1> DEFINE user == calls[c].user
           pw == calls[c].pw
           time == calls[c].time
<1>2. /\ Became(c, at, user, pw, found, time) /\ user \in Emails /\ Serving
      /\ pw \in 0..MaxWrites /\ pw = calls[c].pw /\ time \in 0..MaxClock /\ time <= clock
  BY <1>1, Zenon
<1> HIDE DEF user, pw, time
<1> QED BY <1>1, <1>2, QuietStep, SMTT(20)

\* Every step of a handler preserves the invariant.
LEMMA HandlerStep ==
    ASSUME IInv, NEW c \in Calls, Handler(c)
    PROVE  IInv'
<1> USE DEF NotBoot
<1>0. Types /\ calls[c] \in Requests /\ (calls[c].at # "idle" => calls[c].user \in Emails)
  BY Zenon DEF IInv, Types, Sane
<1>1. CASE LoginVerify(c)
  <2>1. UNCHANGED <<users, tenants, tokens, boot, lock, clock, writes>> /\ calls[c].at = "read"
    BY <1>1, Zenon DEF LoginVerify
  <2>2. CASE Return(c)
    BY <2>1, <2>2, RowsStay, ReturnStep, Zenon
  <2>3. ASSUME NEW at \in {"wrong", "right"}, NotLocked(c), Found(c, at) PROVE IInv'
    <3>1. at \in Steps
      BY Zenon DEF Steps
    <3>2. Became(c, at, calls[c].user, calls[c].pw, FALSE, calls[c].time)
      BY <1>0, <2>3, <3>1, BecameFound, Zenon
    <3>3. calls[c].at # "idle" /\ at \notin {"changing", "resetting"}
      BY <2>1
    <3>4. users' \in [Emails -> UserRows] /\ \A e \in Emails : RowKept(e)
      BY <2>1, RowsStay, Zenon
    <3> QED BY <2>1, <3>1, <3>2, <3>3, <3>4, MoveStep, Zenon
  <2> QED BY <1>1, <2>2, <2>3, Zenon DEF LoginVerify
<1>2. CASE RegisterFailedAttempt(c)
  <2> DEFINE u == calls[c].user
             reached == users[u].failed + 1 >= MaxFailures
             failed == IF reached THEN 0 ELSE users[u].failed + 1
             locked == IF reached THEN clock + LockWindow ELSE users[u].locked
  <2>1. calls[c].at = "wrong" /\ u \in Emails /\ UNCHANGED <<tenants, tokens, boot, lock, clock, writes>>
    BY <1>0, <1>2, Zenon DEF RegisterFailedAttempt
  <2>2. CASE Exists(u)
    <3>1. users[u] \in UserRows /\ clock \in 1..MaxClock
      BY <2>1, Zenon DEF IInv, Types
    <3>2. failed \in 0..(MaxFailures - 1) /\ locked \in 0..(MaxClock + LockWindow)
      BY <3>1, RowFields, SMTT(20)
    <3>3. users' = [users EXCEPT ![u].failed = failed, ![u].locked = locked]
      BY <1>2, <2>2, Zenon DEF RegisterFailedAttempt, RegisterFailedLogin
    <3>4. RowBecame(u, users[u].role, users[u].pw, locked, users[u].changed)
      BY <1>0, <2>1, <3>2, <3>3, RowCounted, Zenon
    <3>5. users' \in [Emails -> UserRows] /\ \A e \in Emails : RowKept(e)
      BY <2>2, <3>4, Zenon DEF RowBecame, RowKept, Exists, IInv, Sane
    <3>6. users'[u].locked = locked
      BY <3>4, Zenon DEF RowBecame
    <3>7. calls' = [calls EXCEPT ![c].at = "failed", ![c].match = reached, ![c].locked = locked]
      BY <1>2, <2>2, <3>6, Zenon DEF RegisterFailedAttempt
    <3>8. reached \in BOOLEAN
      OBVIOUS
    <3>9. Became(c, "failed", calls[c].user, calls[c].pw, calls[c].found, calls[c].time)
      <4> HIDE DEF reached, locked
      <4> QED BY <1>0, <3>2, <3>7, <3>8, BecameFailed, Zenon
    <3>10. "failed" \in Steps
      BY Zenon DEF Steps
    <3> QED BY <2>1, <3>5, <3>9, <3>10, MoveStep, Zenon
  <2>3. CASE ~Exists(u)
    BY <1>2, <2>1, <2>3, RowsStay, ReturnStep, Zenon DEF RegisterFailedAttempt
  <2> QED BY <2>2, <2>3, Zenon
<1>3. CASE RecordLockout(c)
  BY <1>3, RowsStay, ReturnStep, Zenon DEF RecordLockout
<1>4. CASE LoginClear(c)
  <2> DEFINE u == calls[c].user
  <2>1. calls[c].at = "right" /\ u \in Emails /\ UNCHANGED <<tenants, tokens, boot, lock, clock, writes>>
    BY <1>0, <1>4, Zenon DEF LoginClear
  <2>2. "issue" \in Steps /\ 0 \in 0..(MaxFailures - 1) /\ 0 \in 0..(MaxClock + LockWindow)
    BY DEF Steps
  <2>3. Became(c, "issue", calls[c].user, calls[c].pw, calls[c].found, calls[c].time)
    BY <1>0, <1>4, <2>2, BecameStep, Zenon DEF LoginClear
  <2>4. users' \in [Emails -> UserRows] /\ \A e \in Emails : RowKept(e)
    <3>1. CASE Exists(u)
      <4>1. RowBecame(u, users[u].role, users[u].pw, 0, users[u].changed)
        BY <1>0, <1>4, <2>1, <2>2, <3>1, RowCounted, Zenon DEF LoginClear, ClearLoginFailures
      <4> QED BY <4>1, Zenon DEF RowBecame, RowKept, IInv, Sane
    <3>2. CASE ~Exists(u)
      BY <1>4, <2>1, <3>2, RowsStay, Zenon DEF LoginClear, ClearLoginFailures
    <3> QED BY <3>1, <3>2, Zenon
  <2> QED BY <2>1, <2>2, <2>3, <2>4, MoveStep, Zenon
<1>5. CASE LoginIssue(c)
  BY <1>5, IssueStep, Zenon
<1>6. CASE RouteReturns(c)
  BY <1>6, RowsStay, ReturnStep, Zenon DEF RouteReturns
<1>7. CASE Begin(c)
  <2>1. CASE writes' # writes
    BY <1>7, <2>1, BeginStep, Zenon
  <2>2. CASE UNCHANGED writes /\ Return(c)
    BY <1>7, <2>2, RowsStay, ReturnStep, Zenon DEF Begin
  <2>3. writes \in Nat
    BY <1>0 DEF Types
  <2> QED BY <1>7, <2>1, <2>2, <2>3 DEF Begin
<1>8. ASSUME NEW must \in BOOLEAN, calls[c].at \in {"changing", "resetting"}, WritePassword(c, must)
      PROVE  IInv'
  <2>1. CASE Exists(calls[c].user)
    BY <1>8, <2>1, WriteStep, Zenon
  <2>2. CASE ~Exists(calls[c].user)
    BY <1>8, <2>2, RowsStay, ReturnStep, Zenon DEF WritePassword
  <2> QED BY <2>1, <2>2, Zenon
<1>9. CASE SetStatus(c)
  <2>1. tenants' \in [Admins -> {"active", "suspended", "deleted"}]
    BY <1>0, <1>9, Zenon DEF SetStatus, Types
  <2>2. users' \in [Emails -> UserRows] /\ \A e \in Emails : RowKept(e)
    BY <1>9, Zenon DEF SetStatus, IInv, Types, Sane, RowKept
  <2> QED BY <1>9, <2>1, <2>2, ReturnStep, Zenon DEF SetStatus
<1>10. CASE DeleteTenant(c)
  <2> DEFINE u == calls[c].user
  <2>1. tenants' \in [Admins -> {"active", "suspended", "deleted"}]
    BY <1>0, <1>10, Zenon DEF DeleteTenant, Types
  <2>2. u \in Emails /\ 0 \in 0..MaxWrites /\ 0 \in 0..MaxClock
    BY <1>0, <1>10, SMTT(20) DEF DeleteTenant
  <2>3. RowBecame(u, "none", 0, 0, 0)
    BY <1>0, <1>10, <2>2, RowWritten, Zenon DEF DeleteTenant, NoRow
  <2>4. users' \in [Emails -> UserRows] /\ \A e \in Emails : RowKept(e)
    BY <2>3, Zenon DEF RowBecame, RowKept, IInv, Sane
  <2> QED BY <1>10, <2>1, <2>4, ReturnStep, Zenon DEF DeleteTenant
<1>11. ASSUME NEW match \in BOOLEAN, ChangeVerify(c, match) PROVE IInv'
  <2>1. CASE Return(c)
    BY <1>11, <2>1, RowsStay, ReturnStep, Zenon DEF ChangeVerify
  <2>2. CASE Step(c, "change")
    <3>1. "change" \in Steps
      BY Zenon DEF Steps
    <3>2. Became(c, "change", calls[c].user, calls[c].pw, calls[c].found, calls[c].time)
      BY <1>0, <2>2, <3>1, BecameStep, Zenon
    <3> QED BY <1>11, <3>1, <3>2, RowsStay, MoveStep, Zenon DEF ChangeVerify
  <2> QED BY <1>11, <2>1, <2>2, Zenon DEF ChangeVerify
<1> QED BY <1>1, <1>2, <1>3, <1>4, <1>5, <1>6, <1>7, <1>8, <1>9, <1>10, <1>11, Zenon
        DEF Handler, WriteChange, WriteReset

\* The start of a request preserves the invariant.
LEMMA RequestStep ==
    ASSUME IInv, NEW c \in Calls, Request(c)
    PROVE  IInv'
<1>0. Types /\ 0 \in 0..MaxWrites /\ 0 \in 0..MaxClock /\ 0 <= clock
  BY DEF IInv, Types
<1>1. ASSUME NEW u \in Emails, NEW match \in BOOLEAN, LoginRead(c, u, match) PROVE IInv'
  <2>1. PICK pw \in {0, users[u].pw} : Became(c, "read", u, pw, FALSE, 0)
    BY <1>0, <1>1, BecameRead, Zenon
  <2>2. pw \in 0..MaxWrites /\ "read" \in Steps /\ Serving
    BY <1>1, RowFields, SMTT(20) DEF IInv, Types, Steps, LoginRead
  <2>3. UNCHANGED <<users, tenants, tokens, boot, lock, clock, writes>>
    BY <1>1, Zenon DEF LoginRead, NotBoot
  <2> QED BY <1>0, <2>1, <2>2, <2>3, RowsStay, QuietStep, Zenon
<1>2. ASSUME NEW tok, NEW at \in {"verify", "route", "reset", "suspend", "activate", "delete"},
             NEW u \in Emails, Admitted(c, tok, at, u)
      PROVE  IInv'
  <2>1. at \in Steps /\ Serving
    BY <1>2, Zenon DEF Steps, Admitted
  <2>2. Became(c, at, u, 0, FALSE, 0)
    BY <1>0, <1>2, <2>1, BecameAdmitted, Zenon
  <2>3. UNCHANGED <<users, tenants, tokens, boot, lock, clock, writes>>
    BY <1>2, Zenon DEF Admitted, NotBoot
  <2> QED BY <1>0, <2>1, <2>2, <2>3, RowsStay, QuietStep, Zenon
<1>3. ASSUME NEW tok \in tokens, Change(c, tok) \/ TenantRoute(c, tok) \/ Platform(c, tok)
      PROVE  IInv'
  <2>1. tok.user \in Emails
    BY <1>0, Zenon DEF Types, Tokens
  <2> QED BY <1>2, <1>3, <2>1, ZenonT(40) DEF Change, TenantRoute, Platform
<1> QED BY <1>1, <1>3, Zenon DEF Request

\* IInv is inductive.
LEMMA InvariantStep == IInv /\ [Next]_vars => IInv'
<1> SUFFICES ASSUME IInv, [Next]_vars PROVE IInv'
  OBVIOUS
<1>1. CASE UNCHANGED vars
  BY <1>1, Zenon DEF vars, IInv, Types, Sane, ServedAfterBoot, Serving, BootUnderLock,
              OneSuperAdmin, SuperAdmins, PendingIsFresh, FreshTokenAccepted, Exists,
              TokenPredatesPasswordChange, Traced
<1> QED BY <1>1, TickStep, BootStep, HandlerStep, RequestStep, Zenon DEF Next

\* The inductive invariant holds in every reachable state.
THEOREM Invariant == Spec => []IInv
  BY InvariantInit, InvariantStep, PTL DEF Spec

\* The rows, tokens and requests keep their types and the failure counter stays
\* below the threshold at which registerFailedLogin resets it.
THEOREM TypeCorrect == Spec => []TypeOK
<1>1. IInv => TypeOK
  BY RowFields, RequestFields DEF IInv, Types, Sane, TypeOK, UserRows, Tokens
<1> QED BY <1>1, Invariant, PTL

\* However many replicas boot, in whatever order, and crash in the middle of
\* BootstrapService.Run, at most one super-admin is created.
THEOREM SuperAdminUnique == Spec => []OneSuperAdmin
  BY Invariant, PTL DEF IInv

\* A token obtained with the password in force is never refused as older than
\* it, whatever password writes were under way when it was issued.
THEOREM FreshAccepted == Spec => []FreshTokenAccepted
  BY Invariant, PTL DEF IInv

\* A token of an earlier password that is still accepted was issued in the second
\* of the change in force, or while a write of the password was under way.
THEOREM OldRefused == Spec => []OldPasswordRefused
<1>1. IInv => OldPasswordRefused
  <2> SUFFICES ASSUME IInv, NEW tok \in tokens, Exists(tok.user), tok.pw # users[tok.user].pw,
                      ~TokenPredatesPasswordChange(users[tok.user], tok), tok.raced # "yes"
               PROVE  tok.iat = Trunc(users[tok.user].changed)
    BY Zenon DEF OldPasswordRefused
  <2>1. tok.raced = "no" /\ tok.iat \in Int /\ users[tok.user] \in UserRows
    <3>1. tok \in Tokens
      BY Zenon DEF IInv, Types
    <3>2. tok.raced \in {"no", "yes"} /\ tok.iat \in Int /\ tok.user \in Emails
      BY <3>1, Zenon DEF Tokens
    <3> QED BY <3>2, Zenon DEF IInv, Types
  <2>2. tok.iat <= Trunc(users[tok.user].changed)
    BY <2>1, Zenon DEF IInv, Traced, Exists
  <2>3. ~(tok.iat < Trunc(users[tok.user].changed))
    BY Zenon DEF TokenPredatesPasswordChange
  <2>4. Trunc(users[tok.user].changed) \in Int
    BY <2>1, RowFields, TruncMonotone DEF Trunc
  <2> QED BY <2>1, <2>2, <2>3, <2>4
<1> QED BY <1>1, Invariant, PTL

-----------------------------------------------------------------------------
(* The lockout.                                                            *)

\* The row of u when one statement writes the row of v.
LEMMA OtherRow ==
    ASSUME NEW u \in Emails, NEW v, u # v, NEW role, NEW pw, NEW locked, NEW changed,
           RowBecame(v, role, pw, locked, changed)
    PROVE  users'[u] = users[u]
  BY Zenon DEF RowBecame

\* What a step that takes a lock in force off an account can be.
LEMMA LockStep ==
    ASSUME IInv, [Next]_vars, NEW u \in Emails,
           IsLocked(users[u].locked, clock), ~IsLocked(users'[u].locked, clock),
           users'[u].role # "none"
    PROVE  \/ users'[u].pw # users[u].pw
           \/ \E c \in Calls : calls[c].at = "right" /\ calls[c].user = u /\ ~calls[c].found
<1> DEFINE Goal == \/ users'[u].pw # users[u].pw
                   \/ \E c \in Calls : calls[c].at = "right" /\ calls[c].user = u /\ ~calls[c].found
<1>0. /\ Types /\ users[u] \in UserRows /\ users[u].locked \in Nat /\ clock \in Nat
      /\ users[u].locked > clock /\ users[u].role # "none"
  BY RowFields, SMTT(20) DEF IInv, Types, Sane, IsLocked
<1>1. users'[u] # users[u]
  BY Zenon
<1>2. ASSUME NEW r \in Replicas, Bootstrap(r) PROVE Goal
  <2>1. UNCHANGED users \/ BootCreate(r)
    BY <1>2, Zenon DEF Bootstrap, BootLock, BootCount, Crash
  <2>2. CASE BootCreate(r)
    <3> DEFINE v == boot[r].email
    <3>1. v \in Emails /\ clock \in 0..MaxClock /\ 0 \in 0..MaxWrites
      BY <2>2 DEF BootCreate, IInv, BootUnderLock, Types
    <3>2. CASE ~Exists(v)
      <4>1. RowBecame(v, "super_admin", 0, 0, clock)
        BY <1>0, <2>2, <3>1, <3>2, RowWritten, Zenon DEF BootCreate, CreateUser
      <4>2. u # v
        BY <1>0, <3>2, Zenon DEF Exists
      <4> HIDE DEF v
      <4> QED BY <1>1, <4>1, <4>2, OtherRow, Zenon
    <3>3. CASE Exists(v)
      BY <1>1, <2>2, <3>3, Zenon DEF BootCreate
    <3> QED BY <3>2, <3>3, Zenon
  <2> QED BY <1>1, <2>1, <2>2, Zenon
<1>3. ASSUME NEW c \in Calls, Handler(c) PROVE Goal
  <2> DEFINE v == calls[c].user
  <2>0. calls[c] \in Requests /\ (calls[c].at # "idle" => v \in Emails)
    BY Zenon DEF IInv, Types, Sane
  <2>1. UNCHANGED users \/ RegisterFailedAttempt(c) \/ LoginClear(c) \/ WriteChange(c)
          \/ WriteReset(c) \/ DeleteTenant(c)
    BY <1>3, Zenon DEF Handler, LoginVerify, RecordLockout, LoginIssue, RouteReturns, Begin, SetStatus,
                ChangeVerify
  <2>2. CASE RegisterFailedAttempt(c)
    <3>1. CASE Exists(v)
      <4> DEFINE reached == users[v].failed + 1 >= MaxFailures
                 failed == IF reached THEN 0 ELSE users[v].failed + 1
                 locked == IF reached THEN clock + LockWindow ELSE users[v].locked
      <4>1. v \in Emails /\ users[v] \in UserRows /\ clock \in 1..MaxClock
        BY <2>0, <2>2, Zenon DEF RegisterFailedAttempt, IInv, Types
      <4>2. failed \in 0..(MaxFailures - 1) /\ locked \in 0..(MaxClock + LockWindow)
        BY <4>1, RowFields
      <4>3. users' = [users EXCEPT ![v].failed = failed, ![v].locked = locked]
        BY <2>2, <3>1, Zenon DEF RegisterFailedAttempt, RegisterFailedLogin
      <4>4. RowBecame(v, users[v].role, users[v].pw, locked, users[v].changed)
        BY <1>0, <4>1, <4>2, <4>3, RowCounted, Zenon
      <4>5. v = u => locked > clock
        BY <1>0
      <4>6. v # u
        BY <4>4, <4>5, Zenon DEF RowBecame, IsLocked
      <4> QED BY <1>1, <4>4, <4>6, Zenon DEF RowBecame
    <3>2. CASE ~Exists(v)
      BY <1>1, <2>2, <3>2, Zenon DEF RegisterFailedAttempt
    <3> QED BY <3>1, <3>2, Zenon
  <2>3. CASE LoginClear(c)
    <3>1. calls[c].at = "right" /\ ~calls[c].found /\ v \in Emails
      BY <2>0, <2>3, Zenon DEF LoginClear, IInv, Sane
    <3>2. CASE v = u
      BY <3>1, <3>2, Zenon
    <3>3. CASE v # u
      BY <1>0, <1>1, <2>3, <3>3, Zenon DEF LoginClear, ClearLoginFailures, Types
    <3> QED BY <3>2, <3>3, Zenon
  <2>4. ASSUME NEW must \in BOOLEAN, calls[c].at \in {"changing", "resetting"}, WritePassword(c, must)
        PROVE  Goal
    <3>1. v \in Emails
      BY <2>0, <2>4, Zenon
    <3>2. CASE v = u
      <4>1. users' = [users EXCEPT ![u] = Row(users[u].role, calls[c].pw, must, calls[c].time)]
        BY <1>0, <2>4, <3>2, Zenon DEF WritePassword, UpdatePassword, Exists
      <4>2. users'[u].pw = calls[c].pw
        BY <1>0, <4>1, Zenon DEF Row, Types
      <4>3. users[u].pw # calls[c].pw
        BY <2>4, Zenon DEF IInv, PendingIsFresh
      <4> QED BY <4>2, <4>3, Zenon
    <3>3. CASE v # u
      BY <1>0, <1>1, <2>4, <3>3, Zenon DEF WritePassword, UpdatePassword, Types
    <3> QED BY <3>2, <3>3, Zenon
  <2>5. CASE DeleteTenant(c)
    <3>1. CASE v = u
      BY <1>0, <2>5, <3>1, Zenon DEF DeleteTenant, NoRow, Row, Types
    <3>2. CASE v # u
      BY <1>0, <1>1, <2>5, <3>2, Zenon DEF DeleteTenant, Types
    <3> QED BY <3>1, <3>2, Zenon
  <2> QED BY <1>1, <2>1, <2>2, <2>3, <2>4, <2>5, Zenon DEF WriteChange, WriteReset
<1>4. ASSUME NEW c \in Calls, Request(c) PROVE UNCHANGED users
  BY <1>4, Zenon DEF Request, LoginRead, Change, TenantRoute, Platform, Admitted
<1>5. CASE Tick \/ UNCHANGED vars
  BY <1>1, <1>5, Zenon DEF Tick, vars
<1> QED BY <1>1, <1>2, <1>3, <1>4, <1>5, Zenon DEF Next

\* A lock in force is lifted only by a new password or by a login that had read
\* the account before the lock was put, never by one that found it locked.
THEOREM LockHolds == Spec => LockStands
<1>1. IInv /\ [Next]_vars =>
        [\A u \in Emails :
           IsLocked(users[u].locked, clock) /\ ~IsLocked(users'[u].locked, clock)
             /\ users'[u].role # "none"
           => \/ users'[u].pw # users[u].pw
              \/ \E c \in Calls : /\ calls[c].at = "right" /\ calls[c].user = u
                                  /\ ~calls[c].found]_vars
  BY LockStep, Zenon
<1> QED BY <1>1, Invariant, PTL DEF Spec, LockStands
=============================================================================

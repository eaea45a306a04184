------------------------------ MODULE Accounts ------------------------------
(* The account plane of the API: the bootstrap of the first super-admin by     *)
(* replicas that boot together (services/bootstrap.go), login with its durable *)
(* lockout (services/auth.go), password change and reset                       *)
(* (services/passwords.go), the tokens (domain/token.go) and the middleware    *)
(* that reads the user again on every request (middleware/auth.go).            *)
(*                                                                             *)
(* A password is the number of the write that set it; an email is its owner.   *)
(* Every process and the database read one clock.                              *)
EXTENDS Integers, FiniteSets

CONSTANTS
    Admins,       \* the tenant administrators, one tenant each
    Roots,        \* the addresses the bootstrap variables may name
    NoUser,
    Replicas,     \* of the API
    Calls,        \* requests in flight
    MaxFailures,  \* login_max_failures
    LockWindow,   \* login_lock_window, in ticks
    Ttl,          \* of a token, in seconds
    Second,       \* ticks in a second
    MaxClock,     \* bound on the clock
    Mistyped,     \* the accounts whose password may be given wrong
    MaxTokens,    \* bound on the tokens held at a time
    MaxWrites     \* bound on password writes

ASSUME AccountsAssumption ==
    /\ MaxFailures \in Nat \ {0} /\ LockWindow \in Nat \ {0}
    /\ Ttl \in Nat \ {0} /\ Second \in Nat \ {0}
    /\ MaxClock \in Nat \ {0} /\ MaxTokens \in Nat /\ MaxWrites \in Nat
    /\ Mistyped \subseteq Admins \cup Roots /\ Admins \cap Roots = {}
    /\ NoUser \notin Admins \cup Roots \cup Replicas

VARIABLES
    users,     \* the table users: email -> row
    tenants,   \* tenants.status, by administrator
    tokens,    \* the tokens handed out and not expired
    boot,      \* replica -> where its bootstrap is, with which address
    lock,      \* the holder of the advisory lock
    calls,     \* request -> its operation, step and what it read
    clock,
    writes     \* password writes so far

vars == <<users, tenants, tokens, boot, lock, calls, clock, writes>>

Emails == Admins \cup Roots
Row(role, pw, must, changed) ==
    [role |-> role, pw |-> pw, must |-> must, failed |-> 0, locked |-> 0, changed |-> changed]
NoRow == Row("none", 0, FALSE, 0)
Exists(u) == users[u].role # "none"

Idle == [at |-> "idle", user |-> NoUser, pw |-> 0, match |-> FALSE, locked |-> 0,
         found |-> FALSE, active |-> TRUE, time |-> 0]

Init ==
    /\ users = [e \in Emails |-> IF e \in Admins THEN Row("tenant_admin", 0, FALSE, 0) ELSE NoRow]
    /\ tenants = [a \in Admins |-> "active"]
    /\ tokens = {}
    /\ boot = [r \in Replicas |-> [at |-> "down", email |-> NoUser]]
    /\ lock = NoUser
    /\ calls = [c \in Calls |-> Idle]
    /\ clock = 1
    /\ writes = 0

-----------------------------------------------------------------------------
(* Statements on the table users.                                          *)

\* createUser
CreateUser(e, role) == [users EXCEPT ![e] = Row(role, 0, FALSE, clock)]

\* countSuperAdmins counts these; its caller only asks whether there is one.
SuperAdmins == {e \in Emails : users[e].role = "super_admin"}

\* clearLoginFailures
ClearLoginFailures(u) ==
    IF Exists(u) THEN [users EXCEPT ![u].failed = 0, ![u].locked = 0] ELSE users

\* registerFailedLogin
RegisterFailedLogin(u) ==
    LET reached == users[u].failed + 1 >= MaxFailures
    IN  [users EXCEPT ![u].failed = IF reached THEN 0 ELSE @ + 1,
                      ![u].locked = IF reached THEN clock + LockWindow ELSE @]

\* Faulty variant: the time of the change is not written.
UpdatePasswordUnstamped(u, pw, must, began) ==
    [users EXCEPT ![u] = Row(users[u].role, pw, must, users[u].changed)]

\* updatePassword: now() is the time the transaction began; the failures and the
\* lock are cleared.
UpdatePassword(u, pw, must, began) == [users EXCEPT ![u] = Row(users[u].role, pw, must, began)]

-----------------------------------------------------------------------------
(* User and TokenIssuer.                                                   *)

\* IsLocked
IsLocked(locked, now) == locked > now

\* A time truncated to the second.
Trunc(t) == t - (t % Second)

\* A password write of u has begun and is not committed.
BeingWritten(u) == \E d \in Calls : calls[d].at \in {"changing", "resetting"} /\ calls[d].user = u

\* Issue, for the role's audience.  Of its history a token keeps the password that
\* was verified, and whether a write of it was under way, or over, when it was issued.
Issue(u, pw) ==
    [user |-> u, aud |-> IF u \in Admins THEN "tenant" ELSE "platform", iat |-> Trunc(clock),
     pw |-> pw, raced |-> IF users[u].pw # pw \/ BeingWritten(u) THEN "yes" ELSE "no"]

\* Parse: the expiry. The rest of a token is what Issue signed.
Expired(tok) == clock >= tok.iat + Ttl * Second

Tick ==
    /\ clock < MaxClock
    /\ clock' = clock + 1
    /\ tokens' = {tok \in tokens : clock' < tok.iat + Ttl * Second}
    /\ UNCHANGED <<users, tenants, boot, lock, calls, writes>>

\* Faulty variant: the time of the change is not truncated.
PredatesExactly(row, tok) == tok.iat < row.changed

\* TokenPredatesPasswordChange
TokenPredatesPasswordChange(row, tok) == tok.iat < Trunc(row.changed)

\* tenantStatusOf: no tenant counts as active.
TenantActive(u) == u \in Admins => tenants[u] = "active"

-----------------------------------------------------------------------------
(* BootstrapService.Run, one transaction per replica.                      *)

Goto(r, at) == boot' = [boot EXCEPT ![r] = [at |-> at, email |-> IF at = "create" THEN @.email
                                                                  ELSE NoUser]]
NotAccounts == UNCHANGED <<tenants, tokens, calls, clock, writes>>

\* Begin and LockBootstrap, with the address the variables name, or none.
BootLock(r) ==
    /\ boot[r].at = "down" /\ lock = NoUser
    /\ \E e \in Emails \cup {NoUser} : boot' = [boot EXCEPT ![r] = [at |-> "count", email |-> e]]
    /\ lock' = r
    /\ UNCHANGED users /\ NotAccounts

\* Faulty variant: the lock is released once the super-admins are counted.
BootCountUnlocks(r) ==
    /\ boot[r].at = "count"
    /\ lock' = NoUser
    /\ Goto(r, IF SuperAdmins # {} \/ boot[r].email = NoUser THEN "serving" ELSE "create")
    /\ UNCHANGED users /\ NotAccounts

\* CountSuperAdmins, and the two early returns that end the transaction.
BootCount(r) ==
    /\ boot[r].at = "count"
    /\ IF SuperAdmins # {} \/ boot[r].email = NoUser
       THEN lock' = NoUser /\ Goto(r, "serving")
       ELSE Goto(r, "create") /\ UNCHANGED lock
    /\ UNCHANGED users /\ NotAccounts

\* CreateUser and the commit; an address in use fails the boot.
BootCreate(r) ==
    /\ boot[r].at = "create"
    /\ IF Exists(boot[r].email)
       THEN UNCHANGED users /\ Goto(r, "down")
       ELSE users' = CreateUser(boot[r].email, "super_admin") /\ Goto(r, "serving")
    /\ lock' = NoUser
    /\ NotAccounts

\* The process ends during its boot: the database rolls back and releases the lock.
Crash(r) ==
    /\ boot[r].at \in {"count", "create"}
    /\ Goto(r, "down")
    /\ lock' = IF lock = r THEN NoUser ELSE lock
    /\ UNCHANGED users /\ NotAccounts

\* Requests begin once every replica has booted: a boot and a request share only
\* the super-admin's row, which a boot never touches once it exists.
Serving == \A r \in Replicas : boot[r].at = "serving"

-----------------------------------------------------------------------------
(* Login.                                                                  *)

Return(c) == calls' = [calls EXCEPT ![c] = Idle]
Step(c, at) == calls' = [calls EXCEPT ![c].at = at]
NotBoot == UNCHANGED <<boot, lock, clock>>

\* GetUserCredentialByEmail: the hash, which the password given matches or not,
\* the lock and the tenant's status. An unknown address returns at once.
LoginRead(c, u, match) ==
    /\ calls[c].at = "idle" /\ Serving /\ Exists(u)
    /\ calls' = [calls EXCEPT ![c] =
                   [at |-> "read", user |-> u, pw |-> IF match THEN users[u].pw ELSE 0,
                    match |-> match, locked |-> users[u].locked, found |-> FALSE,
                    active |-> TenantActive(u), time |-> 0]]
    /\ UNCHANGED <<users, tenants, tokens, writes>> /\ NotBoot

\* Faulty variant: only the password is looked at.
LockIgnored(c) == TRUE

\* Login's first refusal, on the row it read.
NotLocked(c) == ~IsLocked(calls[c].locked, clock)

\* The decisions of Login, in its order: a locked account, a wrong password, a
\* suspended tenant. `found` keeps whether the account was found locked.
Found(c, at) ==
    calls' = [calls EXCEPT ![c] = [@ EXCEPT !.at = at, !.locked = 0,
                                           !.found = IsLocked(calls[c].locked, clock)]]

LoginVerify(c) ==
    /\ calls[c].at = "read"
    /\ \/ ~NotLocked(c) /\ Return(c)
       \/ /\ NotLocked(c) /\ ~calls[c].match
          /\ Found(c, "wrong")
       \/ /\ NotLocked(c) /\ calls[c].match /\ ~calls[c].active
          /\ Return(c)
       \/ /\ NotLocked(c) /\ calls[c].match /\ calls[c].active
          /\ Found(c, "right")
    /\ UNCHANGED <<users, tenants, tokens, writes>> /\ NotBoot

\* registerFailedAttempt: the statement and its result, then the record of a
\* lockout when the result is a lock in force.
RegisterFailedAttempt(c) ==
    /\ calls[c].at = "wrong"
    /\ IF Exists(calls[c].user)
       THEN /\ users' = RegisterFailedLogin(calls[c].user)
            /\ calls' = [calls EXCEPT ![c].at = "failed",
                                      ![c].match = users[calls[c].user].failed + 1 >= MaxFailures,
                                      ![c].locked = users'[calls[c].user].locked]
       ELSE Return(c) /\ UNCHANGED users
    /\ UNCHANGED <<tenants, tokens, writes>> /\ NotBoot

RecordLockout(c) ==
    /\ calls[c].at = "failed"
    /\ Return(c)
    /\ UNCHANGED <<users, tenants, tokens, writes>> /\ NotBoot

\* ClearLoginFailures, which does not look at the row again.
LoginClear(c) ==
    /\ calls[c].at = "right"
    /\ users' = ClearLoginFailures(calls[c].user)
    /\ Step(c, "issue")
    /\ UNCHANGED <<tenants, tokens, writes>> /\ NotBoot

LoginIssue(c) ==
    /\ calls[c].at = "issue" /\ Cardinality(tokens) < MaxTokens
    /\ tokens' = tokens \cup {Issue(calls[c].user, calls[c].pw)}
    /\ Return(c)
    /\ UNCHANGED <<users, tenants, writes>> /\ NotBoot

-----------------------------------------------------------------------------
(* Requests that carry a token.                                            *)

\* authenticate: the audience the route wants, the row as it is now, the change
\* of password, the pending change unless the route is the change itself, the
\* tenant, and that a tenant's token still is of its administrator.
Admits(tok, want, enforce) ==
    /\ ~Expired(tok)
    /\ want # "any" => tok.aud = want
    /\ Exists(tok.user)
    /\ ~TokenPredatesPasswordChange(users[tok.user], tok)
    /\ enforce => ~users[tok.user].must
    /\ TenantActive(tok.user)
    /\ tok.aud = "tenant" => users[tok.user].role = "tenant_admin"

Admitted(c, tok, at, target) ==
    /\ calls[c].at = "idle" /\ Serving
    /\ calls' = [calls EXCEPT ![c] = [Idle EXCEPT !.at = at, !.user = target]]
    /\ UNCHANGED <<users, tenants, tokens, writes>> /\ NotBoot

\* The routes of the three groups: POST /auth/password, the tenant plane and
\* the platform plane.
Change(c, tok) == Admits(tok, "any", FALSE) /\ Admitted(c, tok, "verify", tok.user)
TenantRoute(c, tok) == Admits(tok, "tenant", TRUE) /\ Admitted(c, tok, "route", tok.user)
Platform(c, tok) ==
    /\ Admits(tok, "platform", TRUE)
    /\ \E a \in Admins : \E at \in {"reset", "suspend", "activate", "delete"} :
          Admitted(c, tok, at, a)

\* Any other route ends without a change to this state.
RouteReturns(c) ==
    /\ calls[c].at = "route"
    /\ Return(c)
    /\ UNCHANGED <<users, tenants, tokens, writes>> /\ NotBoot

\* PasswordService.Change: the hash is read and verified before the transaction.
ChangeVerify(c, match) ==
    /\ calls[c].at = "verify"
    /\ IF Exists(calls[c].user) /\ match
       THEN Step(c, "change") ELSE Return(c)
    /\ UNCHANGED <<users, tenants, tokens, writes>> /\ NotBoot

\* Begin: the time the transaction's now() will give. ResetTenantAdmin looks for
\* the administrator and generates the password first.
Begin(c) ==
    /\ calls[c].at \in {"change", "reset"}
    /\ \/ /\ calls[c].at = "reset" /\ ~Exists(calls[c].user)
          /\ Return(c)
          /\ UNCHANGED writes
       \/ /\ calls[c].at = "reset" => Exists(calls[c].user)
          /\ writes < MaxWrites
          /\ writes' = writes + 1
          /\ calls' = [calls EXCEPT ![c].at = IF @ = "reset" THEN "resetting" ELSE "changing",
                                    ![c].pw = writes', ![c].time = clock]
    /\ UNCHANGED <<users, tenants, tokens>> /\ NotBoot

\* UpdatePassword, the audit record and the commit. A user deleted meanwhile
\* leaves nothing to update.
WritePassword(c, must) ==
    /\ IF Exists(calls[c].user)
       THEN users' = UpdatePassword(calls[c].user, calls[c].pw, must, calls[c].time)
       ELSE UNCHANGED users
    /\ Return(c)
    /\ UNCHANGED <<tenants, tokens, writes>> /\ NotBoot

WriteChange(c) == calls[c].at = "changing" /\ WritePassword(c, FALSE)
WriteReset(c) == calls[c].at = "resetting" /\ WritePassword(c, TRUE)

\* SetTenantStatus and DeleteTenantByID, which cascades to the users.
SetStatus(c) ==
    /\ calls[c].at \in {"suspend", "activate"}
    /\ tenants' = [tenants EXCEPT ![calls[c].user] =
                     IF @ = "deleted" THEN @
                     ELSE IF calls[c].at = "suspend" THEN "suspended" ELSE "active"]
    /\ Return(c)
    /\ UNCHANGED <<users, tokens, writes>> /\ NotBoot

DeleteTenant(c) ==
    /\ calls[c].at = "delete"
    /\ tenants' = [tenants EXCEPT ![calls[c].user] = "deleted"]
    /\ users' = [users EXCEPT ![calls[c].user] = NoRow]
    /\ Return(c)
    /\ UNCHANGED <<tokens, writes>> /\ NotBoot

-----------------------------------------------------------------------------
Bootstrap(r) == BootLock(r) \/ BootCount(r) \/ BootCreate(r) \/ Crash(r)

Handler(c) ==
    \/ LoginVerify(c) \/ RegisterFailedAttempt(c) \/ RecordLockout(c)
    \/ LoginClear(c) \/ LoginIssue(c)
    \/ RouteReturns(c) \/ Begin(c) \/ WriteChange(c) \/ WriteReset(c) \/ SetStatus(c) \/ DeleteTenant(c)
    \/ \E match \in BOOLEAN : ChangeVerify(c, match)

Request(c) ==
    \/ \E u \in Emails : \E match \in {TRUE, u \notin Mistyped} : LoginRead(c, u, match)
    \/ \E tok \in tokens : Change(c, tok) \/ TenantRoute(c, tok) \/ Platform(c, tok)

Next ==
    \/ Tick
    \/ \E r \in Replicas : Bootstrap(r)
    \/ \E c \in Calls : Handler(c) \/ Request(c)

Spec == Init /\ [][Next]_vars

-----------------------------------------------------------------------------
\* Types; the failure counter stays below the threshold at which it is reset
\* (registerFailedLogin).
TypeOK ==
    /\ \A e \in Emails :
          users[e] \in [role : {"none", "tenant_admin", "super_admin"}, pw : 0..MaxWrites,
                        must : BOOLEAN, failed : 0..(MaxFailures - 1),
                        locked : 0..(MaxClock + LockWindow), changed : 0..MaxClock]
    /\ tenants \in [Admins -> {"active", "suspended", "deleted"}]
    /\ \A tok \in tokens : tok.user \in Emails /\ tok.iat <= clock
    /\ lock \in Replicas \cup {NoUser}
    /\ \A c \in Calls : calls[c].user \in Emails \cup {NoUser}

\* However many replicas boot, in whatever order, with whatever variables, and
\* crash in the middle, one super-admin is created (BootstrapService.Run,
\* LockBootstrap).
OneSuperAdmin == \A e, f \in SuperAdmins : e = f

\* A lock in force is lifted only by a new password, or by a login that looked
\* at the account before the lock was put: no login that found the account
\* locked ever clears it (Login, ClearLoginFailures).
LockStands ==
    [][\A u \in Emails :
         IsLocked(users[u].locked, clock) /\ ~IsLocked(users'[u].locked, clock) /\ users'[u].role # "none"
         => \/ users'[u].pw # users[u].pw
            \/ \E c \in Calls : /\ calls[c].at = "right" /\ calls[c].user = u
                                /\ ~calls[c].found]_vars

\* A token obtained with the password in force is never taken for one older
\* than it, also when it is issued within the second of the change
\* (TokenPredatesPasswordChange).
FreshTokenAccepted ==
    \A tok \in tokens :
        Exists(tok.user) /\ tok.pw = users[tok.user].pw
            => ~TokenPredatesPasswordChange(users[tok.user], tok)

\* A token of an earlier password is refused from the moment the new one is
\* written: unless it was issued in the very second of the change in force, or
\* while a write of the password was under way, by a login that had verified the
\* old one (Change, ResetTenantAdmin, Login, TokenPredatesPasswordChange).
OldPasswordRefused ==
    \A tok \in tokens :
        /\ Exists(tok.user) /\ tok.pw # users[tok.user].pw
        /\ ~TokenPredatesPasswordChange(users[tok.user], tok)
        => tok.iat = Trunc(users[tok.user].changed) \/ tok.raced = "yes"

\* A lockout is recorded only by the attempt that reached the threshold
\* (registerFailedAttempt).
LockoutRecordedOnce ==
    [][\A c \in Calls : calls[c].at = "failed" /\ calls'[c].at = "idle"
                            /\ IsLocked(calls[c].locked, clock) => calls[c].match]_vars
=============================================================================

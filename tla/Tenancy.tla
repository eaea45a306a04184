------------------------------- MODULE Tenancy -------------------------------
(* The tenant plane of the API: tenants, instances and API keys with their     *)
(* security trail (services/tenants.go, instances.go, apikeys.go), the          *)
(* credentials that admit a session command (middleware/auth_apikey.go,        *)
(* auth_connection.go) and what those commands, a suspension and a deletion    *)
(* write on the leases (services/connection.go).                                *)
(*                                                                             *)
(* Transactions run at READ COMMITTED.  One that makes a single write is a     *)
(* step of its own: its row locks order it with the others, its trail entry    *)
(* commits with it, and a failure leaves nothing.  One that reads before it    *)
(* writes has a step for each statement up to the write, which commits.        *)
(* A tenant's administrator comes and goes with the tenant's row.              *)
EXTENDS Naturals, FiniteSets, Functions

CONSTANTS
    Tenants, Instances, Keys,  \* the ids domain.NewID may return
    Names, InstanceNames,
    Nil,
    Calls,                     \* requests in flight
    Mixes,                     \* which operations each request may carry in a behaviour
    MaxEdits,                  \* bound on renames and status changes
    MaxAborts                  \* bound on requests cut short

ASSUME TenancyAssumption ==
    /\ MaxEdits \in Nat /\ MaxAborts \in Nat /\ Nil \notin Tenants \cup Instances \cup Keys
    /\ Mixes \subseteq [Calls -> SUBSET {"tenant", "purge", "instance", "key", "command", "status"}]

VARIABLES
    tenants,    \* the table tenants: id -> row
    instances,  \* the table instances
    keys,       \* the table api_keys
    leases,     \* session_leases.desired_state, by instance
    trail,      \* the table security_events
    gauge,      \* the metric api_keys_active
    device,     \* instance -> its companion device, as the worker and the handset see it
    calls,      \* request -> its step and what it carries
    edits, aborts,
    ops         \* request -> the operations it may carry, one of Mixes

rows == <<tenants, instances, keys, leases>>
vars == <<rows, trail, gauge, device, calls, edits, aborts, ops>>

\* by: the tenant of the actor, Nil for the platform's; parent: the key's instance
Event(type, target) == [type |-> type, target |-> target, by |-> Nil, parent |-> Nil, keys |-> 0, instances |-> 0]
\* seen: does what the request has read or written so far still stand
Idle == [at |-> "idle", t |-> Nil, i |-> Nil, to |-> "none", todo |-> {}, keys |-> 0, instances |-> 0,
         seen |-> "current"]

\* A tenant that exists from the start, so that the ids left are for more.
Init ==
    /\ \E t \in Tenants, n \in Names :
        /\ tenants = [u \in {t} |-> [name |-> n, status |-> "active"]]
        /\ trail = {Event("tenant_created", t)}
    /\ instances = <<>> /\ keys = <<>> /\ leases = <<>>
    /\ gauge = 0
    /\ device = [i \in Instances |-> "none"]
    /\ calls = [c \in Calls |-> Idle]
    /\ edits = 0 /\ aborts = 0
    /\ ops \in Mixes

\* domain.NewID: an id that no row ever had
Fresh(x) == \A e \in trail : e.target # x
Record(e) == trail' = trail \cup {e}
Goto(c, call) == calls' = [calls EXCEPT ![c] = call]
\* The same by a statement that takes from the requests of ds what they go by.
Overtake(c, call, ds) ==
    calls' = [d \in Calls |-> IF d = c THEN call
                             ELSE IF d \in ds THEN [calls[d] EXCEPT !.seen = "overtaken"] ELSE calls[d]]
At(c, at) == calls[c].at = at
Step(c, at) == Goto(c, [calls[c] EXCEPT !.at = at])
Starts(c, op) == At(c, "idle") /\ op \in ops[c]
\* A row inserted; one that is there stays (ON CONFLICT DO NOTHING)
With(f, x, row) == [y \in DOMAIN f \cup {x} |-> IF y \in DOMAIN f THEN f[y] ELSE row]
Without(f, gone) == Restrict(f, DOMAIN f \ gone)

InstancesOf(ts) == {i \in DOMAIN instances : instances[i].tenant \in ts}
KeysOf(is) == {k \in DOMAIN keys : keys[k].inst \in is}

-----------------------------------------------------------------------------
(* The statements.                                                             *)

CreateTenantRow(t, n) ==
    /\ \A u \in DOMAIN tenants : tenants[u].name # n
    /\ tenants' = With(tenants, t, [name |-> n, status |-> "active"])

\* Faulty variant: a rename does not look for the name.
UpdateTenantNameFreely(t, n) ==
    /\ t \in DOMAIN tenants
    /\ tenants' = [tenants EXCEPT ![t].name = n]

UpdateTenantName(t, n) ==
    /\ t \in DOMAIN tenants
    /\ \A u \in DOMAIN tenants \ {t} : tenants[u].name # n
    /\ tenants' = [tenants EXCEPT ![t].name = n]

SetTenantStatus(t, s) ==
    /\ t \in DOMAIN tenants
    /\ tenants' = [tenants EXCEPT ![t].status = s]

CountTenantCascade(t) ==
    [instances |-> Cardinality(InstancesOf({t})), keys |-> Cardinality(KeysOf(InstancesOf({t})))]

\* ON DELETE CASCADE from instances to api_keys and session_leases
CascadeInstances(is) ==
    /\ instances' = Without(instances, is)
    /\ keys' = Without(keys, KeysOf(is))
    /\ leases' = Without(leases, is)

DeleteTenantByID(t) ==
    /\ t \in DOMAIN tenants
    /\ tenants' = Without(tenants, {t})
    /\ CascadeInstances(InstancesOf({t}))

GetInstanceByIDAndTenant(i, t) == i \in DOMAIN instances /\ instances[i].tenant = t

CreateInstanceRow(i, t, n) ==
    /\ t \in DOMAIN tenants
    /\ \A j \in InstancesOf({t}) : instances[j].name # n
    /\ instances' = With(instances, i, [tenant |-> t, name |-> n, intent |-> "stopped"])

RenameInstanceRow(i, t, n) ==
    /\ GetInstanceByIDAndTenant(i, t)
    /\ \A j \in InstancesOf({t}) \ {i} : instances[j].name # n
    /\ instances' = [instances EXCEPT ![i].name = n]

CountKeysByInstance(i) == Cardinality(KeysOf({i}))

DeleteInstanceRow(i, t) ==
    /\ GetInstanceByIDAndTenant(i, t)
    /\ CascadeInstances({i})
    /\ UNCHANGED tenants

CreateAPIKeyRow(k, i) ==
    /\ i \in DOMAIN instances
    /\ keys' = With(keys, k, [inst |-> i, status |-> "active"])

RevokeAPIKey(k, i, t) ==
    /\ k \in DOMAIN keys /\ keys[k].inst = i
    /\ GetInstanceByIDAndTenant(i, t)
    /\ keys' = [keys EXCEPT ![k].status = "revoked"]

\* The status of the key, its instance and its tenant, in one row
GetKeyForAuth(k) ==
    [status |-> keys[k].status, inst |-> keys[k].inst, tenant |-> tenants[instances[keys[k].inst].tenant].status]

CountActiveAPIKeys == Cardinality({k \in DOMAIN keys : keys[k].status = "active"})

\* Faulty variant: the row is made whether or not its instance is there.
EnsureLeaseUnchecked(i) == leases' = With(leases, i, "stopped")

EnsureLease(i) ==
    /\ i \in DOMAIN instances
    /\ leases' = With(leases, i, "stopped")

SetDesiredState(i, s) == leases' = [j \in DOMAIN leases |-> IF j = i THEN s ELSE leases[j]]

SetTenantDesiredState(t, s) ==
    leases' = [j \in DOMAIN leases |-> IF j \in InstancesOf({t}) THEN s ELSE leases[j]]

SetConnectionIntent(i, s) ==
    /\ i \in DOMAIN instances
    /\ instances' = [instances EXCEPT ![i].intent = s]

ListActiveIntentInstancesByTenant(t) == {i \in InstancesOf({t}) : instances[i].intent = "active"}

-----------------------------------------------------------------------------
(* Tenants.                                                                    *)

CreateTenant(c, t, n) ==
    /\ Starts(c, "tenant") /\ Fresh(t)
    /\ CreateTenantRow(t, n)
    /\ Record(Event("tenant_created", t))
    /\ UNCHANGED <<instances, keys, leases, gauge, device, calls, edits, aborts, ops>>

RenameTenant(c, t, n) ==
    /\ Starts(c, "tenant") /\ edits < MaxEdits
    /\ UpdateTenantName(t, n)
    /\ Record(Event("tenant_updated", t))
    /\ edits' = edits + 1
    /\ UNCHANGED <<instances, keys, leases, gauge, device, calls, aborts, ops>>

\* The requests on sessions of tenant t that were let in or began to resume it
\* while it was active.
ActiveFor(t) ==
    {d \in Calls : \/ calls[d].at \in {"resume", "resuming"} /\ calls[d].t = t
                   \/ calls[d].at \in {"ensure", "intent", "desire"} /\ calls[d].i \in InstancesOf({t})}

\* The status commits with its trail entry; the sessions come after.
SetStatus(c, t, s) ==
    /\ Starts(c, "status") /\ edits < MaxEdits
    /\ SetTenantStatus(t, s)
    /\ Record(Event(IF s = "suspended" THEN "tenant_suspended" ELSE "tenant_activated", t))
    /\ Overtake(c, [Idle EXCEPT !.at = IF s = "active" THEN "resume" ELSE "suspend", !.t = t],
                IF s = "suspended" THEN ActiveFor(t) ELSE {})
    /\ edits' = edits + 1
    /\ UNCHANGED <<instances, keys, leases, gauge, device, aborts, ops>>

\* ApplyTenantStatus, suspended: the signals that follow only hasten Yield.
SuspendTenant(c) ==
    /\ At(c, "suspend")
    /\ SetTenantDesiredState(calls[c].t, "stopped")
    /\ Goto(c, Idle)
    /\ UNCHANGED <<tenants, instances, keys, trail, gauge, device, edits, aborts, ops>>

\* resumeTenant: the list, then a statement for each of its instances
ResumeTenant(c) ==
    /\ At(c, "resume")
    /\ Goto(c, [calls[c] EXCEPT !.at = "resuming", !.todo = ListActiveIntentInstancesByTenant(calls[c].t)])
    /\ UNCHANGED <<rows, trail, gauge, device, edits, aborts, ops>>

ResumeInstance(c) ==
    /\ At(c, "resuming")
    /\ \/ /\ calls[c].todo = {} /\ Goto(c, Idle)
          /\ UNCHANGED leases
       \/ \E i \in calls[c].todo :
            /\ SetDesiredState(i, "running")
            /\ Goto(c, [calls[c] EXCEPT !.todo = @ \ {i}])
    /\ UNCHANGED <<tenants, instances, keys, trail, gauge, device, edits, aborts, ops>>

\* Delete: the name is read and compared, the cascade counted, the row deleted.
DeleteTenantRead(c, t, confirm) ==
    /\ Starts(c, "purge") /\ t \in DOMAIN tenants
    /\ confirm = tenants[t].name
    /\ Goto(c, [Idle EXCEPT !.at = "tenant_count", !.t = t])
    /\ UNCHANGED <<rows, trail, gauge, device, edits, aborts, ops>>

DeleteTenantCount(c) ==
    /\ At(c, "tenant_count")
    /\ LET n == CountTenantCascade(calls[c].t)
       IN  Goto(c, [calls[c] EXCEPT !.at = "tenant_delete", !.keys = n.keys, !.instances = n.instances])
    /\ UNCHANGED <<rows, trail, gauge, device, edits, aborts, ops>>

DeleteTenant(c) ==
    /\ At(c, "tenant_delete")
    /\ \/ /\ DeleteTenantByID(calls[c].t)
          /\ Record([Event("tenant_deleted", calls[c].t) EXCEPT !.keys = calls[c].keys, !.instances = calls[c].instances])
       \/ /\ calls[c].t \notin DOMAIN tenants
          /\ UNCHANGED <<rows, trail>>
    /\ Goto(c, Idle)
    /\ UNCHANGED <<gauge, device, edits, aborts, ops>>

-----------------------------------------------------------------------------
(* Instances.  The tenant is the one of the caller's token, read as active     *)
(* when the request came in; the id is whatever the path holds.                *)

Token(t) == t \in DOMAIN tenants /\ tenants[t].status = "active"

CreateInstance(c, t, i, n) ==
    /\ Starts(c, "instance") /\ Token(t) /\ Fresh(i)
    /\ CreateInstanceRow(i, t, n)
    /\ Record([Event("instance_created", i) EXCEPT !.by = t])
    /\ UNCHANGED <<tenants, keys, leases, gauge, device, calls, edits, aborts, ops>>

RenameInstance(c, t, i, n) ==
    /\ Starts(c, "instance") /\ Token(t) /\ edits < MaxEdits
    /\ RenameInstanceRow(i, t, n)
    /\ Record([Event("instance_updated", i) EXCEPT !.by = t])
    /\ edits' = edits + 1
    /\ UNCHANGED <<tenants, keys, leases, gauge, device, calls, aborts, ops>>

DeleteInstanceStart(c, t, i) ==
    /\ Starts(c, "instance") /\ Token(t)
    /\ Goto(c, [Idle EXCEPT !.at = "terminate", !.t = t, !.i = i])
    /\ UNCHANGED <<rows, trail, gauge, device, edits, aborts, ops>>

\* Terminate: the owner logs the device out; nobody owning it is no error.  Any
\* other failure ends Terminate, and Delete goes on.
TerminateLogout(c) ==
    LET i == calls[c].i IN
    /\ At(c, "terminate")
    /\ \/ device[i] = "held" /\ device' = [device EXCEPT ![i] = "none"] /\ Step(c, "stop")
       \/ device[i] = "held" /\ UNCHANGED device /\ Step(c, "count")
       \/ device[i] # "held" /\ UNCHANGED device /\ Step(c, "stop")
    /\ UNCHANGED <<rows, trail, gauge, edits, aborts, ops>>

TerminateStop(c) ==
    /\ At(c, "stop")
    /\ SetDesiredState(calls[c].i, "stopped")
    /\ Step(c, "count")
    /\ UNCHANGED <<tenants, instances, keys, trail, gauge, device, edits, aborts, ops>>

DeleteInstanceCount(c) ==
    /\ At(c, "count")
    /\ Goto(c, [calls[c] EXCEPT !.at = "delete", !.keys = CountKeysByInstance(calls[c].i)])
    /\ UNCHANGED <<rows, trail, gauge, device, edits, aborts, ops>>

\* Faulty variant: the trail entry is left out of the transaction.
DeleteInstanceSilently(c) ==
    /\ At(c, "delete")
    /\ \/ DeleteInstanceRow(calls[c].i, calls[c].t)
       \/ ~GetInstanceByIDAndTenant(calls[c].i, calls[c].t) /\ UNCHANGED rows
    /\ Goto(c, Idle)
    /\ UNCHANGED <<trail, gauge, device, edits, aborts, ops>>

DeleteInstance(c) ==
    /\ At(c, "delete")
    /\ \/ /\ DeleteInstanceRow(calls[c].i, calls[c].t)
          /\ Record([Event("instance_deleted", calls[c].i) EXCEPT !.by = calls[c].t, !.keys = calls[c].keys])
       \/ /\ ~GetInstanceByIDAndTenant(calls[c].i, calls[c].t)
          /\ UNCHANGED <<rows, trail>>
    /\ Goto(c, Idle)
    /\ UNCHANGED <<gauge, device, edits, aborts, ops>>

-----------------------------------------------------------------------------
(* API keys.                                                                   *)

\* Create: the instance is looked up before the transaction.
CreateKeyCheck(c, t, i) ==
    /\ Starts(c, "key") /\ Token(t)
    /\ GetInstanceByIDAndTenant(i, t)
    /\ Goto(c, [Idle EXCEPT !.at = "issue", !.t = t, !.i = i])
    /\ UNCHANGED <<rows, trail, gauge, device, edits, aborts, ops>>

\* The foreign key refuses an instance gone meanwhile.
CreateKey(c, k) ==
    /\ At(c, "issue")
    /\ \/ /\ Fresh(k)
          /\ CreateAPIKeyRow(k, calls[c].i)
          /\ Record([Event("api_key_created", k) EXCEPT !.by = calls[c].t, !.parent = calls[c].i])
          /\ Goto(c, [Idle EXCEPT !.at = "gauge"])
       \/ /\ calls[c].i \notin DOMAIN instances
          /\ Goto(c, Idle)
          /\ UNCHANGED <<keys, trail>>
    /\ UNCHANGED <<tenants, instances, leases, gauge, device, edits, aborts, ops>>

RevokeKey(c, t, i, k) ==
    /\ Starts(c, "key") /\ Token(t)
    /\ RevokeAPIKey(k, i, t)
    /\ Record([Event("api_key_revoked", k) EXCEPT !.by = t, !.parent = i])
    /\ Goto(c, [Idle EXCEPT !.at = "gauge"])
    /\ UNCHANGED <<tenants, instances, leases, gauge, device, edits, aborts, ops>>

\* RefreshActiveKeyGauge, between its read and its write
RefreshCount(c) ==
    /\ At(c, "gauge")
    /\ Goto(c, [calls[c] EXCEPT !.at = "set", !.keys = CountActiveAPIKeys])
    /\ UNCHANGED <<rows, trail, gauge, device, edits, aborts, ops>>

RefreshSet(c) ==
    /\ At(c, "set")
    /\ gauge' = calls[c].keys
    /\ Goto(c, Idle)
    /\ UNCHANGED <<rows, trail, device, edits, aborts, ops>>

-----------------------------------------------------------------------------
(* Session commands.                                                           *)

\* Faulty variant: only the key and its instance are looked at.
AuthenticateKeyAlone(k, i) ==
    k \in DOMAIN keys /\ GetKeyForAuth(k).status = "active" /\ GetKeyForAuth(k).inst = i

AuthenticateKey(k, i) ==
    /\ k \in DOMAIN keys
    /\ GetKeyForAuth(k) = [status |-> "active", inst |-> i, tenant |-> "active"]

\* An API key of the instance, or a token of its tenant
Authenticate(i) ==
    \/ \E k \in Keys : AuthenticateKey(k, i)
    \/ \E t \in Tenants : Token(t) /\ GetInstanceByIDAndTenant(i, t)

\* Connect and Disconnect: authenticated, then three statements.
Command(c, i, s) ==
    /\ Starts(c, "command") /\ Authenticate(i)
    /\ Goto(c, [Idle EXCEPT !.at = "ensure", !.i = i, !.to = s])
    /\ UNCHANGED <<rows, trail, gauge, device, edits, aborts, ops>>

CommandEnsure(c) ==
    /\ At(c, "ensure")
    /\ \/ EnsureLease(calls[c].i) /\ Step(c, "intent")
       \/ calls[c].i \notin DOMAIN instances /\ UNCHANGED leases /\ Goto(c, Idle)
    /\ UNCHANGED <<tenants, instances, keys, trail, gauge, device, edits, aborts, ops>>

\* The requests that found, or wrote, an active intent of instance i.
IntentOn(i) ==
    {d \in Calls : (At(d, "resuming") /\ i \in calls[d].todo) \/ (At(d, "desire") /\ calls[d].i = i)}

CommandIntent(c) ==
    /\ At(c, "intent")
    /\ \/ /\ SetConnectionIntent(calls[c].i, IF calls[c].to = "running" THEN "active" ELSE "stopped")
          /\ Overtake(c, [calls[c] EXCEPT !.at = "desire"],
                      IF calls[c].to = "running" THEN {} ELSE IntentOn(calls[c].i))
       \/ calls[c].i \notin DOMAIN instances /\ UNCHANGED instances /\ Goto(c, Idle)
    /\ UNCHANGED <<tenants, keys, leases, trail, gauge, device, edits, aborts, ops>>

CommandDesire(c) ==
    /\ At(c, "desire")
    /\ SetDesiredState(calls[c].i, calls[c].to)
    /\ Goto(c, Idle)
    /\ UNCHANGED <<tenants, instances, keys, trail, gauge, device, edits, aborts, ops>>

\* The fleet (SessionFleet): a worker takes a session that shall run, and its
\* device gets linked; it lets go of one that shall not.
Serve(i) ==
    /\ i \in DOMAIN leases /\ leases[i] = "running" /\ device[i] # "held"
    /\ device' = [device EXCEPT ![i] = "held"]
    /\ UNCHANGED <<rows, trail, gauge, calls, edits, aborts, ops>>

Yield(i) ==
    /\ device[i] = "held"
    /\ IF i \in DOMAIN leases THEN leases[i] = "stopped" ELSE TRUE
    /\ device' = [device EXCEPT ![i] = "linked"]
    /\ UNCHANGED <<rows, trail, gauge, calls, edits, aborts, ops>>

\* The client goes away, a statement fails or the process stops: what has
\* committed stays.
Abort(c) ==
    /\ ~At(c, "idle") /\ aborts < MaxAborts
    /\ Goto(c, Idle)
    /\ aborts' = aborts + 1
    /\ UNCHANGED <<rows, trail, gauge, device, edits, ops>>

TenantStep(c) ==
    \/ \E t \in Tenants, n \in Names : CreateTenant(c, t, n) \/ RenameTenant(c, t, n) \/ DeleteTenantRead(c, t, n)
    \/ \E t \in Tenants, s \in {"active", "suspended"} : SetStatus(c, t, s)
    \/ SuspendTenant(c) \/ ResumeTenant(c) \/ ResumeInstance(c)
    \/ DeleteTenantCount(c) \/ DeleteTenant(c)

InstanceStep(c) ==
    \/ \E t \in Tenants, i \in Instances, n \in InstanceNames : CreateInstance(c, t, i, n) \/ RenameInstance(c, t, i, n)
    \/ \E t \in Tenants, i \in DOMAIN instances : DeleteInstanceStart(c, t, i)
    \/ TerminateLogout(c) \/ TerminateStop(c) \/ DeleteInstanceCount(c) \/ DeleteInstance(c)

KeyStep(c) ==
    \/ \E t \in Tenants, i \in Instances : CreateKeyCheck(c, t, i)
    \/ \E k \in Keys : CreateKey(c, k)
    \/ \E t \in Tenants, i \in Instances, k \in Keys : RevokeKey(c, t, i, k)
    \/ RefreshCount(c) \/ RefreshSet(c)

CommandStep(c) ==
    \/ \E i \in Instances, s \in {"running", "stopped"} : Command(c, i, s)
    \/ CommandEnsure(c) \/ CommandIntent(c) \/ CommandDesire(c)

Next ==
    \/ \E c \in Calls : TenantStep(c) \/ InstanceStep(c) \/ KeyStep(c) \/ CommandStep(c) \/ Abort(c)
    \/ \E i \in Instances : Serve(i) \/ Yield(i)

Spec == Init /\ [][Next]_vars

-----------------------------------------------------------------------------
(* Properties.                                                                 *)

\* Every variable keeps to the values the code can give it, and no two tenants,
\* and no two instances of a tenant, hold one name.
TypeOK ==
    /\ DOMAIN tenants \subseteq Tenants /\ DOMAIN instances \subseteq Instances /\ DOMAIN keys \subseteq Keys
    /\ \A t \in DOMAIN tenants : tenants[t] \in [name : Names, status : {"active", "suspended"}]
    /\ \A i \in DOMAIN instances :
        instances[i] \in [tenant : Tenants, name : InstanceNames, intent : {"active", "stopped"}]
    /\ \A k \in DOMAIN keys : keys[k] \in [inst : Instances, status : {"active", "revoked"}]
    /\ \A i \in DOMAIN leases : leases[i] \in {"running", "stopped"}
    /\ device \in [Instances -> {"none", "held", "linked"}]
    /\ IsInjective([t \in DOMAIN tenants |-> tenants[t].name])
    /\ IsInjective([i \in DOMAIN instances |-> <<instances[i].tenant, instances[i].name>>])

\* A deletion is final: no request that was under way when a tenant or an
\* instance went brings back a row of it.  An instance has its tenant, a key and
\* a lease have their instance (services/connection.go Connect and
\* services/apikeys.go Create act on an id they looked up earlier).
NoOrphans ==
    /\ \A i \in DOMAIN instances : instances[i].tenant \in DOMAIN tenants
    /\ \A k \in DOMAIN keys : keys[k].inst \in DOMAIN instances
    /\ DOMAIN leases \subseteq DOMAIN instances

Told(type, x) == \E e \in trail : e.type = type /\ e.target = x
OwnerOf(i) == (CHOOSE e \in trail : e.type = "instance_created" /\ e.target = i).by
InstanceOf(k) == (CHOOSE e \in trail : e.type = "api_key_created" /\ e.target = k).parent
InstanceLeft(i) == Told("instance_deleted", i) \/ Told("tenant_deleted", OwnerOf(i))

\* The security trail tells the tables: a row is there exactly when its creation
\* is recorded and neither its own deletion nor that of an ancestor is, and a key
\* is revoked exactly when its revocation is recorded (the recorder writes in
\* the transaction of the change, services/events.go Record).
TrailTellsTheTables ==
    /\ \A t \in Tenants : t \in DOMAIN tenants <=> Told("tenant_created", t) /\ ~Told("tenant_deleted", t)
    /\ \A i \in Instances : i \in DOMAIN instances <=> Told("instance_created", i) /\ ~InstanceLeft(i)
    /\ \A k \in Keys : k \in DOMAIN keys <=> Told("api_key_created", k) /\ ~InstanceLeft(InstanceOf(k))
    /\ \A k \in DOMAIN keys : keys[k].status = "revoked" <=> Told("api_key_revoked", k)

Supported(i) == instances[i].intent = "active" /\ Token(instances[i].tenant)

\* A request that has written the row is about to write the lease.
BringsDown(c, i) ==
    \/ At(c, "suspend") /\ calls[c].t = instances[i].tenant
    \/ At(c, "desire") /\ calls[c].to = "stopped" /\ calls[c].i = i

\* The leases that say running although the intent or the tenant says stopped, and
\* that nobody is about to correct.
Adrift ==
    {i \in DOMAIN leases : leases[i] = "running" /\ ~Supported(i) /\ \A c \in Calls : ~BringsDown(c, i)}

\* desired_state is "derived from the instance intent and the tenant status"
\* (0002_instance_connection.up.sql), by several statements.  A lease comes to say
\* running against the two in two ways only: the request that was to bring it down
\* is cut short, or a request writes what it had found before another request
\* suspended the tenant or stopped the instance (Connect, resumeTenant).
DriftIsOvertaken ==
    [][\A i \in Adrift' \ Adrift :
        \/ aborts' # aborts
        \/ \E c \in Calls : /\ calls[c].seen = "overtaken" /\ calls'[c] # calls[c]
                            /\ i = calls[c].i \/ i \in calls[c].todo]_vars

\* "Every operation takes the tenant from the caller's token and scopes the query
\* by it" (services/instances.go:20): what a request of a tenant does about an
\* instance leaves the sessions of other tenants alone.
ScopedByTenant ==
    [][\A c \in Calls, i \in DOMAIN instances :
        /\ calls[c].at \in {"terminate", "stop", "count", "delete"} /\ calls'[c] # calls[c]
        /\ instances[i].tenant # calls[c].t
        => device'[i] = device[i] /\ (i \in DOMAIN leases => leases'[i] = leases[i])]_vars

\* "Counted before the delete, inside the same transaction, so the audit record
\* cannot disagree with what actually disappeared" (services/instances.go:215):
\* the number of keys in the trail is the number that goes.
AuditCountsWhatGoes ==
    [][\A i \in DOMAIN instances \ DOMAIN instances' :
        \A e \in trail' \ trail : e.target = i => e.keys = Cardinality(DOMAIN keys \ DOMAIN keys')]_vars

\* An instance is logged out before its record goes (FR-007 of the connection
\* feature): one that is gone has no device left on the handset.
DeletedIsUnlinked ==
    \A i \in Instances : Told("instance_created", i) /\ InstanceLeft(i) => device[i] = "none"

\* The gauge counts the usable keys once no request is under way
\* (services/apikeys.go RefreshActiveKeyGauge).
GaugeSettles == (\A c \in Calls : At(c, "idle")) /\ aborts = 0 => gauge = CountActiveAPIKeys

=============================================================================

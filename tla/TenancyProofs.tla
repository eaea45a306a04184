--------------------------- MODULE TenancyProofs ---------------------------
(***************************************************************************)
(* Proofs about Tenancy, for any number of tenants, instances, keys and    *)
(* requests in flight, and any bound on edits and on aborted requests.     *)
(* The parts of the invariant are predicates of the tables they speak of,  *)
(* so that a statement is looked at once, whichever handler makes it.      *)
(***************************************************************************)
EXTENDS Tenancy, TLAPS

-----------------------------------------------------------------------------
(* The inductive invariant.                                                *)

TenantsOK(tn) ==
    /\ DOMAIN tn \subseteq Tenants
    /\ \A t \in DOMAIN tn : tn[t] \in [name : Names, status : {"active", "suspended"}]
    /\ \A t, u \in DOMAIN tn : tn[t].name = tn[u].name => t = u
InstancesOK(ins) ==
    /\ DOMAIN ins \subseteq Instances
    /\ \A i \in DOMAIN ins :
          ins[i] \in [tenant : Tenants, name : InstanceNames, intent : {"active", "stopped"}]
    /\ \A i, j \in DOMAIN ins : ins[i].tenant = ins[j].tenant /\ ins[i].name = ins[j].name => i = j
KeysOK(ks) ==
    /\ DOMAIN ks \subseteq Keys
    /\ \A k \in DOMAIN ks : ks[k] \in [inst : Instances, status : {"active", "revoked"}]
LeasesOK(ls) == \A i \in DOMAIN ls : ls[i] \in {"running", "stopped"}
Linked(tn, ins, ks, ls) ==
    /\ \A i \in DOMAIN ins : ins[i].tenant \in DOMAIN tn
    /\ \A k \in DOMAIN ks : ks[k].inst \in DOMAIN ins
    /\ DOMAIN ls \subseteq DOMAIN ins

\* What the trail tr has.  OwnerOf and InstanceOf pick an entry; Owns and Holds
\* say that there is one.
Has(tr, type, x) == \E e \in tr : e.type = type /\ e.target = x
Owns(tr, t, i) == \E e \in tr : e.type = "instance_created" /\ e.target = i /\ e.by = t
Holds(tr, i, k) == \E e \in tr : e.type = "api_key_created" /\ e.target = k /\ e.parent = i

\* An id is given once, and what an entry names was created before.
CreatedOnce(tr) ==
    /\ \A e, f \in tr :
        e.type = f.type /\ e.target = f.target =>
            /\ e.type = "instance_created" => e.by = f.by
            /\ e.type = "api_key_created" => e.parent = f.parent
    /\ \A e \in tr :
        /\ e.type = "instance_created" => e.by \in Tenants
        /\ e.type \in {"instance_updated", "instance_deleted"} => Owns(tr, e.by, e.target)
        /\ e.type \in {"api_key_created", "api_key_revoked"} =>
              e.parent \in Instances /\ Owns(tr, e.by, e.parent)

\* The rows of each table and what the trail has on them.
TenantsTold(tn, tr) ==
    \A t \in Tenants : t \in DOMAIN tn <=> Has(tr, "tenant_created", t) /\ ~Has(tr, "tenant_deleted", t)
InstancesTold(ins, tr) ==
    /\ \A i \in DOMAIN ins : Owns(tr, ins[i].tenant, i) /\ ~Has(tr, "instance_deleted", i)
    /\ \A i \in Instances, t \in Tenants :
          Owns(tr, t, i) /\ ~Has(tr, "instance_deleted", i) /\ ~Has(tr, "tenant_deleted", t)
          => i \in DOMAIN ins
KeysTold(ins, ks, tr) ==
    /\ \A k \in DOMAIN ks : Holds(tr, ks[k].inst, k)
    /\ \A i \in DOMAIN ins, k \in Keys : Holds(tr, i, k) => k \in DOMAIN ks
    /\ \A k \in DOMAIN ks : ks[k].status = "revoked" <=> Has(tr, "api_key_revoked", k)

\* What a request carries from one statement to the next.
Fields == {"at", "t", "i", "to", "todo", "keys", "instances", "seen"}
Carried(r, tr) ==
    /\ DOMAIN r = Fields
    /\ r.at \in {"ensure", "intent", "desire"} => r.to \in {"running", "stopped"}
    /\ r.at = "issue" => r.i \in Instances /\ Owns(tr, r.t, r.i)

IInv ==
    /\ TenantsOK(tenants) /\ InstancesOK(instances) /\ KeysOK(keys) /\ LeasesOK(leases)
    /\ device \in [Instances -> {"none", "held", "linked"}]
    /\ Linked(tenants, instances, keys, leases)
    /\ CreatedOnce(trail)
    /\ TenantsTold(tenants, trail) /\ InstancesTold(instances, trail)
    /\ KeysTold(instances, keys, trail)
    /\ DOMAIN calls = Calls /\ \A c \in Calls : Carried(calls[c], trail)

-----------------------------------------------------------------------------
(* The tables.                                                             *)

\* What an entry adds to the trail.
LEMMA Recorded ==
    ASSUME NEW tr, NEW e
    PROVE  /\ \A type, x : Has(tr \cup {e}, type, x) <=> Has(tr, type, x) \/ (e.type = type /\ e.target = x)
           /\ \A t, i : Owns(tr \cup {e}, t, i)
                        <=> Owns(tr, t, i) \/ (e.type = "instance_created" /\ e.target = i /\ e.by = t)
           /\ \A i, k : Holds(tr \cup {e}, i, k)
                        <=> Holds(tr, i, k) \/ (e.type = "api_key_created" /\ e.target = k /\ e.parent = i)
  BY Zenon DEF Has, Owns, Holds

\* An id that is new has no entry.
LEMMA FreshHasNone ==
    ASSUME NEW x, Fresh(x)
    PROVE  /\ \A type : ~Has(trail, type, x)
           /\ \A t : ~Owns(trail, t, x) /\ ~Holds(trail, t, x)
  BY Zenon DEF Fresh, Has, Owns, Holds

\* An entry that keeps to what CreatedOnce says of one keeps it.
LEMMA RecordedOnce ==
    ASSUME CreatedOnce(trail), NEW e, Record(e),
           e.type \in {"instance_created", "api_key_created"} => Fresh(e.target),
           e.type = "instance_created" => e.by \in Tenants,
           e.type \in {"instance_updated", "instance_deleted"} => Owns(trail, e.by, e.target),
           e.type \in {"api_key_created", "api_key_revoked"} =>
              e.parent \in Instances /\ Owns(trail, e.by, e.parent)
    PROVE  CreatedOnce(trail')
<1>1. trail' = trail \cup {e}
  BY Zenon DEF Record
<1>2. \A t, i : Owns(trail, t, i) => Owns(trail', t, i)
  BY <1>1, Recorded, Zenon
<1>3. ASSUME NEW f \in trail, f.type = e.type, f.target = e.target
      PROVE  f.type \notin {"instance_created", "api_key_created"}
  BY <1>3, Zenon DEF Fresh
<1>4. ASSUME NEW f \in trail', NEW g \in trail', f.type = g.type, f.target = g.target
      PROVE  /\ f.type = "instance_created" => f.by = g.by
             /\ f.type = "api_key_created" => f.parent = g.parent
  BY <1>1, <1>3, <1>4, Zenon DEF CreatedOnce
<1>5. ASSUME NEW f \in trail'
      PROVE  /\ f.type = "instance_created" => f.by \in Tenants
             /\ f.type \in {"instance_updated", "instance_deleted"} => Owns(trail', f.by, f.target)
             /\ f.type \in {"api_key_created", "api_key_revoked"} =>
                  f.parent \in Instances /\ Owns(trail', f.by, f.parent)
  BY <1>1, <1>2, Zenon DEF CreatedOnce
<1> QED BY <1>4, <1>5, Zenon DEF CreatedOnce

\* One tenant created an instance, one instance got a key.
LEMMA OneCreator ==
    ASSUME NEW tr, CreatedOnce(tr)
    PROVE  /\ \A i, t, u : Owns(tr, t, i) /\ Owns(tr, u, i) => t = u /\ t \in Tenants
           /\ \A k, i, j : Holds(tr, i, k) /\ Holds(tr, j, k) => i = j
           /\ \A k, i : Holds(tr, i, k) => i \in Instances /\ \E t : Owns(tr, t, i)
  BY DEF CreatedOnce, Owns, Holds

-----------------------------------------------------------------------------
(* Requests, leases and devices.                                           *)

\* A request that is over, or starts one that carries no promise.
LEMMA IdleCarried == \A tr : Carried(Idle, tr)
  BY Zenon DEF Carried, Idle, Fields

\* The request goes on with the record r; the trail only grows.
LEMMA Moves ==
    ASSUME IInv, NEW c \in Calls, NEW r, Goto(c, r), Carried(r, trail'),
           trail \subseteq trail'
    PROVE  DOMAIN calls' = Calls /\ \A d \in Calls : Carried(calls'[d], trail')
<1>1. \A t, i : Owns(trail, t, i) => Owns(trail', t, i)
  BY Zenon DEF Owns
<1>2. DOMAIN calls' = Calls /\ calls'[c] = r /\ \A d \in Calls : d # c => calls'[d] = calls[d]
  BY Zenon DEF Goto, IInv
<1>3. \A d \in Calls : Carried(calls[d], trail')
  BY <1>1, Zenon DEF IInv, Carried
<1> QED BY <1>2, <1>3, Zenon

\* The same when the statement overtakes the requests of ds: they only learn it.
Same(q, r) ==
    /\ DOMAIN q = Fields /\ q.at = r.at /\ q.t = r.t /\ q.i = r.i /\ q.to = r.to /\ q.todo = r.todo

LEMMA Overtaken ==
    ASSUME IInv, NEW c \in Calls, NEW r, NEW ds, Overtake(c, r, ds)
    PROVE  /\ DOMAIN calls' = Calls /\ calls'[c] = r
           /\ \A d \in Calls : d # c => Same(calls'[d], calls[d])
           /\ \A d \in Calls : d # c /\ d \in ds => calls'[d].seen = "overtaken"
           /\ \A d \in Calls : d # c /\ d \notin ds => calls'[d] = calls[d]
<1>1. DOMAIN calls' = Calls /\ calls'[c] = r
  BY Zenon DEF Overtake
<1>2. ASSUME NEW d \in Calls, d # c
      PROVE  calls'[d] = IF d \in ds THEN [calls[d] EXCEPT !.seen = "overtaken"] ELSE calls[d]
  BY <1>2, Zenon DEF Overtake
<1>3. ASSUME NEW d \in Calls, d # c, d \in ds
      PROVE  Same(calls'[d], calls[d]) /\ calls'[d].seen = "overtaken"
  <2> DEFINE q == [calls[d] EXCEPT !.seen = "overtaken"]
  <2>1. DOMAIN calls[d] = Fields
    BY Zenon DEF IInv, Carried
  <2>2. Same(q, calls[d]) /\ q.seen = "overtaken"
    BY <2>1, Zenon DEF Fields, Same
  <2>3. calls'[d] = q
    BY <1>2, <1>3, Zenon
  <2> QED BY <2>2, <2>3, Zenon
<1>4. ASSUME NEW d \in Calls, d # c, d \notin ds
      PROVE  Same(calls'[d], calls[d]) /\ calls'[d] = calls[d]
  BY <1>2, <1>4, Zenon DEF Same, IInv, Carried
<1> QED BY <1>1, <1>3, <1>4, Zenon

LEMMA OvertakenCarried ==
    ASSUME IInv, NEW c \in Calls, NEW r, NEW ds, Overtake(c, r, ds), Carried(r, trail'),
           trail \subseteq trail'
    PROVE  DOMAIN calls' = Calls /\ \A d \in Calls : Carried(calls'[d], trail')
<1>1. \A t, i : Owns(trail, t, i) => Owns(trail', t, i)
  BY Zenon DEF Owns
<1>2. \A d \in Calls : Carried(calls[d], trail')
  BY <1>1, Zenon DEF IInv, Carried
<1>3. ASSUME NEW d \in Calls, d # c  PROVE  Carried(calls'[d], trail')
  <2>1. Same(calls'[d], calls[d])
    BY <1>3, Overtaken, Zenon
  <2> QED BY <1>2, <2>1, Zenon DEF Carried, Same
<1>4. DOMAIN calls' = Calls /\ calls'[c] = r
  BY Overtaken, Zenon
<1> QED BY <1>3, <1>4, Zenon

\* No request goes on, but the trail may grow.
LEMMA Stays ==
    ASSUME IInv, UNCHANGED calls, trail \subseteq trail'
    PROVE  DOMAIN calls' = Calls /\ \A d \in Calls : Carried(calls'[d], trail')
<1>1. \A t, i : Owns(trail, t, i) => Owns(trail', t, i)
  BY Zenon DEF Owns
<1> QED BY <1>1, Zenon DEF IInv, Carried

\* A step that writes leases and devices only.
LEMMA RowsKept ==
    ASSUME IInv, UNCHANGED <<tenants, instances, keys, trail>>,
           LeasesOK(leases'), DOMAIN leases' \subseteq DOMAIN instances,
           device' \in [Instances -> {"none", "held", "linked"}],
           DOMAIN calls' = Calls, \A d \in Calls : Carried(calls'[d], trail')
    PROVE  IInv'
  BY Zenon DEF IInv, Linked

\* A step of a request that writes no table.
LEMMA CallOnly ==
    ASSUME IInv, NEW c \in Calls, NEW r, Goto(c, r), Carried(r, trail),
           UNCHANGED <<rows, trail>>, device' \in [Instances -> {"none", "held", "linked"}]
    PROVE  IInv'
<1>1. DOMAIN calls' = Calls /\ \A d \in Calls : Carried(calls'[d], trail')
  BY Moves, Zenon DEF rows
<1> QED BY <1>1, RowsKept, Zenon DEF rows, IInv, Linked

\* SetDesiredState and SetTenantDesiredState write leases that are there.
LEMMA Desired ==
    ASSUME LeasesOK(leases), NEW s \in {"running", "stopped"}, NEW i,
           SetDesiredState(i, s) \/ SetTenantDesiredState(i, s)
    PROVE  LeasesOK(leases') /\ DOMAIN leases' = DOMAIN leases
  BY Zenon DEF LeasesOK, SetDesiredState, SetTenantDesiredState

\* The record of a request with some fields replaced.
LEMMA CallFields ==
    ASSUME NEW c \in Calls, IInv, NEW at
    PROVE  /\ DOMAIN [calls[c] EXCEPT !.at = at] = Fields
           /\ [calls[c] EXCEPT !.at = at].at = at
           /\ [calls[c] EXCEPT !.at = at].to = calls[c].to
  BY Zenon DEF IInv, Carried, Fields

\* A handler's statements that write nothing but its request, and the device.
LEMMA CallSteps ==
    ASSUME IInv, NEW c \in Calls,
           \/ ResumeTenant(c) \/ DeleteTenantCount(c) \/ DeleteInstanceCount(c) \/ TerminateLogout(c)
           \/ RefreshCount(c) \/ RefreshSet(c) \/ Abort(c)
           \/ \E t \in Tenants, n \in Names : DeleteTenantRead(c, t, n)
           \/ \E t \in Tenants, i \in DOMAIN instances : DeleteInstanceStart(c, t, i)
           \/ \E t \in Tenants, i \in Instances : CreateKeyCheck(c, t, i)
           \/ \E i \in Instances, s \in {"running", "stopped"} : Command(c, i, s)
    PROVE  IInv'
<1>0. UNCHANGED <<rows, trail>>
  BY Zenon DEF ResumeTenant, DeleteTenantCount, DeleteInstanceCount, TerminateLogout, RefreshCount,
         RefreshSet, Abort, DeleteTenantRead, DeleteInstanceStart, CreateKeyCheck, Command
<1>1. device' \in [Instances -> {"none", "held", "linked"}]
  BY Zenon DEF IInv, ResumeTenant, DeleteTenantCount, DeleteInstanceCount, TerminateLogout, RefreshCount,
         RefreshSet, Abort, DeleteTenantRead, DeleteInstanceStart, CreateKeyCheck, Command
<1>2. DOMAIN calls[c] = Fields
  BY Zenon DEF IInv, Carried
<1>3. ASSUME NEW at \in {"stop", "count"}, Step(c, at) PROVE IInv'
  BY <1>0, <1>1, <1>3, CallFields, CallOnly, Zenon DEF Step, Carried
<1>4. CASE ResumeTenant(c)
  <2> DEFINE r == [calls[c] EXCEPT !.at = "resuming", !.todo = ListActiveIntentInstancesByTenant(calls[c].t)]
  <2>1. Carried(r, trail)
    BY <1>2, Zenon DEF Carried, Fields
  <2> QED BY <1>0, <1>1, <1>4, <2>1, CallOnly, Zenon DEF ResumeTenant
<1>5. CASE DeleteTenantCount(c)
  <2> DEFINE n == CountTenantCascade(calls[c].t)
             r == [calls[c] EXCEPT !.at = "tenant_delete", !.keys = n.keys, !.instances = n.instances]
  <2>1. Carried(r, trail)
    BY <1>2, Zenon DEF Carried, Fields
  <2> QED BY <1>0, <1>1, <1>5, <2>1, CallOnly, Zenon DEF DeleteTenantCount
<1>6. CASE DeleteInstanceCount(c)
  <2> DEFINE r == [calls[c] EXCEPT !.at = "delete", !.keys = CountKeysByInstance(calls[c].i)]
  <2>1. Carried(r, trail)
    BY <1>2, Zenon DEF Carried, Fields
  <2> QED BY <1>0, <1>1, <1>6, <2>1, CallOnly, Zenon DEF DeleteInstanceCount
<1>7. CASE RefreshCount(c)
  <2> DEFINE r == [calls[c] EXCEPT !.at = "set", !.keys = CountActiveAPIKeys]
  <2>1. Carried(r, trail)
    BY <1>2, Zenon DEF Carried, Fields
  <2> QED BY <1>0, <1>1, <1>7, <2>1, CallOnly, Zenon DEF RefreshCount
<1>8. ASSUME NEW t, NEW i, NEW at \in {"tenant_count", "terminate"}
      PROVE  /\ Carried([Idle EXCEPT !.at = at, !.t = t], trail)
             /\ Carried([Idle EXCEPT !.at = at, !.t = t, !.i = i], trail)
  BY Zenon DEF Carried, Idle, Fields
<1>9. ASSUME NEW i \in Instances, NEW t, GetInstanceByIDAndTenant(i, t)
      PROVE  Carried([Idle EXCEPT !.at = "issue", !.t = t, !.i = i], trail)
  <2>1. Owns(trail, t, i)
    BY <1>9, Zenon DEF IInv, InstancesTold, GetInstanceByIDAndTenant
  <2> QED BY <2>1, Zenon DEF Carried, Idle, Fields
<1>10. ASSUME NEW i, NEW s \in {"running", "stopped"}
       PROVE  Carried([Idle EXCEPT !.at = "ensure", !.i = i, !.to = s], trail)
  BY Zenon DEF Carried, Idle, Fields
<1>11. CASE TerminateLogout(c)
  BY <1>3, <1>11, Zenon DEF TerminateLogout
<1>12. CASE RefreshSet(c) \/ Abort(c)
  BY <1>0, <1>1, <1>12, IdleCarried, CallOnly, Zenon DEF RefreshSet, Abort
<1>13. CASE \E t \in Tenants, n \in Names : DeleteTenantRead(c, t, n)
  BY <1>0, <1>1, <1>8, <1>13, CallOnly, Zenon DEF DeleteTenantRead
<1>14. CASE \E t \in Tenants, i \in DOMAIN instances : DeleteInstanceStart(c, t, i)
  BY <1>0, <1>1, <1>8, <1>14, CallOnly, Zenon DEF DeleteInstanceStart
<1>15. CASE \E t \in Tenants, i \in Instances : CreateKeyCheck(c, t, i)
  BY <1>0, <1>1, <1>9, <1>15, CallOnly, Zenon DEF CreateKeyCheck
<1>16. CASE \E i \in Instances, s \in {"running", "stopped"} : Command(c, i, s)
  BY <1>0, <1>1, <1>10, <1>16, CallOnly, Zenon DEF Command
<1> QED BY <1>4, <1>5, <1>6, <1>7, <1>11, <1>12, <1>13, <1>14, <1>15, <1>16, Zenon

\* A handler's statements that write leases.
LEMMA LeaseSteps ==
    ASSUME IInv, NEW c \in Calls,
           SuspendTenant(c) \/ ResumeInstance(c) \/ TerminateStop(c) \/ CommandEnsure(c) \/ CommandDesire(c)
    PROVE  IInv'
<1>0. UNCHANGED <<tenants, instances, keys, trail, device>>
  BY Zenon DEF SuspendTenant, ResumeInstance, TerminateStop, CommandEnsure, CommandDesire
<1>1. DOMAIN calls[c] = Fields /\ LeasesOK(leases) /\ DOMAIN leases \subseteq DOMAIN instances
  BY Zenon DEF IInv, Carried, Linked
<1>2. LeasesOK(leases') /\ DOMAIN leases' \subseteq DOMAIN instances
  <2>1. CASE CommandEnsure(c)
    <3>1. CASE EnsureLease(calls[c].i)
      BY <1>1, <3>1, Zenon DEF EnsureLease, LeasesOK, With
    <3> QED BY <1>1, <2>1, <3>1, Zenon DEF CommandEnsure
  <2>2. CASE SuspendTenant(c)
    BY <1>1, <2>2, Desired, Zenon DEF SuspendTenant
  <2>3. CASE ResumeInstance(c)
    BY <1>1, <2>3, Desired, Zenon DEF ResumeInstance
  <2>4. CASE TerminateStop(c)
    BY <1>1, <2>4, Desired, Zenon DEF TerminateStop
  <2>5. CASE CommandDesire(c)
    <3>1. calls[c].to \in {"running", "stopped"}
      BY <2>5, Zenon DEF CommandDesire, At, IInv, Carried
    <3> QED BY <1>1, <2>5, <3>1, Desired, Zenon DEF CommandDesire
  <2> QED BY <2>1, <2>2, <2>3, <2>4, <2>5, Zenon
<1>3. \E r : Goto(c, r) /\ Carried(r, trail')
  <2>1. CASE Goto(c, Idle)
    BY <2>1, IdleCarried, Zenon
  <2>2. CASE ResumeInstance(c) /\ \E i \in calls[c].todo : Goto(c, [calls[c] EXCEPT !.todo = @ \ {i}])
    <3> PICK i \in calls[c].todo : Goto(c, [calls[c] EXCEPT !.todo = @ \ {i}])
      BY <2>2, Zenon
    <3>1. Carried([calls[c] EXCEPT !.todo = @ \ {i}], trail')
      BY <1>1, <2>2, Zenon DEF ResumeInstance, At, Carried, Fields
    <3> QED BY <3>1, Zenon
  <2>3. CASE TerminateStop(c)
    <3>1. "count" \notin {"ensure", "intent", "desire"} /\ "count" # "issue"
      OBVIOUS
    <3> QED BY <2>3, <3>1, CallFields, Zenon DEF TerminateStop, Step, Carried
  <2>4. CASE CommandEnsure(c) /\ Step(c, "intent")
    <3>1. calls[c].to \in {"running", "stopped"}
      BY <2>4, Zenon DEF CommandEnsure, At, IInv, Carried
    <3>2. "intent" # "issue"
      OBVIOUS
    <3> QED BY <2>4, <3>1, <3>2, CallFields, Zenon DEF Step, Carried
  <2> QED BY <2>1, <2>2, <2>3, <2>4, Zenon
          DEF SuspendTenant, ResumeInstance, TerminateStop, CommandEnsure, CommandDesire
<1>4. DOMAIN calls' = Calls /\ \A d \in Calls : Carried(calls'[d], trail')
  BY <1>0, <1>3, Moves, Zenon
<1> QED BY <1>0, <1>2, <1>4, RowsKept, Zenon DEF IInv

-----------------------------------------------------------------------------
(* Tenants and instances.                                                  *)

\* An entry on the state of a tenant or an instance changes nothing the tables
\* are told by.
LEMMA Noted ==
    ASSUME IInv, NEW e, Record(e),
           e.type \in {"tenant_updated", "tenant_suspended", "tenant_activated", "instance_updated"}
    PROVE  /\ TenantsTold(tenants, trail') /\ InstancesTold(instances, trail')
           /\ KeysTold(instances, keys, trail')
<1>1. /\ \A t, i : Owns(trail', t, i) <=> Owns(trail, t, i)
      /\ \A i, k : Holds(trail', i, k) <=> Holds(trail, i, k)
      /\ \A x : \A type \in {"tenant_created", "tenant_deleted", "instance_deleted", "api_key_revoked"} :
            Has(trail', type, x) <=> Has(trail, type, x)
  BY Recorded, Zenon DEF Record
<1> QED BY <1>1, Zenon DEF IInv, TenantsTold, InstancesTold, KeysTold

\* CreateTenant.
LEMMA CreateTenantStep ==
    ASSUME IInv, NEW c \in Calls, NEW t \in Tenants, NEW n \in Names, CreateTenant(c, t, n)
    PROVE  IInv'
<1> DEFINE e == Event("tenant_created", t)
<1>1. e.type = "tenant_created" /\ e.target = t
  BY Zenon DEF Event
<1>2. /\ Record(e) /\ Fresh(t) /\ UNCHANGED <<instances, keys, leases, device, calls>>
      /\ tenants' = With(tenants, t, [name |-> n, status |-> "active"])
      /\ \A u \in DOMAIN tenants : tenants[u].name # n
  BY Zenon DEF CreateTenant, CreateTenantRow
<1> HIDE DEF e
<1>3. t \notin DOMAIN tenants
  BY <1>2, FreshHasNone, Zenon DEF IInv, TenantsTold
<1>4. DOMAIN tenants' = DOMAIN tenants \cup {t} /\ tenants'[t] = [name |-> n, status |-> "active"]
      /\ \A u \in DOMAIN tenants : tenants'[u] = tenants[u]
  BY <1>2, <1>3, Zenon DEF With
<1>5. TenantsOK(tenants')
  BY <1>2, <1>4 DEF IInv, TenantsOK
<1>6. CreatedOnce(trail')
  BY <1>1, <1>2, RecordedOnce, Zenon DEF IInv
<1>7. trail' = trail \cup {e}
  BY <1>2, Zenon DEF Record
<1>8. /\ \A u, i : Owns(trail', u, i) <=> Owns(trail, u, i)
      /\ \A i, k : Holds(trail', i, k) <=> Holds(trail, i, k)
      /\ \A type, x : Has(trail', type, x) <=> Has(trail, type, x) \/ (type = "tenant_created" /\ x = t)
  BY <1>1, <1>7, Recorded, Zenon
<1>9. TenantsTold(tenants', trail')
  BY <1>2, <1>4, <1>8, FreshHasNone DEF IInv, TenantsTold
<1>10. InstancesTold(instances', trail') /\ KeysTold(instances', keys', trail')
  BY <1>2, <1>8, Zenon DEF IInv, InstancesTold, KeysTold
<1>11. Linked(tenants', instances', keys', leases')
  BY <1>2, <1>4, Zenon DEF IInv, Linked
<1> QED BY <1>2, <1>5, <1>6, <1>7, <1>9, <1>10, <1>11, Stays, Zenon DEF IInv

\* Rename and the change of a status: the row keeps its place.
LEMMA EditTenantStep ==
    ASSUME IInv, NEW t, NEW e, Record(e),
           e.type \in {"tenant_updated", "tenant_suspended", "tenant_activated"},
           \/ \E n \in Names : UpdateTenantName(t, n)
           \/ \E s \in {"active", "suspended"} : SetTenantStatus(t, s),
           UNCHANGED <<instances, keys, leases, device>>,
           DOMAIN calls' = Calls, \A d \in Calls : Carried(calls'[d], trail')
    PROVE  IInv'
<1>1. DOMAIN tenants' = DOMAIN tenants
  BY Zenon DEF UpdateTenantName, SetTenantStatus
<1>2. TenantsOK(tenants')
  <2>1. CASE \E n \in Names : UpdateTenantName(t, n)
    BY <2>1 DEF IInv, TenantsOK, UpdateTenantName
  <2>2. CASE \E s \in {"active", "suspended"} : SetTenantStatus(t, s)
    BY <2>2 DEF IInv, TenantsOK, SetTenantStatus
  <2> QED BY <2>1, <2>2, Zenon
<1>3. CreatedOnce(trail')
  BY RecordedOnce, Zenon DEF IInv
<1>4. TenantsTold(tenants', trail') /\ InstancesTold(instances', trail') /\ KeysTold(instances', keys', trail')
  BY <1>1, Noted, Zenon DEF TenantsTold
<1>5. Linked(tenants', instances', keys', leases')
  BY <1>1, Zenon DEF IInv, Linked
<1> QED BY <1>2, <1>3, <1>4, <1>5, Zenon DEF IInv

\* Rename and the intent of a command: the row keeps its place and its tenant.
LEMMA EditInstanceStep ==
    ASSUME IInv, NEW i, DOMAIN instances' = DOMAIN instances, InstancesOK(instances'),
           \A j \in DOMAIN instances : instances'[j].tenant = instances[j].tenant,
           CreatedOnce(trail'), TenantsTold(tenants, trail'), InstancesTold(instances, trail'),
           KeysTold(instances, keys, trail'),
           UNCHANGED <<tenants, keys, leases, device>>,
           DOMAIN calls' = Calls, \A d \in Calls : Carried(calls'[d], trail')
    PROVE  IInv'
<1>1. InstancesTold(instances', trail') /\ KeysTold(instances', keys', trail')
  BY Zenon DEF InstancesTold, KeysTold
<1>2. Linked(tenants', instances', keys', leases')
  BY Zenon DEF IInv, Linked
<1> QED BY <1>1, <1>2, Zenon DEF IInv

\* RenameInstance and CommandIntent.
LEMMA InstanceEdits ==
    ASSUME IInv, NEW c \in Calls,
           \/ \E t \in Tenants, i \in Instances, n \in InstanceNames : RenameInstance(c, t, i, n)
           \/ CommandIntent(c)
    PROVE  IInv'
<1>1. ASSUME NEW t \in Tenants, NEW i \in Instances, NEW n \in InstanceNames, RenameInstance(c, t, i, n)
      PROVE  IInv'
  <2> DEFINE e == [Event("instance_updated", i) EXCEPT !.by = t]
  <2>1. e.type = "instance_updated" /\ e.target = i /\ e.by = t
    BY Zenon DEF Event
  <2>2. Record(e) /\ RenameInstanceRow(i, t, n) /\ UNCHANGED <<tenants, keys, leases, device, calls>>
    BY <1>1, Zenon DEF RenameInstance
  <2> HIDE DEF e
  <2>3. DOMAIN instances' = DOMAIN instances /\ InstancesOK(instances')
        /\ \A j \in DOMAIN instances : instances'[j].tenant = instances[j].tenant
    BY <2>2 DEF IInv, InstancesOK, RenameInstanceRow, GetInstanceByIDAndTenant, InstancesOf
  <2>4. Owns(trail, t, i)
    BY <2>2, Zenon DEF IInv, InstancesTold, RenameInstanceRow, GetInstanceByIDAndTenant
  <2>5. CreatedOnce(trail')
    BY <2>1, <2>2, <2>4, RecordedOnce, Zenon DEF IInv
  <2>6. trail \subseteq trail'
    BY <2>2, Zenon DEF Record
  <2> QED BY <2>1, <2>2, <2>3, <2>5, <2>6, Noted, Stays, EditInstanceStep, Zenon
<1>2. CASE CommandIntent(c)
  <2>1. DOMAIN instances' = DOMAIN instances /\ InstancesOK(instances')
        /\ \A j \in DOMAIN instances : instances'[j].tenant = instances[j].tenant
    BY <1>2 DEF CommandIntent, SetConnectionIntent, IInv, InstancesOK
  <2>2. /\ UNCHANGED <<tenants, keys, leases, device, trail>>
        /\ Goto(c, Idle) \/ \E ds : Overtake(c, [calls[c] EXCEPT !.at = "desire"], ds)
    BY <1>2, Zenon DEF CommandIntent
  <2>3. calls[c].to \in {"running", "stopped"} /\ "desire" # "issue"
    BY <1>2, Zenon DEF CommandIntent, At, IInv, Carried
  <2>4. Carried([calls[c] EXCEPT !.at = "desire"], trail')
    BY <2>3, CallFields, Zenon DEF Carried
  <2>5. DOMAIN calls' = Calls /\ \A d \in Calls : Carried(calls'[d], trail')
    BY <2>2, <2>4, Moves, OvertakenCarried, IdleCarried, Zenon
  <2> QED BY <2>1, <2>2, <2>5, EditInstanceStep, Zenon DEF IInv
<1> QED BY <1>1, <1>2, Zenon

\* CreateInstance.
LEMMA CreateInstanceStep ==
    ASSUME IInv, NEW c \in Calls, NEW t \in Tenants, NEW i \in Instances, NEW n \in InstanceNames,
           CreateInstance(c, t, i, n)
    PROVE  IInv'
<1> DEFINE e == [Event("instance_created", i) EXCEPT !.by = t]
           row == [tenant |-> t, name |-> n, intent |-> "stopped"]
<1>1. /\ e.type = "instance_created" /\ e.target = i /\ e.by = t
      /\ row \in [tenant : Tenants, name : InstanceNames, intent : {"active", "stopped"}]
      /\ row.tenant = t /\ row.name = n
  BY Zenon DEF Event
<1>2. /\ Record(e) /\ Fresh(i) /\ UNCHANGED <<tenants, keys, leases, device, calls>>
      /\ instances' = With(instances, i, row) /\ t \in DOMAIN tenants
      /\ \A j \in DOMAIN instances : instances[j].tenant = t => instances[j].name # n
  BY Zenon DEF CreateInstance, CreateInstanceRow, InstancesOf
<1> HIDE DEF e, row
<1>3. i \notin DOMAIN instances
  BY <1>2, FreshHasNone, Zenon DEF IInv, InstancesTold
<1>4. DOMAIN instances' = DOMAIN instances \cup {i} /\ instances'[i] = row
      /\ \A j \in DOMAIN instances : instances'[j] = instances[j]
  BY <1>2, <1>3, Zenon DEF With
<1>5. InstancesOK(instances')
  BY <1>1, <1>2, <1>4 DEF IInv, InstancesOK
<1>6. CreatedOnce(trail')
  BY <1>1, <1>2, RecordedOnce, Zenon DEF IInv
<1>7. trail' = trail \cup {e}
  BY <1>2, Zenon DEF Record
<1>8. /\ \A u, j : Owns(trail', u, j) <=> Owns(trail, u, j) \/ (u = t /\ j = i)
      /\ \A j, k : Holds(trail', j, k) <=> Holds(trail, j, k)
      /\ \A x : \A type \in {"tenant_created", "tenant_deleted", "instance_deleted", "api_key_revoked"} :
            Has(trail', type, x) <=> Has(trail, type, x)
  <2>1. ASSUME NEW u, NEW j PROVE Owns(trail', u, j) <=> (Owns(trail, u, j) \/ (u = t /\ j = i))
    <3>1. Owns(trail \cup {e}, u, j)
          <=> (Owns(trail, u, j) \/ (e.type = "instance_created" /\ e.target = j /\ e.by = u))
      BY Recorded, Zenon
    <3> QED BY <1>1, <1>7, <3>1, Zenon
  <2>2. \A j, k : Holds(trail', j, k) <=> Holds(trail, j, k)
    BY <1>1, <1>7, Recorded, Zenon
  <2>3. \A x, type : type # "instance_created" => (Has(trail', type, x) <=> Has(trail, type, x))
    BY <1>1, <1>7, Recorded
  <2> QED BY <2>1, <2>2, <2>3, Zenon
<1>9. TenantsTold(tenants', trail')
  BY <1>2, <1>8, Zenon DEF IInv, TenantsTold
<1>10. InstancesTold(instances', trail')
  BY <1>1, <1>2, <1>4, <1>8, FreshHasNone DEF IInv, InstancesTold
<1>11. KeysTold(instances', keys', trail')
  <2>1. \A k : ~Holds(trail, i, k)
    BY <1>2, OneCreator, FreshHasNone, Zenon DEF IInv
  <2> QED BY <1>2, <1>4, <1>8, <2>1, Zenon DEF IInv, KeysTold
<1>12. Linked(tenants', instances', keys', leases')
  BY <1>1, <1>2, <1>4 DEF IInv, Linked
<1> QED BY <1>2, <1>5, <1>6, <1>7, <1>9, <1>10, <1>11, <1>12, Stays, Zenon DEF IInv

-----------------------------------------------------------------------------
(* Deletions and keys.                                                     *)

\* ON DELETE CASCADE: the rows of the instances in gone leave with their keys
\* and leases, and the rest keep what they hang on.
LEMMA Cascaded ==
    ASSUME IInv, NEW gone, CascadeInstances(gone),
           \A i, k : Holds(trail', i, k) <=> Holds(trail, i, k),
           \A k : Has(trail', "api_key_revoked", k) <=> Has(trail, "api_key_revoked", k)
    PROVE  /\ DOMAIN instances' = DOMAIN instances \ gone
           /\ \A i \in DOMAIN instances' : instances'[i] = instances[i]
           /\ InstancesOK(instances') /\ KeysOK(keys') /\ LeasesOK(leases')
           /\ \A k \in DOMAIN keys' : keys'[k].inst \in DOMAIN instances'
           /\ DOMAIN leases' \subseteq DOMAIN instances'
           /\ KeysTold(instances', keys', trail')
<1>1. DOMAIN instances' = DOMAIN instances \ gone /\ \A i \in DOMAIN instances' : instances'[i] = instances[i]
  BY Zenon DEF CascadeInstances, Without, Restrict
<1>2. DOMAIN keys' = DOMAIN keys \ KeysOf(gone) /\ \A k \in DOMAIN keys' : keys'[k] = keys[k]
  BY Zenon DEF CascadeInstances, Without, Restrict
<1>3. DOMAIN leases' = DOMAIN leases \ gone /\ \A i \in DOMAIN leases' : leases'[i] = leases[i]
  BY Zenon DEF CascadeInstances, Without, Restrict
<1>4. InstancesOK(instances') /\ KeysOK(keys') /\ LeasesOK(leases')
  BY <1>1, <1>2, <1>3 DEF IInv, InstancesOK, KeysOK, LeasesOK
<1>5. /\ \A k \in DOMAIN keys' : keys'[k].inst \in DOMAIN instances'
      /\ DOMAIN leases' \subseteq DOMAIN instances'
  BY <1>1, <1>2, <1>3, Zenon DEF IInv, Linked, KeysOf
<1>6. ASSUME NEW i \in DOMAIN instances', NEW k \in Keys, Holds(trail, i, k) PROVE k \in DOMAIN keys'
  <2>1. k \in DOMAIN keys /\ Holds(trail, keys[k].inst, k)
    BY <1>1, <1>6, Zenon DEF IInv, KeysTold
  <2>2. keys[k].inst = i
    BY <1>6, <2>1, OneCreator, Zenon DEF IInv
  <2> QED BY <1>1, <1>2, <2>1, <2>2, Zenon DEF KeysOf
<1>7. KeysTold(instances', keys', trail')
  BY <1>2, <1>6, Zenon DEF IInv, KeysTold
<1> QED BY <1>1, <1>4, <1>5, <1>7, Zenon

\* The commit of a tenant's deletion.
LEMMA DeleteTenantStep ==
    ASSUME IInv, NEW c \in Calls, DeleteTenant(c)
    PROVE  IInv'
<1> DEFINE t == calls[c].t
           e == [Event("tenant_deleted", t) EXCEPT !.keys = calls[c].keys, !.instances = calls[c].instances]
<1>1. e.type = "tenant_deleted" /\ e.target = t
  BY Zenon DEF Event
<1>2. Goto(c, Idle) /\ UNCHANGED device
  BY Zenon DEF DeleteTenant
<1>3. CASE UNCHANGED <<rows, trail>>
  BY <1>2, <1>3, IdleCarried, CallOnly, Zenon DEF IInv
<1>4. CASE DeleteTenantByID(t) /\ Record(e)
  <2> HIDE DEF e, t
  <2>1. /\ trail' = trail \cup {e} /\ t \in DOMAIN tenants /\ tenants' = Without(tenants, {t})
        /\ CascadeInstances(InstancesOf({t}))
    BY <1>4, Zenon DEF DeleteTenantByID, Record
  <2>2. /\ \A u, i : Owns(trail', u, i) <=> Owns(trail, u, i)
        /\ \A i, k : Holds(trail', i, k) <=> Holds(trail, i, k)
        /\ \A type, x : Has(trail', type, x) <=> (Has(trail, type, x) \/ (type = "tenant_deleted" /\ x = t))
    BY <1>1, <2>1, Recorded, Zenon
  <2>3. DOMAIN tenants' = DOMAIN tenants \ {t} /\ \A u \in DOMAIN tenants' : tenants'[u] = tenants[u]
    BY <2>1, Zenon DEF Without, Restrict
  <2>4. TenantsOK(tenants') /\ TenantsTold(tenants', trail')
    BY <2>2, <2>3, Zenon DEF IInv, TenantsOK, TenantsTold
  <2>5. /\ DOMAIN instances' = DOMAIN instances \ InstancesOf({t})
        /\ \A i \in DOMAIN instances' : instances'[i] = instances[i]
        /\ InstancesOK(instances') /\ KeysOK(keys') /\ LeasesOK(leases')
        /\ \A k \in DOMAIN keys' : keys'[k].inst \in DOMAIN instances'
        /\ DOMAIN leases' \subseteq DOMAIN instances'
        /\ KeysTold(instances', keys', trail')
    <3>1. \A k : Has(trail', "api_key_revoked", k) <=> Has(trail, "api_key_revoked", k)
      BY <2>2
    <3> QED BY <2>1, <2>2, <3>1, Cascaded, Zenon
  <2>6. InstancesTold(instances', trail')
    <3>1. ASSUME NEW i \in Instances, NEW u \in Tenants, Owns(trail, u, i), u # t, i \in DOMAIN instances
          PROVE  i \in DOMAIN instances'
      BY <2>5, <3>1, OneCreator DEF IInv, InstancesTold, InstancesOf
    <3> QED BY <2>2, <2>5, <3>1, Zenon DEF IInv, InstancesTold
  <2>7. Linked(tenants', instances', keys', leases')
    BY <2>3, <2>5, Zenon DEF IInv, Linked, InstancesOf
  <2>8. CreatedOnce(trail')
    BY <1>1, <1>4, RecordedOnce, Zenon DEF IInv
  <2>9. DOMAIN calls' = Calls /\ \A d \in Calls : Carried(calls'[d], trail')
    BY <1>2, <2>1, IdleCarried, Moves, Zenon
  <2> QED BY <1>2, <2>4, <2>5, <2>6, <2>7, <2>8, <2>9, Zenon DEF IInv
<1> QED BY <1>3, <1>4, Zenon DEF DeleteTenant

\* The commit of an instance's deletion.
LEMMA DeleteInstanceStep ==
    ASSUME IInv, NEW c \in Calls, DeleteInstance(c)
    PROVE  IInv'
<1> DEFINE t == calls[c].t
           i == calls[c].i
           e == [Event("instance_deleted", i) EXCEPT !.by = t, !.keys = calls[c].keys]
<1>1. e.type = "instance_deleted" /\ e.target = i /\ e.by = t
  BY Zenon DEF Event
<1>2. Goto(c, Idle) /\ UNCHANGED device
  BY Zenon DEF DeleteInstance
<1>3. CASE UNCHANGED <<rows, trail>>
  BY <1>2, <1>3, IdleCarried, CallOnly, Zenon DEF IInv
<1>4. CASE DeleteInstanceRow(i, t) /\ Record(e)
  <2> HIDE DEF e, t, i
  <2>1. /\ trail' = trail \cup {e} /\ UNCHANGED tenants /\ CascadeInstances({i})
        /\ i \in DOMAIN instances /\ instances[i].tenant = t
    BY <1>4, Zenon DEF DeleteInstanceRow, GetInstanceByIDAndTenant, Record
  <2>2. /\ \A u, j : Owns(trail', u, j) <=> Owns(trail, u, j)
        /\ \A j, k : Holds(trail', j, k) <=> Holds(trail, j, k)
        /\ \A type, x : Has(trail', type, x) <=> (Has(trail, type, x) \/ (type = "instance_deleted" /\ x = i))
    BY <1>1, <2>1, Recorded, Zenon
  <2>3. TenantsTold(tenants', trail')
    BY <2>1, <2>2 DEF IInv, TenantsTold
  <2>4. /\ DOMAIN instances' = DOMAIN instances \ {i}
        /\ \A j \in DOMAIN instances' : instances'[j] = instances[j]
        /\ InstancesOK(instances') /\ KeysOK(keys') /\ LeasesOK(leases')
        /\ \A k \in DOMAIN keys' : keys'[k].inst \in DOMAIN instances'
        /\ DOMAIN leases' \subseteq DOMAIN instances'
        /\ KeysTold(instances', keys', trail')
    <3>1. \A k : Has(trail', "api_key_revoked", k) <=> Has(trail, "api_key_revoked", k)
      BY <2>2
    <3> QED BY <2>1, <2>2, <3>1, Cascaded, Zenon
  <2>5. InstancesTold(instances', trail')
    BY <2>2, <2>4, Zenon DEF IInv, InstancesTold
  <2>6. Linked(tenants', instances', keys', leases')
    BY <2>1, <2>4, Zenon DEF IInv, Linked
  <2>7. CreatedOnce(trail')
    <3>1. Owns(trail, t, i)
      BY <2>1, Zenon DEF IInv, InstancesTold
    <3> QED BY <1>1, <1>4, <3>1, RecordedOnce, Zenon DEF IInv
  <2>8. DOMAIN calls' = Calls /\ \A d \in Calls : Carried(calls'[d], trail')
    BY <1>2, <2>1, IdleCarried, Moves, Zenon
  <2> QED BY <1>2, <2>1, <2>3, <2>4, <2>5, <2>6, <2>7, <2>8, Zenon DEF IInv
<1> QED BY <1>3, <1>4, Zenon DEF DeleteInstance

\* CreateKey: the instance was looked up earlier, and the foreign key sees to it
\* that it is still there.
LEMMA CreateKeyStep ==
    ASSUME IInv, NEW c \in Calls, NEW k \in Keys, CreateKey(c, k)
    PROVE  IInv'
<1> DEFINE t == calls[c].t
           i == calls[c].i
           e == [Event("api_key_created", k) EXCEPT !.by = t, !.parent = i]
           row == [inst |-> i, status |-> "active"]
<1>1. e.type = "api_key_created" /\ e.target = k /\ e.by = t /\ e.parent = i
  BY Zenon DEF Event
<1>2. UNCHANGED <<tenants, instances, leases, device>> /\ i \in Instances /\ Owns(trail, t, i)
  BY Zenon DEF CreateKey, At, IInv, Carried
<1>3. CASE UNCHANGED <<keys, trail>> /\ Goto(c, Idle)
  BY <1>2, <1>3, IdleCarried, CallOnly, Zenon DEF IInv, rows
<1>4. CASE Fresh(k) /\ CreateAPIKeyRow(k, i) /\ Record(e) /\ Goto(c, [Idle EXCEPT !.at = "gauge"])
  <2>0. row.inst = i /\ row.status = "active"
    OBVIOUS
  <2>1. trail' = trail \cup {e} /\ keys' = With(keys, k, row) /\ i \in DOMAIN instances
    BY <1>4, Zenon DEF CreateAPIKeyRow, Record
  <2> HIDE DEF e, t, i
  <2>2. /\ \A u, j : Owns(trail', u, j) <=> Owns(trail, u, j)
        /\ \A type, x : type # "api_key_created" => (Has(trail', type, x) <=> Has(trail, type, x))
    BY <1>1, <2>1, Recorded, Zenon
  <2>3. ASSUME NEW j, NEW x PROVE Holds(trail', j, x) <=> (Holds(trail, j, x) \/ (j = i /\ x = k))
    <3>1. Holds(trail \cup {e}, j, x)
          <=> (Holds(trail, j, x) \/ (e.type = "api_key_created" /\ e.target = x /\ e.parent = j))
      BY Recorded, Zenon
    <3> QED BY <1>1, <2>1, <3>1, Zenon
  <2>4. k \notin DOMAIN keys
    BY <1>4, FreshHasNone, Zenon DEF IInv, KeysTold
  <2>5. KeysOK(keys')
    BY <1>2, <2>1, Zenon DEF IInv, KeysOK, With
  <2> HIDE DEF row
  <2>6. DOMAIN keys' = DOMAIN keys \cup {k} /\ keys'[k] = row /\ \A x \in DOMAIN keys : keys'[x] = keys[x]
    BY <2>1, <2>4, Zenon DEF With
  <2>7. TenantsTold(tenants', trail') /\ InstancesTold(instances', trail')
    BY <1>2, <2>2, Zenon DEF IInv, TenantsTold, InstancesTold
  <2>8. KeysTold(instances', keys', trail')
    <3>1. ~Has(trail', "api_key_revoked", k)
      BY <1>4, <2>2, FreshHasNone, Zenon
    <3> QED BY <1>2, <2>0, <2>2, <2>3, <2>6, <3>1, Zenon DEF IInv, KeysTold
  <2>9. Linked(tenants', instances', keys', leases')
    BY <1>2, <2>0, <2>1, <2>6, Zenon DEF IInv, Linked
  <2>10. CreatedOnce(trail')
    BY <1>1, <1>2, <1>4, RecordedOnce, Zenon DEF IInv
  <2>11. DOMAIN calls' = Calls /\ \A d \in Calls : Carried(calls'[d], trail')
    <3>1. Carried([Idle EXCEPT !.at = "gauge"], trail')
      BY Zenon DEF Carried, Idle, Fields
    <3> QED BY <1>4, <2>1, <3>1, Moves, Zenon
  <2> QED BY <1>2, <2>5, <2>7, <2>8, <2>9, <2>10, <2>11, Zenon DEF IInv
<1> QED BY <1>3, <1>4, Zenon DEF CreateKey

\* RevokeKey.
LEMMA RevokeKeyStep ==
    ASSUME IInv, NEW c \in Calls, NEW t \in Tenants, NEW i \in Instances, NEW k \in Keys,
           RevokeKey(c, t, i, k)
    PROVE  IInv'
<1> DEFINE e == [Event("api_key_revoked", k) EXCEPT !.by = t, !.parent = i]
<1>1. e.type = "api_key_revoked" /\ e.target = k /\ e.by = t /\ e.parent = i
  BY Zenon DEF Event
<1>0. UNCHANGED <<tenants, instances, leases, device>>
  BY Zenon DEF RevokeKey
<1>2. /\ Record(e) /\ trail' = trail \cup {e}
      /\ k \in DOMAIN keys /\ keys[k].inst = i /\ i \in DOMAIN instances /\ instances[i].tenant = t
  BY Zenon DEF RevokeKey, RevokeAPIKey, GetInstanceByIDAndTenant, Record
<1>3. keys' = [keys EXCEPT ![k].status = "revoked"] /\ Goto(c, [Idle EXCEPT !.at = "gauge"])
  BY Zenon DEF RevokeKey, RevokeAPIKey
<1> HIDE DEF e
<1>4. /\ \A u, j : Owns(trail', u, j) <=> Owns(trail, u, j)
      /\ \A j, x : Holds(trail', j, x) <=> Holds(trail, j, x)
      /\ \A type, x : Has(trail', type, x) <=> (Has(trail, type, x) \/ (type = "api_key_revoked" /\ x = k))
  BY <1>1, <1>2, Recorded, Zenon
<1>5. /\ DOMAIN keys' = DOMAIN keys /\ KeysOK(keys') /\ keys'[k].status = "revoked"
      /\ \A x \in DOMAIN keys : keys'[x].inst = keys[x].inst /\ (x # k => keys'[x] = keys[x])
  BY <1>2, <1>3, Zenon DEF IInv, KeysOK
<1>6. TenantsTold(tenants', trail') /\ InstancesTold(instances', trail')
  <2>1. TenantsTold(tenants, trail')
    BY <1>4, Zenon DEF IInv, TenantsTold
  <2>2. InstancesTold(instances, trail')
    BY <1>4, Zenon DEF IInv, InstancesTold
  <2> QED BY <1>0, <2>1, <2>2, Zenon
<1>7. KeysTold(instances', keys', trail')
  BY <1>0, <1>4, <1>5, Zenon DEF IInv, KeysTold
<1>8. Linked(tenants', instances', keys', leases')
  BY <1>0, <1>5, Zenon DEF IInv, Linked
<1>9. CreatedOnce(trail')
  <2>1. Owns(trail, t, i)
    BY <1>2, Zenon DEF IInv, InstancesTold
  <2> QED BY <1>1, <1>2, <2>1, RecordedOnce, Zenon DEF IInv
<1>10. DOMAIN calls' = Calls /\ \A d \in Calls : Carried(calls'[d], trail')
  <2>1. Carried([Idle EXCEPT !.at = "gauge"], trail')
    BY Zenon DEF Carried, Idle, Fields
  <2>2. trail \subseteq trail'
    BY <1>2, Zenon
  <2> QED BY <1>3, <2>1, <2>2, Moves, Zenon
<1> QED BY <1>0, <1>5, <1>6, <1>7, <1>8, <1>9, <1>10, Zenon DEF IInv

-----------------------------------------------------------------------------
(* The theorems.                                                           *)

\* One tenant, its creation in the trail, and nothing else.
LEMMA InvariantInit == Init => IInv
<1> SUFFICES ASSUME Init PROVE IInv
  OBVIOUS
<1> PICK t \in Tenants, n \in Names :
      /\ tenants = [u \in {t} |-> [name |-> n, status |-> "active"]]
      /\ trail = {Event("tenant_created", t)}
  BY Zenon DEF Init
<1>1. TenantsOK(tenants)
  BY Zenon DEF TenantsOK
<1>2. DOMAIN instances = {} /\ DOMAIN keys = {} /\ DOMAIN leases = {}
  BY DEF Init
<1>3. InstancesOK(instances) /\ KeysOK(keys) /\ LeasesOK(leases) /\ Linked(tenants, instances, keys, leases)
  BY <1>2, Zenon DEF InstancesOK, KeysOK, LeasesOK, Linked
<1>4. \A e \in trail : e.type = "tenant_created" /\ e.target = t
  BY DEF Event
<1>5. Event("tenant_created", t) \in trail
  OBVIOUS
<1>6. CreatedOnce(trail)
  BY <1>4, Zenon DEF CreatedOnce
<1>7. TenantsTold(tenants, trail) /\ InstancesTold(instances, trail) /\ KeysTold(instances, keys, trail)
  BY <1>2, <1>4, <1>5, Zenon DEF TenantsTold, InstancesTold, KeysTold, Has, Owns, Holds
<1>8. DOMAIN calls = Calls /\ \A c \in Calls : Carried(calls[c], trail)
  BY IdleCarried, Zenon DEF Init
<1>9. device \in [Instances -> {"none", "held", "linked"}]
  BY Zenon DEF Init
<1> QED BY <1>1, <1>3, <1>6, <1>7, <1>8, <1>9, Zenon DEF IInv

\* IInv is inductive.
LEMMA InvariantStep == IInv /\ [Next]_vars => IInv'
<1> SUFFICES ASSUME IInv, [Next]_vars PROVE IInv'
  OBVIOUS
<1>1. CASE UNCHANGED vars
  BY <1>1, Zenon DEF vars, rows, IInv
<1>2. ASSUME NEW c \in Calls, NEW t \in Tenants, NEW n \in Names, RenameTenant(c, t, n) PROVE IInv'
  <2> DEFINE e == Event("tenant_updated", t)
  <2>1. e.type = "tenant_updated"
    BY Zenon DEF Event
  <2>2. Record(e) /\ UpdateTenantName(t, n) /\ UNCHANGED <<instances, keys, leases, device, calls>>
        /\ trail \subseteq trail'
    BY <1>2, Zenon DEF RenameTenant, Record
  <2> HIDE DEF e
  <2> QED BY <2>1, <2>2, Stays, EditTenantStep, Zenon
<1>3. ASSUME NEW c \in Calls, NEW t \in Tenants, NEW s \in {"active", "suspended"}, SetStatus(c, t, s)
      PROVE  IInv'
  <2> DEFINE e == Event(IF s = "suspended" THEN "tenant_suspended" ELSE "tenant_activated", t)
             r == [Idle EXCEPT !.at = IF s = "active" THEN "resume" ELSE "suspend", !.t = t]
  <2>1. e.type \in {"tenant_suspended", "tenant_activated"}
    BY Zenon DEF Event
  <2>2. Record(e) /\ SetTenantStatus(t, s) /\ UNCHANGED <<instances, keys, leases, device>>
        /\ trail \subseteq trail' /\ \E ds : Overtake(c, r, ds)
    BY <1>3, Zenon DEF SetStatus, Record
  <2>3. Carried(r, trail')
    BY Zenon DEF Carried, Idle, Fields
  <2> HIDE DEF e, r
  <2>4. DOMAIN calls' = Calls /\ \A d \in Calls : Carried(calls'[d], trail')
    BY <2>2, <2>3, OvertakenCarried, Zenon
  <2> QED BY <2>1, <2>2, <2>4, EditTenantStep, Zenon
<1>4. ASSUME NEW i \in Instances, Serve(i) \/ Yield(i) PROVE IInv'
  <2>1. device' \in [Instances -> {"none", "held", "linked"}] /\ UNCHANGED <<rows, trail, calls>>
    BY <1>4, Zenon DEF Serve, Yield, IInv
  <2> QED BY <2>1, Stays, RowsKept, Zenon DEF rows, IInv, Linked
<1> QED BY <1>1, <1>2, <1>3, <1>4, CallSteps, LeaseSteps, CreateTenantStep, InstanceEdits,
           CreateInstanceStep, DeleteTenantStep, DeleteInstanceStep, CreateKeyStep, RevokeKeyStep, Zenon
        DEF Next, TenantStep, InstanceStep, KeyStep, CommandStep

\* The inductive invariant holds in every reachable state.
THEOREM Invariant == Spec => []IInv
  BY InvariantInit, InvariantStep, PTL DEF Spec

\* The tables keep their types, no two tenants hold one name and no two instances
\* of a tenant do.
THEOREM TypeCorrect == Spec => []TypeOK
<1>1. IInv => TypeOK
  BY Zenon DEF IInv, TenantsOK, InstancesOK, KeysOK, LeasesOK, TypeOK, IsInjective
<1> QED BY <1>1, Invariant, PTL

\* No request that was under way when a tenant or an instance was deleted brings
\* back a row that hangs on nothing.
THEOREM DeletionIsFinal == Spec => []NoOrphans
<1>1. IInv => NoOrphans
  BY Zenon DEF IInv, Linked, NoOrphans
<1> QED BY <1>1, Invariant, PTL

\* OwnerOf and InstanceOf pick the entry that made the instance and the key.
LEMMA Creators ==
    ASSUME IInv
    PROVE  /\ \A i, t : Owns(trail, t, i) => OwnerOf(i) = t
           /\ \A k, i : Holds(trail, i, k) => InstanceOf(k) = i
<1>1. ASSUME NEW i, NEW t, Owns(trail, t, i) PROVE OwnerOf(i) = t
  <2>1. PICK e \in trail : e.type = "instance_created" /\ e.target = i /\ e.by = t
    BY <1>1, Zenon DEF Owns
  <2> DEFINE f == CHOOSE f \in trail : f.type = "instance_created" /\ f.target = i
  <2>2. f \in trail /\ f.type = "instance_created" /\ f.target = i
    BY <2>1, Zenon
  <2>3. f.by = e.by
    BY <2>1, <2>2, Zenon DEF IInv, CreatedOnce
  <2> QED BY <2>1, <2>3, Zenon DEF OwnerOf
<1>2. ASSUME NEW k, NEW i, Holds(trail, i, k) PROVE InstanceOf(k) = i
  <2>1. PICK e \in trail : e.type = "api_key_created" /\ e.target = k /\ e.parent = i
    BY <1>2, Zenon DEF Holds
  <2> DEFINE f == CHOOSE f \in trail : f.type = "api_key_created" /\ f.target = k
  <2>2. f \in trail /\ f.type = "api_key_created" /\ f.target = k
    BY <2>1, Zenon
  <2>3. f.parent = e.parent
    BY <2>1, <2>2, Zenon DEF IInv, CreatedOnce
  <2> QED BY <2>1, <2>3, Zenon DEF InstanceOf
<1> QED BY <1>1, <1>2, Zenon

\* The trail tells the tables: a row is there exactly when its creation is
\* recorded and neither its deletion nor that of an ancestor is.
THEOREM TrailIsTrue == Spec => []TrailTellsTheTables
<1>1. ASSUME IInv PROVE TrailTellsTheTables
  <2>1. \A type, x : Told(type, x) <=> Has(trail, type, x)
    BY Zenon DEF Told, Has
  <2>2. \A i : Told("instance_created", i) <=> \E t : Owns(trail, t, i)
    BY Zenon DEF Told, Owns
  <2>3. \A k : Told("api_key_created", k) <=> \E i : Holds(trail, i, k)
    BY Zenon DEF Told, Holds
  <2>4. ASSUME NEW i \in Instances PROVE i \in DOMAIN instances <=> Told("instance_created", i) /\ ~InstanceLeft(i)
    <3>1. ASSUME i \in DOMAIN instances PROVE Told("instance_created", i) /\ ~InstanceLeft(i)
      <4> DEFINE t == instances[i].tenant
      <4>1. Owns(trail, t, i) /\ ~Has(trail, "instance_deleted", i) /\ t \in DOMAIN tenants /\ t \in Tenants
        BY <1>1, <3>1, Zenon DEF IInv, InstancesTold, Linked, TenantsOK
      <4>2. ~Has(trail, "tenant_deleted", t) /\ OwnerOf(i) = t
        BY <1>1, <4>1, Creators, Zenon DEF IInv, TenantsTold
      <4> QED BY <2>1, <2>2, <4>1, <4>2, Zenon DEF InstanceLeft
    <3>2. ASSUME Told("instance_created", i), ~InstanceLeft(i) PROVE i \in DOMAIN instances
      <4>1. PICK t : Owns(trail, t, i)
        BY <2>2, <3>2, Zenon
      <4>2. t \in Tenants /\ OwnerOf(i) = t
        BY <1>1, <4>1, OneCreator, Creators, Zenon DEF IInv
      <4> QED BY <1>1, <2>1, <3>2, <4>1, <4>2, Zenon DEF InstanceLeft, IInv, InstancesTold
    <3> QED BY <3>1, <3>2, Zenon
  <2>5. ASSUME NEW k \in Keys
        PROVE  k \in DOMAIN keys <=> Told("api_key_created", k) /\ ~InstanceLeft(InstanceOf(k))
    <3>1. ASSUME k \in DOMAIN keys PROVE Told("api_key_created", k) /\ ~InstanceLeft(InstanceOf(k))
      <4>1. Holds(trail, keys[k].inst, k) /\ keys[k].inst \in DOMAIN instances /\ keys[k].inst \in Instances
        BY <1>1, <3>1, Zenon DEF IInv, KeysTold, Linked, InstancesOK
      <4>2. InstanceOf(k) = keys[k].inst
        BY <1>1, <4>1, Creators, Zenon
      <4> QED BY <2>3, <2>4, <4>1, <4>2, Zenon
    <3>2. ASSUME Told("api_key_created", k), ~InstanceLeft(InstanceOf(k)) PROVE k \in DOMAIN keys
      <4>1. PICK i : Holds(trail, i, k)
        BY <2>3, <3>2, Zenon
      <4>2. i \in Instances /\ (\E t : Owns(trail, t, i)) /\ InstanceOf(k) = i
        BY <1>1, <4>1, OneCreator, Creators, Zenon DEF IInv
      <4>3. i \in DOMAIN instances
        BY <2>2, <2>4, <3>2, <4>2, Zenon
      <4> QED BY <1>1, <4>1, <4>3, Zenon DEF IInv, KeysTold
    <3> QED BY <3>1, <3>2, Zenon
  <2> QED BY <1>1, <2>1, <2>4, <2>5, Zenon DEF TrailTellsTheTables, IInv, TenantsTold, KeysTold
<1> QED BY <1>1, Invariant, PTL

-----------------------------------------------------------------------------
(* What the leases say.  A request that projects an intent or a status on  *)
(* them reads and writes in several statements, and any number of them do  *)
(* so at a time.                                                           *)

Projecting == {"suspend", "resume", "resuming", "ensure", "intent", "desire"}

\* An instance that shall run.
Wanted(tn, ins, i) == ins[i].intent = "active" /\ tn[ins[i].tenant].status = "active"

\* The request r is about to stop the lease of i.
Excused(r, ins, i) ==
    \/ r.at = "suspend" /\ r.t = ins[i].tenant
    \/ r.at = "desire" /\ r.to = "stopped" /\ r.i = i

\* Adrift, of the tables given.
Drifting(tn, ins, ls, cs) ==
    {i \in DOMAIN ls : ls[i] = "running" /\ ~Wanted(tn, ins, i) /\ \A c \in Calls : ~Excused(cs[c], ins, i)}

\* What the request r has read or written still stands, of the instances that
\* are still there, unless it was overtaken; an id is not given twice.
Known(r, tr) ==
    /\ r.at \in {"ensure", "intent", "desire"} => Has(tr, "instance_created", r.i)
    /\ r.at = "resuming" => \A i \in r.todo : Has(tr, "instance_created", i)
Current(r, tn, ins) ==
    /\ r.at \in {"ensure", "intent", "desire"} /\ r.i \in DOMAIN ins => tn[ins[r.i].tenant].status = "active"
    /\ r.at = "desire" /\ r.to = "running" /\ r.i \in DOMAIN ins => ins[r.i].intent = "active"
    /\ r.at \in {"resume", "resuming"} /\ r.t \in DOMAIN tn => tn[r.t].status = "active"
    /\ r.at = "resuming" =>
          \A i \in r.todo : i \in DOMAIN ins => ins[i].tenant = r.t /\ ins[i].intent = "active"
Stands(r, tn, ins, tr) == Known(r, tr) /\ (r.seen # "overtaken" => Current(r, tn, ins))

DInv == \A c \in Calls : Stands(calls[c], tenants, instances, trail)

\* Who goes on, and who does not.
LEMMA Went ==
    ASSUME IInv, NEW c \in Calls, NEW r, Goto(c, r)
    PROVE  calls'[c] = r /\ \A d \in Calls : d # c => calls'[d] = calls[d]
  BY Zenon DEF Goto, IInv

\* The records of a request that starts or ends.
LEMMA IdleFields ==
    /\ Idle.at = "idle" /\ Idle.to = "none" /\ Idle.todo = {}
    /\ \A at, t : LET r == [Idle EXCEPT !.at = at, !.t = t] IN r.at = at /\ r.t = t
    /\ \A at, i, s : LET r == [Idle EXCEPT !.at = at, !.i = i, !.to = s] IN r.at = at /\ r.i = i /\ r.to = s
  BY Zenon DEF Idle

\* A request that does not project promises nothing.
LEMMA OthersStand ==
    ASSUME NEW r, NEW tn, NEW ins, NEW tr, r.at \notin Projecting
    PROVE  Stands(r, tn, ins, tr) /\ \A i : ~Excused(r, ins, i)
  BY Zenon DEF Stands, Known, Current, Excused, Projecting

\* A row of instances tells that it was created, and of whom.
LEMMA RowTold ==
    ASSUME IInv, NEW i \in DOMAIN instances
    PROVE  /\ Has(trail, "instance_created", i)
           /\ instances[i].tenant \in DOMAIN tenants
  BY Zenon DEF IInv, InstancesTold, Linked, Owns, Has

\* What the other requests do meanwhile: tenants and instances come and go, but
\* those that stay keep status, tenant and intent, and no lease comes to run.
TenantsCalm ==
    \A t \in DOMAIN tenants' :
        tenants'[t].status = IF t \in DOMAIN tenants THEN tenants[t].status ELSE "active"
InstancesCalm ==
    \A i \in DOMAIN instances' :
        \/ /\ i \in DOMAIN instances /\ instances[i].tenant \in DOMAIN tenants'
           /\ instances'[i].tenant = instances[i].tenant /\ instances'[i].intent = instances[i].intent
        \/ ~Has(trail, "instance_created", i)
LeasesCalm ==
    \A i \in DOMAIN leases' :
        i \in DOMAIN leases /\ i \in DOMAIN instances' /\ leases'[i] \in {leases[i], "stopped"}
CallsCalm ==
    \A c \in Calls :
        calls'[c] = calls[c] \/ (calls[c].at \notin Projecting /\ calls'[c].at \notin Projecting)

\* That is enough for what a request goes by.
LEMMA StandsStill ==
    ASSUME IInv, trail \subseteq trail', TenantsCalm, InstancesCalm,
           NEW r, Stands(r, tenants, instances, trail)
    PROVE  Stands(r, tenants', instances', trail')
<1>1. \A i \in DOMAIN instances : Has(trail, "instance_created", i) /\ instances[i].tenant \in DOMAIN tenants
  BY RowTold, Zenon
<1>2. \A x : Has(trail, "instance_created", x) => Has(trail', "instance_created", x)
  BY Zenon DEF Has
<1>3. \A i \in DOMAIN instances' : Has(trail, "instance_created", i) =>
         /\ i \in DOMAIN instances /\ instances'[i].tenant = instances[i].tenant
         /\ instances'[i].intent = instances[i].intent
         /\ tenants'[instances'[i].tenant].status = tenants[instances[i].tenant].status
  BY <1>1, Zenon DEF InstancesCalm, TenantsCalm
<1>4. Known(r, trail')
  BY <1>2, Zenon DEF Stands, Known
<1>5. ASSUME Known(r, trail), Current(r, tenants, instances)  PROVE  Current(r, tenants', instances')
  <2>1. /\ r.at \in {"ensure", "intent", "desire"} /\ r.i \in DOMAIN instances'
              => tenants'[instances'[r.i].tenant].status = "active"
        /\ r.at = "desire" /\ r.to = "running" /\ r.i \in DOMAIN instances' => instances'[r.i].intent = "active"
    BY <1>3, <1>5, Zenon DEF Known, Current
  <2>2. r.at \in {"resume", "resuming"} /\ r.t \in DOMAIN tenants' => tenants'[r.t].status = "active"
    BY <1>5, Zenon DEF Current, TenantsCalm
  <2>3. ASSUME r.at = "resuming", NEW i \in r.todo, i \in DOMAIN instances'
        PROVE  instances'[i].tenant = r.t /\ instances'[i].intent = "active"
    BY <1>3, <1>5, <2>3, Zenon DEF Known, Current
  <2> QED BY <2>1, <2>2, <2>3, Zenon DEF Current
<1> QED BY <1>4, <1>5, Zenon DEF Stands

\* And for the leases, if nobody who projects goes on.
LEMMA Meanwhile ==
    ASSUME IInv, DInv, trail \subseteq trail', TenantsCalm, InstancesCalm, LeasesCalm, CallsCalm
    PROVE  /\ DInv'
           /\ Drifting(tenants', instances', leases', calls') \subseteq Drifting(tenants, instances, leases, calls)
<1>1. ASSUME NEW c \in Calls  PROVE  Stands(calls'[c], tenants', instances', trail')
  BY OthersStand, StandsStill, Zenon DEF CallsCalm, DInv
<1>2. ASSUME NEW i \in DOMAIN leases', leases'[i] = "running",
             i \notin Drifting(tenants, instances, leases, calls)
      PROVE  i \notin Drifting(tenants', instances', leases', calls')
  <2>1. i \in DOMAIN leases /\ i \in DOMAIN instances' /\ leases[i] = "running" /\ i \in DOMAIN instances
    BY <1>2, Zenon DEF IInv, Linked, LeasesCalm
  <2>2. Wanted(tenants, instances, i) \/ \E c \in Calls : Excused(calls[c], instances, i)
    BY <1>2, <2>1, Zenon DEF Drifting
  <2>3. /\ instances'[i].tenant = instances[i].tenant /\ instances'[i].intent = instances[i].intent
        /\ tenants'[instances'[i].tenant].status = tenants[instances[i].tenant].status
    <3>1. Has(trail, "instance_created", i) /\ instances[i].tenant \in DOMAIN tenants
      BY <2>1, RowTold, Zenon
    <3> QED BY <2>1, <3>1, Zenon DEF InstancesCalm, TenantsCalm
  <2>4. CASE Wanted(tenants, instances, i)
    BY <2>3, <2>4, Zenon DEF Wanted, Drifting
  <2>5. ASSUME NEW c \in Calls, Excused(calls[c], instances, i)
        PROVE  Excused(calls'[c], instances', i)
    <3>1. calls'[c] = calls[c]
      BY <2>5, OthersStand, Zenon DEF CallsCalm
    <3> QED BY <2>3, <2>5, <3>1, Zenon DEF Excused
  <2> QED BY <2>2, <2>4, <2>5, Zenon DEF Drifting
<1> QED BY <1>1, <1>2, Zenon DEF DInv, Drifting

\* A table that is left alone.
LEMMA Untouched ==
    ASSUME IInv
    PROVE  /\ UNCHANGED tenants => TenantsCalm
           /\ UNCHANGED <<tenants, instances>> => InstancesCalm
           /\ UNCHANGED <<instances, leases>> => LeasesCalm
           /\ UNCHANGED calls => CallsCalm
<1>1. /\ \A i \in DOMAIN instances : instances[i].tenant \in DOMAIN tenants
      /\ DOMAIN leases \subseteq DOMAIN instances
  BY Zenon DEF IInv, Linked
<1> QED BY <1>1, Zenon DEF TenantsCalm, InstancesCalm, LeasesCalm, CallsCalm

\* The requests that do not project.
LEMMA OtherCalls ==
    ASSUME IInv, NEW c \in Calls,
           \/ DeleteTenantCount(c) \/ DeleteTenant(c)
           \/ TerminateLogout(c) \/ TerminateStop(c) \/ DeleteInstanceCount(c) \/ DeleteInstance(c)
           \/ RefreshCount(c) \/ RefreshSet(c)
           \/ \E t \in Tenants, n \in Names : DeleteTenantRead(c, t, n)
           \/ \E t \in Tenants, i \in DOMAIN instances : DeleteInstanceStart(c, t, i)
           \/ \E t \in Tenants, i \in Instances : CreateKeyCheck(c, t, i)
           \/ \E k \in Keys : CreateKey(c, k)
           \/ \E t \in Tenants, i \in Instances, k \in Keys : RevokeKey(c, t, i, k)
    PROVE  CallsCalm
<1>0. DOMAIN calls[c] = Fields
  BY Zenon DEF IInv, Carried
<1>1. ASSUME NEW r, Goto(c, r), r.at \notin Projecting, calls[c].at \notin Projecting  PROVE  CallsCalm
  BY <1>1, Went, Zenon DEF CallsCalm
<1>2. \A at \in {"idle", "tenant_count", "tenant_delete", "terminate", "stop", "count", "delete", "gauge",
                 "set", "issue"} : at \notin Projecting
  BY DEF Projecting
<1>3. CASE Goto(c, Idle) /\ (DeleteTenant(c) \/ DeleteInstance(c) \/ RefreshSet(c))
  BY <1>1, <1>2, <1>3, IdleFields, Zenon DEF DeleteTenant, DeleteInstance, RefreshSet, At
<1>4. ASSUME NEW t, NEW n, DeleteTenantRead(c, t, n)  PROVE  CallsCalm
  <2> DEFINE r == [Idle EXCEPT !.at = "tenant_count", !.t = t]
  <2>1. r.at = "tenant_count" /\ Goto(c, r) /\ calls[c].at = "idle"
    BY <1>4, Zenon DEF DeleteTenantRead, Starts, At, Idle
  <2> HIDE DEF r
  <2> QED BY <1>1, <1>2, <2>1, Zenon
<1>5. ASSUME NEW t, NEW i, DeleteInstanceStart(c, t, i)  PROVE  CallsCalm
  <2> DEFINE r == [Idle EXCEPT !.at = "terminate", !.t = t, !.i = i]
  <2>1. r.at = "terminate" /\ Goto(c, r) /\ calls[c].at = "idle"
    BY <1>5, Zenon DEF DeleteInstanceStart, Starts, At, Idle
  <2> HIDE DEF r
  <2> QED BY <1>1, <1>2, <2>1, Zenon
<1>10. ASSUME NEW t, NEW i, CreateKeyCheck(c, t, i)  PROVE  CallsCalm
  <2> DEFINE r == [Idle EXCEPT !.at = "issue", !.t = t, !.i = i]
  <2>1. r.at = "issue" /\ Goto(c, r) /\ calls[c].at = "idle"
    BY <1>10, Zenon DEF CreateKeyCheck, Starts, At, Idle
  <2> HIDE DEF r
  <2> QED BY <1>1, <1>2, <2>1, Zenon
<1>11. ASSUME NEW t, NEW i, NEW k, CreateKey(c, k) \/ RevokeKey(c, t, i, k)  PROVE  CallsCalm
  <2> DEFINE r == [Idle EXCEPT !.at = "gauge"]
  <2>1. r.at = "gauge" /\ Idle.at = "idle"
    BY Zenon DEF Idle
  <2>2. (Goto(c, r) \/ Goto(c, Idle)) /\ calls[c].at \in {"idle", "issue"}
    BY <1>11, Zenon DEF CreateKey, RevokeKey, Starts, At
  <2> HIDE DEF r
  <2> QED BY <1>1, <1>2, <2>1, <2>2, Zenon
<1>6. CASE TerminateLogout(c) \/ TerminateStop(c)
  <2>1. (Step(c, "stop") \/ Step(c, "count")) /\ calls[c].at \notin Projecting
    BY <1>2, <1>6, Zenon DEF TerminateLogout, TerminateStop, At
  <2> QED BY <1>1, <1>2, <2>1, CallFields, Zenon DEF Step
<1>7. CASE DeleteTenantCount(c)
  <2> DEFINE n == CountTenantCascade(calls[c].t)
             r == [calls[c] EXCEPT !.at = "tenant_delete", !.keys = n.keys, !.instances = n.instances]
  <2>1. r.at = "tenant_delete"
    BY <1>0, Zenon DEF Fields
  <2> QED BY <1>1, <1>2, <1>7, <2>1, Zenon DEF DeleteTenantCount, At
<1>8. CASE DeleteInstanceCount(c)
  <2> DEFINE r == [calls[c] EXCEPT !.at = "delete", !.keys = CountKeysByInstance(calls[c].i)]
  <2>1. r.at = "delete"
    BY <1>0, Zenon DEF Fields
  <2> QED BY <1>1, <1>2, <1>8, <2>1, Zenon DEF DeleteInstanceCount, At
<1>9. CASE RefreshCount(c)
  <2> DEFINE r == [calls[c] EXCEPT !.at = "set", !.keys = CountActiveAPIKeys]
  <2>1. r.at = "set"
    BY <1>0, Zenon DEF Fields
  <2> QED BY <1>1, <1>2, <1>9, <2>1, Zenon DEF RefreshCount, At
<1> QED BY <1>3, <1>4, <1>5, <1>6, <1>7, <1>8, <1>9, <1>10, <1>11, Zenon
        DEF DeleteTenant, DeleteInstance, RefreshSet

\* What they do to the tables.
LEMMA OtherRows ==
    ASSUME IInv, NEW c \in Calls,
           \/ DeleteTenantCount(c) \/ DeleteTenant(c)
           \/ TerminateLogout(c) \/ TerminateStop(c) \/ DeleteInstanceCount(c) \/ DeleteInstance(c)
           \/ RefreshCount(c) \/ RefreshSet(c)
           \/ \E t \in Tenants, n \in Names :
                 CreateTenant(c, t, n) \/ RenameTenant(c, t, n) \/ DeleteTenantRead(c, t, n)
           \/ \E t \in Tenants, i \in Instances, n \in InstanceNames :
                 CreateInstance(c, t, i, n) \/ RenameInstance(c, t, i, n)
           \/ \E t \in Tenants, i \in DOMAIN instances : DeleteInstanceStart(c, t, i)
           \/ \E t \in Tenants, i \in Instances : CreateKeyCheck(c, t, i)
           \/ \E k \in Keys : CreateKey(c, k)
           \/ \E t \in Tenants, i \in Instances, k \in Keys : RevokeKey(c, t, i, k)
    PROVE  TenantsCalm /\ InstancesCalm /\ LeasesCalm /\ trail \subseteq trail' /\ UNCHANGED <<aborts, ops>>
<1>0. /\ \A i \in DOMAIN instances : instances[i].tenant \in DOMAIN tenants
      /\ DOMAIN leases \subseteq DOMAIN instances
  BY Zenon DEF IInv, Linked
<1>1. CASE \/ DeleteTenantCount(c) \/ TerminateLogout(c) \/ DeleteInstanceCount(c)
           \/ RefreshCount(c) \/ RefreshSet(c)
           \/ \E t \in Tenants, n \in Names : DeleteTenantRead(c, t, n)
           \/ \E t \in Tenants, i \in DOMAIN instances : DeleteInstanceStart(c, t, i)
           \/ \E t \in Tenants, i \in Instances : CreateKeyCheck(c, t, i)
  <2>1. UNCHANGED <<rows, trail, aborts, ops>>
    BY <1>1, Zenon DEF DeleteTenantCount, TerminateLogout, DeleteInstanceCount, RefreshCount, RefreshSet,
                       DeleteTenantRead, DeleteInstanceStart, CreateKeyCheck
  <2> QED BY <2>1, Untouched, Zenon DEF rows
<1>2. CASE \/ \E k \in Keys : CreateKey(c, k)
           \/ \E t \in Tenants, i \in Instances, k \in Keys : RevokeKey(c, t, i, k)
  <2>1. UNCHANGED <<tenants, instances, leases, aborts, ops>> /\ trail \subseteq trail'
    BY <1>2, Zenon DEF CreateKey, RevokeKey, Record
  <2> QED BY <2>1, Untouched, Zenon
<1>3. CASE TerminateStop(c)
  <2>1. UNCHANGED <<tenants, instances, trail, aborts, ops>> /\ SetDesiredState(calls[c].i, "stopped")
    BY <1>3, Zenon DEF TerminateStop
  <2>2. LeasesCalm
    BY <1>0, <2>1, Zenon DEF SetDesiredState, LeasesCalm
  <2> QED BY <2>1, <2>2, Untouched, Zenon
<1>4. ASSUME NEW t \in Tenants, NEW n \in Names, CreateTenant(c, t, n) \/ RenameTenant(c, t, n)
      PROVE  TenantsCalm /\ InstancesCalm /\ LeasesCalm /\ trail \subseteq trail' /\ UNCHANGED <<aborts, ops>>
  <2>1. UNCHANGED <<instances, leases, aborts, ops>> /\ trail \subseteq trail'
    BY <1>4, Zenon DEF CreateTenant, RenameTenant, Record
  <2>2. TenantsCalm /\ DOMAIN tenants \subseteq DOMAIN tenants'
    <3>1. CASE CreateTenant(c, t, n)
      BY <3>1, Zenon DEF CreateTenant, CreateTenantRow, With, TenantsCalm
    <3>2. CASE RenameTenant(c, t, n)
      <4>1. tenants' = [tenants EXCEPT ![t].name = n]
        BY <3>2, Zenon DEF RenameTenant, UpdateTenantName
      <4>2. \A u \in DOMAIN tenants : tenants[u] \in [name : Names, status : {"active", "suspended"}]
        BY Zenon DEF IInv, TenantsOK
      <4> QED BY <4>1, <4>2 DEF TenantsCalm
    <3> QED BY <1>4, <3>1, <3>2, Zenon
  <2>3. InstancesCalm
    BY <1>0, <2>1, <2>2, Zenon DEF InstancesCalm
  <2> QED BY <2>1, <2>2, <2>3, Untouched, Zenon
<1>5. ASSUME NEW t \in Tenants, NEW i \in Instances, NEW n \in InstanceNames,
             CreateInstance(c, t, i, n) \/ RenameInstance(c, t, i, n)
      PROVE  TenantsCalm /\ InstancesCalm /\ LeasesCalm /\ trail \subseteq trail' /\ UNCHANGED <<aborts, ops>>
  <2>1. UNCHANGED <<tenants, leases, aborts, ops>> /\ trail \subseteq trail'
    BY <1>5, Zenon DEF CreateInstance, RenameInstance, Record
  <2>2. InstancesCalm /\ DOMAIN instances \subseteq DOMAIN instances'
    <3>1. CASE CreateInstance(c, t, i, n)
      <4>1. Fresh(i) /\ \E row : instances' = With(instances, i, row)
        BY <3>1, Zenon DEF CreateInstance, CreateInstanceRow
      <4>2. ~Has(trail, "instance_created", i)
        BY <4>1, FreshHasNone, Zenon
      <4>3. DOMAIN instances' = DOMAIN instances \cup {i} /\ \A j \in DOMAIN instances : instances'[j] = instances[j]
        BY <4>1, Zenon DEF With
      <4> QED BY <1>0, <2>1, <4>2, <4>3, Zenon DEF InstancesCalm
    <3>2. CASE RenameInstance(c, t, i, n)
      <4>1. instances' = [instances EXCEPT ![i].name = n]
        BY <3>2, Zenon DEF RenameInstance, RenameInstanceRow
      <4>2. \A j \in DOMAIN instances :
               instances[j] \in [tenant : Tenants, name : InstanceNames, intent : {"active", "stopped"}]
        BY Zenon DEF IInv, InstancesOK
      <4>3. DOMAIN instances' = DOMAIN instances /\ \A j \in DOMAIN instances :
               instances'[j].tenant = instances[j].tenant /\ instances'[j].intent = instances[j].intent
        BY <4>1, <4>2
      <4> QED BY <1>0, <2>1, <4>3, Zenon DEF InstancesCalm
    <3> QED BY <1>5, <3>1, <3>2, Zenon
  <2>3. LeasesCalm
    BY <1>0, <2>1, <2>2, Zenon DEF LeasesCalm
  <2> QED BY <2>1, <2>2, <2>3, Untouched, Zenon
<1>6. ASSUME NEW gone, CascadeInstances(gone)
      PROVE  /\ LeasesCalm
             /\ \A i \in DOMAIN instances' :
                   i \in DOMAIN instances /\ i \notin gone /\ instances'[i] = instances[i]
  <2>1. /\ DOMAIN instances' = DOMAIN instances \ gone /\ \A i \in DOMAIN instances' : instances'[i] = instances[i]
        /\ DOMAIN leases' = DOMAIN leases \ gone /\ \A i \in DOMAIN leases' : leases'[i] = leases[i]
    BY <1>6, Zenon DEF CascadeInstances, Without, Restrict
  <2> QED BY <1>0, <2>1, Zenon DEF LeasesCalm
<1>7. CASE DeleteTenant(c)
  <2>1. UNCHANGED <<aborts, ops>> /\ trail \subseteq trail'
    BY <1>7, Zenon DEF DeleteTenant, Record
  <2>2. CASE UNCHANGED rows
    BY <2>1, <2>2, Untouched, Zenon DEF rows
  <2>3. CASE DeleteTenantByID(calls[c].t)
    <3> DEFINE t == calls[c].t
    <3>1. tenants' = Without(tenants, {t}) /\ CascadeInstances(InstancesOf({t}))
      BY <2>3, Zenon DEF DeleteTenantByID
    <3> HIDE DEF t
    <3>2. DOMAIN tenants' = DOMAIN tenants \ {t} /\ \A u \in DOMAIN tenants' : tenants'[u] = tenants[u]
      BY <3>1, Zenon DEF Without, Restrict
    <3>3. InstancesCalm
      <4>1. \A i \in DOMAIN instances' :
               i \in DOMAIN instances /\ i \notin InstancesOf({t}) /\ instances'[i] = instances[i]
        BY <1>6, <3>1, Zenon
      <4>2. \A i \in DOMAIN instances : i \notin InstancesOf({t}) => instances[i].tenant \in DOMAIN tenants'
        BY <1>0, <3>2, Zenon DEF InstancesOf
      <4> QED BY <4>1, <4>2, Zenon DEF InstancesCalm
    <3>4. TenantsCalm
      BY <3>2, Zenon DEF TenantsCalm
    <3> QED BY <1>6, <2>1, <3>1, <3>3, <3>4, Zenon
  <2> QED BY <1>7, <2>2, <2>3, Zenon DEF DeleteTenant
<1>8. CASE DeleteInstance(c)
  <2>1. UNCHANGED <<aborts, ops>> /\ trail \subseteq trail'
    BY <1>8, Zenon DEF DeleteInstance, Record
  <2>2. CASE UNCHANGED rows
    BY <2>1, <2>2, Untouched, Zenon DEF rows
  <2>3. CASE DeleteInstanceRow(calls[c].i, calls[c].t)
    <3>1. UNCHANGED tenants /\ CascadeInstances({calls[c].i})
      BY <2>3, Zenon DEF DeleteInstanceRow
    <3>2. InstancesCalm
      BY <1>0, <1>6, <3>1, Zenon DEF InstancesCalm
    <3> QED BY <1>6, <2>1, <3>1, <3>2, Untouched, Zenon
  <2> QED BY <1>8, <2>2, <2>3, Zenon DEF DeleteInstance
<1> QED BY <1>1, <1>2, <1>3, <1>4, <1>5, <1>7, <1>8, Zenon

\* Why a lease may come to be adrift.
Explained(i) ==
    \/ aborts' # aborts
    \/ \E c \in Calls : /\ calls[c].seen = "overtaken" /\ calls'[c] # calls[c]
                        /\ i = calls[c].i \/ i \in calls[c].todo
Accounted ==
    \A i \in Drifting(tenants', instances', leases', calls') :
        i \in Drifting(tenants, instances, leases, calls) \/ Explained(i)

\* A request goes on and writes at most leases: what it goes by stands, and the
\* leases it leaves running are wanted or were running, and it does not leave
\* one that it was about to stop.
LEMMA Projects ==
    ASSUME IInv, DInv, NEW c \in Calls, NEW r, Goto(c, r), UNCHANGED <<tenants, instances, trail>>,
           Stands(r, tenants, instances, trail),
           \A i \in DOMAIN leases' : leases'[i] = "running" /\ ~Wanted(tenants, instances, i) =>
               \/ Explained(i)
               \/ i \in DOMAIN leases /\ leases[i] = "running" /\ ~Excused(calls[c], instances, i)
    PROVE  DInv' /\ Accounted
<1>1. calls'[c] = r /\ \A d \in Calls : d # c => calls'[d] = calls[d]
  BY Went, Zenon
<1>2. DInv'
  BY <1>1, Zenon DEF DInv
<1>3. ASSUME NEW i \in Drifting(tenants', instances', leases', calls'), ~Explained(i)
      PROVE  i \in Drifting(tenants, instances, leases, calls)
  <2>1. /\ i \in DOMAIN leases' /\ leases'[i] = "running" /\ ~Wanted(tenants, instances, i)
        /\ \A d \in Calls : ~Excused(calls'[d], instances, i)
    BY <1>3, Zenon DEF Drifting
  <2>2. i \in DOMAIN leases /\ leases[i] = "running" /\ ~Excused(calls[c], instances, i)
    BY <1>3, <2>1, Zenon
  <2>3. \A d \in Calls : ~Excused(calls[d], instances, i)
    BY <1>1, <2>1, <2>2, Zenon
  <2> QED BY <2>1, <2>2, <2>3, Zenon DEF Drifting
<1> QED BY <1>2, <1>3, Zenon DEF Accounted

\* SetStatus: what runs was wanted; a suspended tenant's leases are about to be
\* stopped, and who went by its being active is overtaken.
LEMMA StatusStep ==
    ASSUME IInv, DInv, NEW c \in Calls, NEW t \in Tenants, NEW s \in {"active", "suspended"},
           SetStatus(c, t, s)
    PROVE  DInv' /\ Accounted
<1> DEFINE r == [Idle EXCEPT !.at = IF s = "active" THEN "resume" ELSE "suspend", !.t = t]
           ds == IF s = "suspended" THEN ActiveFor(t) ELSE {}
<1>1. Overtake(c, r, ds) /\ SetTenantStatus(t, s) /\ UNCHANGED <<instances, leases>>
      /\ calls[c].at = "idle" /\ trail \subseteq trail'
  BY Zenon DEF SetStatus, Starts, At, Record
<1>2. r.t = t /\ r.at = IF s = "active" THEN "resume" ELSE "suspend"
  BY Zenon DEF Idle
<1> HIDE DEF r
<1>3. /\ DOMAIN calls' = Calls /\ calls'[c] = r
      /\ \A d \in Calls : d # c => Same(calls'[d], calls[d])
      /\ \A d \in Calls : d # c /\ d \in ds => calls'[d].seen = "overtaken"
      /\ \A d \in Calls : d # c /\ d \notin ds => calls'[d] = calls[d]
  <2> HIDE DEF ds
  <2> QED BY <1>1, Overtaken, Zenon
<1>4. /\ DOMAIN tenants' = DOMAIN tenants /\ t \in DOMAIN tenants /\ tenants'[t].status = s
      /\ \A u \in DOMAIN tenants : u # t => tenants'[u] = tenants[u]
  <2>1. tenants' = [tenants EXCEPT ![t].status = s] /\ t \in DOMAIN tenants
    BY <1>1, Zenon DEF SetTenantStatus
  <2>2. tenants[t] \in [name : Names, status : {"active", "suspended"}]
    BY <2>1, Zenon DEF IInv, TenantsOK
  <2> QED BY <2>1, <2>2
<1>5. \A x : Has(trail, "instance_created", x) => Has(trail', "instance_created", x)
  BY <1>1, Zenon DEF Has
<1>6. Stands(r, tenants', instances', trail')
  <2>1. r.at \notin {"ensure", "intent", "desire", "resuming"}
    BY <1>2
  <2>2. r.at = "resume" => s = "active"
    BY <1>2, Zenon
  <2> QED BY <1>2, <1>4, <2>1, <2>2, Zenon DEF Stands, Known, Current
<1>7. ASSUME NEW d \in Calls, d # c  PROVE  Stands(calls'[d], tenants', instances', trail')
  <2>1. Stands(calls[d], tenants, instances, trail) /\ Same(calls'[d], calls[d])
    BY <1>3, <1>7, Zenon DEF DInv
  <2>2. Known(calls'[d], trail')
    BY <1>5, <2>1, Zenon DEF Stands, Known, Same
  <2>3. CASE d \in ds
    BY <1>3, <1>7, <2>2, <2>3, Zenon DEF Stands
  <2>4. CASE d \notin ds /\ calls[d].seen # "overtaken"
    <3> DEFINE q == calls[d]
    <3>1. Current(q, tenants, instances) /\ calls'[d] = q
      BY <1>3, <1>7, <2>1, <2>4, Zenon DEF Stands
    <3>2. q.at \in {"ensure", "intent", "desire"} /\ q.i \in DOMAIN instances
             => instances[q.i].tenant \in DOMAIN tenants /\ (s = "suspended" => instances[q.i].tenant # t)
      BY <2>4, RowTold, Zenon DEF ActiveFor, InstancesOf
    <3>3. q.at \in {"resume", "resuming"} => (s = "suspended" => q.t # t)
      BY <2>4, Zenon DEF ActiveFor
    <3> HIDE DEF q, ds
    <3>4. s = "active" \/ s = "suspended"
      OBVIOUS
    <3>5. /\ q.at \in {"ensure", "intent", "desire"} /\ q.i \in DOMAIN instances
                => tenants'[instances[q.i].tenant].status = "active"
          /\ q.at \in {"resume", "resuming"} /\ q.t \in DOMAIN tenants' => tenants'[q.t].status = "active"
      BY <1>4, <3>1, <3>2, <3>3, <3>4, Zenon DEF Current
    <3>6. Current(q, tenants', instances')
      BY <1>1, <3>1, <3>5, Zenon DEF Current
    <3> QED BY <2>2, <3>1, <3>6, Zenon DEF Stands
  <2>5. CASE d \notin ds /\ calls[d].seen = "overtaken"
    BY <1>3, <1>7, <2>2, <2>5, Zenon DEF Stands
  <2> QED BY <2>3, <2>4, <2>5, Zenon
<1>8. ASSUME NEW i \in Drifting(tenants', instances', leases', calls')
      PROVE  i \in Drifting(tenants, instances, leases, calls)
  <2>1. /\ i \in DOMAIN leases /\ leases[i] = "running" /\ ~Wanted(tenants', instances, i)
        /\ \A d \in Calls : ~Excused(calls'[d], instances, i)
    BY <1>1, <1>8, Zenon DEF Drifting
  <2>2. i \in DOMAIN instances /\ instances[i].tenant \in DOMAIN tenants
    BY <2>1, RowTold, Zenon DEF IInv, Linked
  <2>3. ~Wanted(tenants, instances, i)
    <3>1. CASE instances[i].tenant = t /\ s # "active"
      BY <1>2, <1>3, <2>1, <3>1, Zenon DEF Excused
    <3>2. CASE instances[i].tenant # t \/ s = "active"
      BY <1>4, <2>1, <2>2, <3>2, Zenon DEF Wanted
    <3> QED BY <3>1, <3>2, Zenon
  <2>4. ASSUME NEW d \in Calls  PROVE  ~Excused(calls[d], instances, i)
    <3>1. CASE d = c
      BY <1>1, <3>1 DEF Excused
    <3>2. CASE d # c
      BY <1>3, <2>1, <3>2, Zenon DEF Excused, Same
    <3> QED BY <3>1, <3>2, Zenon
  <2> QED BY <2>1, <2>3, <2>4, Zenon DEF Drifting
<1> QED BY <1>3, <1>6, <1>7, <1>8, Zenon DEF DInv, Accounted

\* SuspendTenant, ResumeTenant and ResumeInstance.
LEMMA ApplyStatusStep ==
    ASSUME IInv, DInv, NEW c \in Calls, SuspendTenant(c) \/ ResumeTenant(c) \/ ResumeInstance(c)
    PROVE  DInv' /\ Accounted
<1>0. /\ UNCHANGED <<tenants, instances, trail>> /\ DOMAIN calls[c] = Fields
      /\ Stands(calls[c], tenants, instances, trail)
  BY Zenon DEF SuspendTenant, ResumeTenant, ResumeInstance, rows, IInv, Carried, DInv
<1>1. Stands(Idle, tenants, instances, trail)
  <2>1. Idle.at \notin Projecting
    BY IdleFields DEF Projecting
  <2> QED BY <2>1, OthersStand, Zenon
<1>2. CASE SuspendTenant(c)
  <2>1. Goto(c, Idle) /\ SetTenantDesiredState(calls[c].t, "stopped") /\ calls[c].at = "suspend"
    BY <1>2, Zenon DEF SuspendTenant, At
  <2>2. ASSUME NEW i \in DOMAIN leases', leases'[i] = "running"
        PROVE  i \in DOMAIN leases /\ leases[i] = "running" /\ ~Excused(calls[c], instances, i)
    <3>1. i \in DOMAIN leases /\ leases[i] = "running" /\ i \notin InstancesOf({calls[c].t})
      BY <2>1, <2>2 DEF SetTenantDesiredState
    <3>2. instances[i].tenant # calls[c].t
      BY <3>1, Zenon DEF InstancesOf, IInv, Linked
    <3>3. ~Excused(calls[c], instances, i)
      BY <2>1, <3>2 DEF Excused
    <3> QED BY <3>1, <3>3, Zenon
  <2> QED BY <1>0, <1>1, <2>1, <2>2, Projects, Zenon
<1>3. CASE ResumeTenant(c)
  <2> DEFINE todo == ListActiveIntentInstancesByTenant(calls[c].t)
             r == [calls[c] EXCEPT !.at = "resuming", !.todo = todo]
  <2>1. Goto(c, r) /\ UNCHANGED leases /\ calls[c].at = "resume"
    BY <1>3, Zenon DEF ResumeTenant, At, rows
  <2>2. r.at = "resuming" /\ r.todo = todo /\ r.t = calls[c].t /\ r.seen = calls[c].seen
    BY <1>0, Zenon DEF Fields
  <2>3. \A i \in todo : /\ i \in DOMAIN instances /\ Has(trail, "instance_created", i)
                        /\ instances[i].tenant = calls[c].t /\ instances[i].intent = "active"
    BY RowTold, Zenon DEF ListActiveIntentInstancesByTenant, InstancesOf
  <2> HIDE DEF r, todo
  <2>4. Stands(r, tenants, instances, trail)
    <3>1. r.at \notin {"ensure", "intent", "desire"}
      BY <2>2
    <3>2. Known(r, trail)
      BY <2>2, <2>3, <3>1, Zenon DEF Known
    <3>3. ASSUME r.seen # "overtaken"  PROVE  Current(r, tenants, instances)
      <4>1. calls[c].t \in DOMAIN tenants => tenants[calls[c].t].status = "active"
        BY <1>0, <2>1, <2>2, <3>3, Zenon DEF Stands, Current
      <4> QED BY <2>2, <2>3, <3>1, <4>1, Zenon DEF Current
    <3> QED BY <3>2, <3>3, Zenon DEF Stands
  <2>5. \A i : ~Excused(calls[c], instances, i)
    BY <2>1 DEF Excused
  <2> QED BY <1>0, <2>1, <2>4, <2>5, Projects, Zenon
<1>4. CASE ResumeInstance(c)
  <2>1. calls[c].at = "resuming"
    BY <1>4, Zenon DEF ResumeInstance, At
  <2>2. \A i : ~Excused(calls[c], instances, i)
    BY <2>1 DEF Excused
  <2>3. CASE Goto(c, Idle) /\ UNCHANGED leases
    BY <1>0, <1>1, <2>2, <2>3, Projects, Zenon
  <2>4. ASSUME NEW i \in calls[c].todo, SetDesiredState(i, "running"),
               Goto(c, [calls[c] EXCEPT !.todo = @ \ {i}])
        PROVE  DInv' /\ Accounted
    <3> DEFINE r == [calls[c] EXCEPT !.todo = @ \ {i}]
    <3>1. /\ r.at = "resuming" /\ r.t = calls[c].t /\ r.todo \subseteq calls[c].todo /\ i \notin r.todo
          /\ r.seen = calls[c].seen
      BY <1>0, <2>1, Zenon DEF Fields
    <3>2. Goto(c, r)
      BY <2>4, Zenon
    <3> HIDE DEF r
    <3>3. Stands(r, tenants, instances, trail)
      <4>1. r.at \notin {"ensure", "intent", "desire"}
        BY <3>1
      <4> QED BY <1>0, <2>1, <3>1, <4>1, Zenon DEF Stands, Known, Current
    <3>4. ASSUME NEW j \in DOMAIN leases', leases'[j] = "running", ~Wanted(tenants, instances, j)
          PROVE  Explained(j) \/ (j \in DOMAIN leases /\ leases[j] = "running")
      <4>1. j \in DOMAIN leases /\ (j = i \/ leases[j] = "running") /\ j \in DOMAIN instances
        BY <2>4, <3>4, Zenon DEF SetDesiredState, IInv, Linked
      <4>2. CASE j = i
        <5>1. instances[i].tenant \in DOMAIN tenants
          BY <4>1, <4>2, RowTold, Zenon
        <5>2. calls[c].seen = "overtaken"
          BY <1>0, <2>1, <2>4, <3>4, <4>1, <4>2, <5>1, Zenon DEF Stands, Current, Wanted
        <5>3. calls'[c] # calls[c]
          BY <2>4, <3>1, <3>2, Went, Zenon
        <5> QED BY <2>4, <4>2, <5>2, <5>3, Zenon DEF Explained
      <4> QED BY <4>1, <4>2, Zenon
    <3> QED BY <1>0, <2>2, <3>2, <3>3, <3>4, Projects, Zenon
  <2> QED BY <1>4, <2>3, <2>4, Zenon DEF ResumeInstance
<1> QED BY <1>2, <1>3, <1>4, Zenon

\* Command: whoever passes the middleware names an instance of an active tenant.
LEMMA CommandBegins ==
    ASSUME IInv, DInv, NEW c \in Calls, NEW i \in Instances, NEW s \in {"running", "stopped"},
           Command(c, i, s)
    PROVE  DInv' /\ Accounted
<1> DEFINE r == [Idle EXCEPT !.at = "ensure", !.i = i, !.to = s]
<1>1. Goto(c, r) /\ UNCHANGED <<rows, trail>> /\ Authenticate(i) /\ calls[c].at = "idle"
  BY Zenon DEF Command, Starts, At
<1>2. r.at = "ensure" /\ r.i = i
  BY Zenon DEF Idle
<1> HIDE DEF r
<1>3. i \in DOMAIN instances /\ tenants[instances[i].tenant].status = "active"
  <2>1. ASSUME NEW k, AuthenticateKey(k, i)
        PROVE  i \in DOMAIN instances /\ tenants[instances[i].tenant].status = "active"
    <3>1. k \in DOMAIN keys /\ keys[k].inst = i /\ tenants[instances[keys[k].inst].tenant].status = "active"
      BY <2>1 DEF AuthenticateKey, GetKeyForAuth
    <3> QED BY <3>1, Zenon DEF IInv, Linked
  <2>2. ASSUME NEW t, Token(t), GetInstanceByIDAndTenant(i, t)
        PROVE  i \in DOMAIN instances /\ tenants[instances[i].tenant].status = "active"
    BY <2>2, Zenon DEF Token, GetInstanceByIDAndTenant
  <2> QED BY <1>1, <2>1, <2>2, Zenon DEF Authenticate
<1>4. Stands(r, tenants, instances, trail)
  <2>1. r.at \notin {"desire", "resume", "resuming"}
    BY <1>2
  <2>2. Has(trail, "instance_created", i)
    BY <1>3, RowTold, Zenon
  <2> QED BY <1>2, <1>3, <2>1, <2>2, Zenon DEF Stands, Known, Current
<1>5. \A j : ~Excused(calls[c], instances, j)
  BY <1>1 DEF Excused
<1> QED BY <1>1, <1>4, <1>5, Projects, Zenon DEF rows

\* CommandEnsure and CommandDesire: the instance may be gone, but not another
\* under its id.
LEMMA CommandGoesOn ==
    ASSUME IInv, DInv, NEW c \in Calls, CommandEnsure(c) \/ CommandDesire(c)
    PROVE  DInv' /\ Accounted
<1> DEFINE i == calls[c].i
           to == calls[c].to
<1>0. /\ UNCHANGED <<tenants, instances, trail>> /\ DOMAIN calls[c] = Fields
      /\ Stands(calls[c], tenants, instances, trail)
      /\ to \in {"running", "stopped"}
  BY Zenon DEF CommandEnsure, CommandDesire, At, IInv, Carried, DInv
<1>1. Stands(Idle, tenants, instances, trail) /\ Idle.at # "desire"
  <2>1. Idle.at \notin Projecting /\ Idle.at # "desire"
    BY IdleFields DEF Projecting
  <2> QED BY <2>1, OthersStand, Zenon
<1>2. CASE CommandEnsure(c)
  <2>1. calls[c].at = "ensure"
    BY <1>2, Zenon DEF CommandEnsure, At
  <2>2. \A j \in DOMAIN leases' : leases'[j] = "running" => j \in DOMAIN leases /\ leases[j] = "running"
    BY <1>2 DEF CommandEnsure, EnsureLease, With
  <2>3. \A j : ~Excused(calls[c], instances, j)
    BY <2>1 DEF Excused
  <2>4. CASE Goto(c, Idle)
    BY <1>0, <1>1, <2>2, <2>3, <2>4, Projects, Zenon
  <2>5. CASE Step(c, "intent")
    <3> DEFINE r == [calls[c] EXCEPT !.at = "intent"]
    <3>1. r.at = "intent" /\ r.i = calls[c].i /\ r.seen = calls[c].seen /\ Goto(c, r)
      BY <1>0, <2>5, Zenon DEF Step, Fields
    <3> HIDE DEF r
    <3>2. Stands(r, tenants, instances, trail)
      <4>1. r.at \notin {"desire", "resume", "resuming"}
        BY <3>1
      <4> QED BY <1>0, <2>1, <3>1, <4>1, Zenon DEF Stands, Known, Current
    <3> QED BY <1>0, <2>2, <2>3, <3>1, <3>2, Projects, Zenon
  <2> QED BY <1>2, <2>4, <2>5, Zenon DEF CommandEnsure
<1>3. CASE CommandDesire(c)
  <2>1. /\ calls[c].at = "desire" /\ Goto(c, Idle)
        /\ leases' = [j \in DOMAIN leases |-> IF j = i THEN to ELSE leases[j]]
    BY <1>3, Zenon DEF CommandDesire, At, SetDesiredState
  <2>2. ASSUME NEW j \in DOMAIN leases', leases'[j] = "running", ~Wanted(tenants, instances, j)
        PROVE  \/ Explained(j)
               \/ j \in DOMAIN leases /\ leases[j] = "running" /\ ~Excused(calls[c], instances, j)
    <3>1. j \in DOMAIN leases /\ j \in DOMAIN instances /\ (IF j = i THEN to = "running" ELSE leases[j] = "running")
      BY <2>1, <2>2, Zenon DEF IInv, Linked
    <3>2. CASE j = i
      <4>1. calls[c].seen = "overtaken"
        BY <1>0, <2>1, <2>2, <3>1, <3>2, Zenon DEF Stands, Current, Wanted
      <4>2. calls'[c] # calls[c]
        BY <1>1, <2>1, Went, Zenon
      <4> QED BY <3>2, <4>1, <4>2, Zenon DEF Explained
    <3>3. CASE j # i
      <4>1. ~Excused(calls[c], instances, j)
        BY <2>1, <3>3 DEF Excused
      <4> QED BY <3>1, <3>3, <4>1, Zenon
    <3> QED BY <3>2, <3>3, Zenon
  <2> QED BY <1>0, <1>1, <2>1, <2>2, Projects, Zenon
<1> QED BY <1>2, <1>3, Zenon

\* CommandIntent: a session that is stopped is about to have its lease stopped,
\* and who went by its intent is overtaken.
LEMMA IntentStep ==
    ASSUME IInv, DInv, NEW c \in Calls, CommandIntent(c)
    PROVE  DInv' /\ Accounted
<1> DEFINE i == calls[c].i
           to == calls[c].to
           r == [calls[c] EXCEPT !.at = "desire"]
           s == IF to = "running" THEN "active" ELSE "stopped"
           ds == IF to = "running" THEN {} ELSE IntentOn(i)
<1>0. /\ UNCHANGED <<tenants, trail, leases>> /\ DOMAIN calls[c] = Fields /\ calls[c].at = "intent"
      /\ Stands(calls[c], tenants, instances, trail) /\ to \in {"running", "stopped"}
  BY Zenon DEF CommandIntent, At, IInv, Carried, DInv
<1>1. \A j : ~Excused(calls[c], instances, j)
  BY <1>0 DEF Excused
<1>2. CASE Goto(c, Idle) /\ UNCHANGED instances
  <2>1. Idle.at \notin Projecting
    BY IdleFields DEF Projecting
  <2> QED BY <1>0, <1>1, <1>2, <2>1, OthersStand, Projects, Zenon
<1>3. CASE SetConnectionIntent(i, s) /\ Overtake(c, r, ds)
  <2>1. r.at = "desire" /\ r.i = i /\ r.to = to /\ r.seen = calls[c].seen
    BY <1>0, Zenon DEF Fields
  <2>2. /\ i \in DOMAIN instances /\ DOMAIN instances' = DOMAIN instances /\ instances'[i].intent = s
        /\ \A j \in DOMAIN instances : instances'[j].tenant = instances[j].tenant
        /\ \A j \in DOMAIN instances : j # i => instances'[j] = instances[j]
    <3>1. i \in DOMAIN instances /\ instances' = [instances EXCEPT ![i].intent = s]
      BY <1>3, Zenon DEF SetConnectionIntent
    <3>2. instances[i] \in [tenant : Tenants, name : InstanceNames, intent : {"active", "stopped"}]
      BY <3>1, Zenon DEF IInv, InstancesOK
    <3> HIDE DEF i, s
    <3> QED BY <3>1, <3>2
  <2>3. /\ DOMAIN calls' = Calls /\ calls'[c] = r
        /\ \A d \in Calls : d # c => Same(calls'[d], calls[d])
        /\ \A d \in Calls : d # c /\ d \in ds => calls'[d].seen = "overtaken"
        /\ \A d \in Calls : d # c /\ d \notin ds => calls'[d] = calls[d]
    <3> HIDE DEF r, ds
    <3> QED BY <1>3, Overtaken, Zenon
  <2>4. to = "running" => s = "active"
    BY Zenon
  <2> HIDE DEF r, s
  <2>5. Stands(r, tenants', instances', trail')
    <3>1. r.at \notin {"resume", "resuming"}
      BY <2>1
    <3>2. Known(r, trail')
      BY <1>0, <2>1, <3>1, Zenon DEF Stands, Known
    <3>3. ASSUME r.seen # "overtaken"  PROVE  Current(r, tenants', instances')
      <4>1. tenants[instances[i].tenant].status = "active"
        BY <1>0, <2>1, <2>2, <3>3, Zenon DEF Stands, Current
      <4> QED BY <1>0, <2>1, <2>2, <2>4, <3>1, <4>1, Zenon DEF Current
    <3> QED BY <3>2, <3>3, Zenon DEF Stands
  <2>6. ASSUME NEW d \in Calls, d # c  PROVE  Stands(calls'[d], tenants', instances', trail')
    <3>1. Stands(calls[d], tenants, instances, trail) /\ Same(calls'[d], calls[d])
      BY <2>3, <2>6, Zenon DEF DInv
    <3>2. Known(calls'[d], trail')
      BY <1>0, <3>1, Zenon DEF Stands, Known, Same
    <3>3. CASE d \in ds
      BY <2>3, <2>6, <3>2, <3>3, Zenon DEF Stands
    <3>4. CASE d \notin ds /\ calls[d].seen # "overtaken"
      <4> DEFINE q == calls[d]
      <4>1. Current(q, tenants, instances) /\ calls'[d] = q
        BY <2>3, <2>6, <3>1, <3>4, Zenon DEF Stands
      <4>2. to = "running" \/ ~((q.at = "resuming" /\ i \in q.todo) \/ (q.at = "desire" /\ q.i = i))
        BY <3>4, Zenon DEF IntentOn, At
      <4> HIDE DEF q, ds, to, i
      <4>3. \A j \in DOMAIN instances : instances[j].intent = "active" /\ (j = i => s = "active")
                                         => instances'[j].intent = "active"
        BY <2>2, Zenon
      <4>4. /\ q.at \in {"ensure", "intent", "desire"} /\ q.i \in DOMAIN instances'
                  => tenants'[instances'[q.i].tenant].status = "active"
            /\ q.at \in {"resume", "resuming"} /\ q.t \in DOMAIN tenants' => tenants'[q.t].status = "active"
        BY <1>0, <2>2, <4>1, Zenon DEF Current
      <4>5. q.at = "desire" /\ q.to = "running" /\ q.i \in DOMAIN instances' => instances'[q.i].intent = "active"
        BY <2>2, <2>4, <4>1, <4>2, <4>3, Zenon DEF Current
      <4>6. ASSUME q.at = "resuming", NEW j \in q.todo, j \in DOMAIN instances'
            PROVE  instances'[j].tenant = q.t /\ instances'[j].intent = "active"
        BY <2>2, <2>4, <4>1, <4>2, <4>3, <4>6, Zenon DEF Current
      <4>7. Current(q, tenants', instances')
        BY <4>4, <4>5, <4>6, Zenon DEF Current
      <4> QED BY <3>2, <4>1, <4>7, Zenon DEF Stands
    <3>5. CASE d \notin ds /\ calls[d].seen = "overtaken"
      BY <2>3, <2>6, <3>2, <3>5, Zenon DEF Stands
    <3> QED BY <3>3, <3>4, <3>5, Zenon
  <2>7. ASSUME NEW j \in Drifting(tenants', instances', leases', calls')
        PROVE  j \in Drifting(tenants, instances, leases, calls)
    <3>1. /\ j \in DOMAIN leases /\ leases[j] = "running" /\ ~Wanted(tenants, instances', j)
          /\ \A d \in Calls : ~Excused(calls'[d], instances', j)
      BY <1>0, <2>7, Zenon DEF Drifting
    <3>2. j \in DOMAIN instances
      BY <3>1, Zenon DEF IInv, Linked
    <3>3. ~Wanted(tenants, instances, j)
      <4>1. CASE j = i /\ to # "running"
        BY <1>0, <2>1, <2>3, <3>1, <4>1, Zenon DEF Excused
      <4>2. CASE j # i \/ to = "running"
        BY <2>2, <2>4, <3>1, <3>2, <4>2, Zenon DEF Wanted
      <4> QED BY <4>1, <4>2, Zenon
    <3>4. ASSUME NEW d \in Calls  PROVE  ~Excused(calls[d], instances, j)
      <4>1. CASE d = c
        BY <1>1, <4>1, Zenon
      <4>2. CASE d # c
        BY <2>2, <2>3, <3>1, <3>2, <4>2, Zenon DEF Excused, Same
      <4> QED BY <4>1, <4>2, Zenon
    <3> QED BY <3>1, <3>3, <3>4, Zenon DEF Drifting
  <2> QED BY <2>3, <2>5, <2>6, <2>7, Zenon DEF DInv, Accounted
<1> QED BY <1>2, <1>3, Zenon DEF CommandIntent

\* What the requests that project nothing, the fleet and a request cut short do.
LEMMA OtherSteps ==
    ASSUME IInv, DInv, aborts \in Nat, [Next]_vars
    PROVE  \/ DInv' /\ Accounted
           \/ \E c \in Calls :
                 \/ \E t \in Tenants, s \in {"active", "suspended"} : SetStatus(c, t, s)
                 \/ SuspendTenant(c) \/ ResumeTenant(c) \/ ResumeInstance(c) \/ CommandStep(c)
<1>1. ASSUME TenantsCalm, InstancesCalm, LeasesCalm, CallsCalm, trail \subseteq trail'
      PROVE  DInv' /\ Accounted
  BY <1>1, Meanwhile, Zenon DEF Accounted
<1>2. CASE UNCHANGED vars \/ \E i \in Instances : Serve(i) \/ Yield(i)
  <2>1. UNCHANGED <<rows, trail, calls>>
    BY <1>2, Zenon DEF vars, Serve, Yield
  <2> QED BY <1>1, <2>1, Untouched, Zenon DEF rows
<1>3. ASSUME NEW c \in Calls, Abort(c)  PROVE  DInv' /\ Accounted
  <2>1. Goto(c, Idle) /\ aborts' = aborts + 1 /\ UNCHANGED <<rows, trail>>
    BY <1>3, Zenon DEF Abort
  <2>2. aborts' # aborts
    BY <2>1
  <2>3. Idle.at \notin Projecting
    BY IdleFields DEF Projecting
  <2> QED BY <2>1, <2>2, <2>3, OthersStand, Projects, Zenon DEF rows, Explained
<1>4. ASSUME NEW c \in Calls,
             \/ \E t \in Tenants, n \in Names : CreateTenant(c, t, n) \/ RenameTenant(c, t, n)
             \/ \E t \in Tenants, i \in Instances, n \in InstanceNames :
                   CreateInstance(c, t, i, n) \/ RenameInstance(c, t, i, n)
      PROVE  DInv' /\ Accounted
  <2>1. UNCHANGED calls
    BY <1>4, Zenon DEF CreateTenant, RenameTenant, CreateInstance, RenameInstance
  <2> QED BY <1>1, <1>4, <2>1, Untouched, OtherRows, Zenon
<1>5. ASSUME NEW c \in Calls,
             \/ DeleteTenantCount(c) \/ DeleteTenant(c)
             \/ TerminateLogout(c) \/ TerminateStop(c) \/ DeleteInstanceCount(c) \/ DeleteInstance(c)
             \/ \E t \in Tenants, n \in Names : DeleteTenantRead(c, t, n)
             \/ \E t \in Tenants, i \in DOMAIN instances : DeleteInstanceStart(c, t, i)
             \/ KeyStep(c)
      PROVE  DInv' /\ Accounted
  BY <1>1, <1>5, OtherCalls, OtherRows, Zenon DEF KeyStep
<1> QED BY <1>2, <1>3, <1>4, <1>5, Zenon DEF Next, TenantStep, InstanceStep

\* However many requests project at a time, a lease comes to say running against
\* the intent and the tenant's status only when a request is cut short, or by one
\* that another overtook (ApplyTenantStatus, resumeTenant, Connect, Disconnect).
THEOREM DriftExplained == Spec => DriftIsOvertaken
<1> DEFINE Counted == aborts \in Nat
<1>1. Init => DInv /\ Counted
  <2> SUFFICES ASSUME Init  PROVE  DInv /\ aborts \in Nat
    OBVIOUS
  <2>1. aborts \in Nat
    BY DEF Init
  <2>2. Idle.at \notin Projecting
    BY IdleFields DEF Projecting
  <2>3. \A c \in Calls : calls[c].at \notin Projecting
    BY <2>2, Zenon DEF Init
  <2> QED BY <2>1, <2>3, OthersStand, Zenon DEF DInv
<1>2. IInv /\ DInv /\ Counted /\ [Next]_vars => DInv' /\ Accounted
  BY OtherSteps, StatusStep, ApplyStatusStep, CommandBegins, CommandGoesOn, IntentStep, Zenon DEF CommandStep
<1>3. Counted /\ [Next]_vars => Counted'
  <2> SUFFICES ASSUME aborts \in Nat, [Next]_vars  PROVE  aborts' \in Nat
    OBVIOUS
  <2>1. ASSUME NEW c \in Calls, Abort(c)  PROVE  aborts' \in Nat
    BY <2>1 DEF Abort
  <2>2. ASSUME NEW c \in Calls, TenantStep(c)  PROVE  UNCHANGED aborts
    BY <2>2, Zenon DEF TenantStep, CreateTenant, RenameTenant, DeleteTenantRead, SetStatus, SuspendTenant,
                       ResumeTenant, ResumeInstance, DeleteTenantCount, DeleteTenant
  <2>3. ASSUME NEW c \in Calls, InstanceStep(c)  PROVE  UNCHANGED aborts
    BY <2>3, Zenon DEF InstanceStep, CreateInstance, RenameInstance, DeleteInstanceStart, TerminateLogout,
                       TerminateStop, DeleteInstanceCount, DeleteInstance
  <2>4. ASSUME NEW c \in Calls, KeyStep(c) \/ CommandStep(c)  PROVE  UNCHANGED aborts
    BY <2>4, Zenon DEF KeyStep, CreateKeyCheck, CreateKey, RevokeKey, RefreshCount, RefreshSet,
                       CommandStep, Command, CommandEnsure, CommandIntent, CommandDesire
  <2>5. ASSUME NEW i \in Instances, Serve(i) \/ Yield(i)  PROVE  UNCHANGED aborts
    BY <2>5, Zenon DEF Serve, Yield
  <2> QED BY <2>1, <2>2, <2>3, <2>4, <2>5, Zenon DEF Next, vars
<1>4. IInv => Adrift = Drifting(tenants, instances, leases, calls)
  <2> SUFFICES ASSUME IInv  PROVE  Adrift = Drifting(tenants, instances, leases, calls)
    OBVIOUS
  <2>1. ASSUME NEW i \in DOMAIN leases
        PROVE  /\ Supported(i) <=> Wanted(tenants, instances, i)
               /\ \A c \in Calls : BringsDown(c, i) <=> Excused(calls[c], instances, i)
    <3>1. i \in DOMAIN instances /\ instances[i].tenant \in DOMAIN tenants
      BY RowTold, Zenon DEF IInv, Linked
    <3> QED BY <3>1, Zenon DEF Supported, Token, Wanted, BringsDown, Excused, At
  <2> QED BY <2>1, Zenon DEF Adrift, Drifting
<1>5. IInv' => Adrift' = Drifting(tenants', instances', leases', calls')
  <2>1. IInv' => (Adrift = Drifting(tenants, instances, leases, calls))'
    BY <1>4, PTL
  <2> QED BY <2>1
<1> DEFINE Drifts ==
      \A i \in Adrift' \ Adrift :
          \/ aborts' # aborts
          \/ \E c \in Calls : /\ calls[c].seen = "overtaken" /\ calls'[c] # calls[c]
                              /\ i = calls[c].i \/ i \in calls[c].todo
<1>6. ASSUME IInv, IInv', DInv, Counted, [Next]_vars  PROVE  [Drifts]_vars
  BY <1>2, <1>4, <1>5, <1>6, Zenon DEF Accounted, Explained
<1>7. Spec => [][Drifts]_vars
  <2> HIDE DEF Counted, Drifts
  <2> QED BY <1>1, <1>2, <1>3, <1>6, Invariant, PTL DEF Spec
<1> QED BY <1>7, PTL DEF DriftIsOvertaken
=============================================================================

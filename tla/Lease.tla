-------------------------------- MODULE Lease --------------------------------
(***************************************************************************)
(* The lease protocol: any worker may run any of its lease.Manager methods *)
(* at any time, the API writes desired_state at any time, and time passes  *)
(* with no promise that a heartbeat is on time.  This is the protocol's    *)
(* claim on its own, whatever the callers do.  How the supervisor, the     *)
(* runtime and the API really call it is SessionFleet's subject.           *)
(***************************************************************************)
EXTENDS LeaseTable

VARIABLE granted    \* history: every <<instance, generation, worker>> that
                    \* AcquireLease ever returned, i.e. every fence the API
                    \* may still carry in its cache or in a command in flight

vars == <<leaseVars, granted>>

Init ==
    /\ LeaseInit
    /\ granted = {}

MEnsure(i) == Ensure(i) /\ UNCHANGED granted

MSetDesired(i, d) == SetDesired({i}, d) /\ UNCHANGED granted

MSetTenantDesired(d) == SetDesired(Instances, d) /\ UNCHANGED granted

MAcquire(w, i) ==
    /\ Acquire(w, i)
    /\ granted' = granted \cup {<<i, generation'[i], w>>}

MHeartbeat(w) == Heartbeat(w) /\ UNCHANGED granted

MRelease(w, i) == Release(w, {i}) /\ UNCHANGED granted

MReleaseAll(w) == Release(w, Instances) /\ UNCHANGED granted

MTick == Tick /\ UNCHANGED granted

Next ==
    \/ \E i \in Instances : MEnsure(i)
    \/ \E i \in Instances, d \in {"running", "stopped"} : MSetDesired(i, d)
    \/ \E d \in {"running", "stopped"} : MSetTenantDesired(d)
    \/ \E w \in Workers, i \in Instances : MAcquire(w, i) \/ MRelease(w, i)
    \/ \E w \in Workers : MHeartbeat(w) \/ MReleaseAll(w)
    \/ MTick

Spec == Init /\ [][Next]_vars

-----------------------------------------------------------------------------

\* Types of the table and of the history of grants.
TypeOK ==
    /\ LeaseTypeOK
    /\ granted \subseteq Instances \X Nat \X Workers

\* AcquireLease's generation is "never reused" (leases.sql): over the whole
\* history of an instance, across releases, expiries and takeovers, no two
\* acquisitions are handed the same number.
GenerationNeverReused ==
    \A a, b \in granted : a[1] = b[1] /\ a[2] = b[2] => a = b

\* CheckGeneration, the fencing test: of all the fences ever issued for an
\* instance at most one passes, it is the most recent one, and the worker it
\* passes on is the worker it was issued to.  A fence kept in the API's cache
\* while the lease moves on can therefore never reach a former owner.
OnlyLatestFencePasses ==
    \A a \in granted : \A w \in Workers :
        CheckGeneration(w, a[1], a[2]) =>
            /\ a[3] = w
            /\ \A b \in granted : b[1] = a[1] => b[2] <= a[2]

\* Whoever stands in a row got there by the acquisition that minted the row's
\* current generation; nobody inherits a token (Release keeps generation,
\* Heartbeat does not mint one).
HolderWasGranted ==
    \A i \in Instances : worker_id[i] # NoWorker =>
        <<i, generation[i], worker_id[i]>> \in granted

\* AcquireLease against a fresh heartbeat: a row whose holder is within the
\* expiry is never handed to anybody else by any step; it can only be given
\* back.  Generation numbers only grow, one at a time, and only with a new
\* holder.
LiveLeaseNeverStolen ==
    [][\A i \in Instances :
          /\ Live(i) => worker_id'[i] \in {worker_id[i], NoWorker}
          /\ generation'[i] # generation[i] =>
                /\ generation'[i] = generation[i] + 1
                /\ ~Live(i) /\ heartbeat_age'[i] = 0]_vars

\* The table implements the succession of epochs: an owner has standing while
\* its heartbeat is fresh.
Epochs == INSTANCE Ownership WITH
    epoch <- generation,
    owner <- worker_id,
    standing <- {i \in Instances : Live(i)}

\* The lease statements implement Ownership: no statement, in any order,
\* begins an epoch while somebody has standing, re-opens an epoch that was
\* given up, or moves one to another worker.
ImplementsOwnership == Epochs!Spec
=============================================================================

----------------------------- MODULE LeaseTable -----------------------------
(***************************************************************************)
(* The session_leases table (internal/store/queries/leases.sql) and the    *)
(* lease.Manager methods that run its statements (internal/lease/lease.go). *)
(* One operator per statement; each is one atomic UPDATE, INSERT or SELECT.*)
(*                                                                         *)
(* A row is spread over four functions of the instance.  "absent" in       *)
(* desired_state stands for a row that was never inserted.  now() minus    *)
(* heartbeat_at is kept as an age that Tick advances and that saturates    *)
(* one unit past the expiry, where every comparison has its final answer.  *)
(* grpc_addr is set and cleared with worker_id and is specific to one      *)
(* process, so worker_id stands for both.  The third desired state the     *)
(* code declares, draining, is never written by any statement.             *)
(***************************************************************************)
EXTENDS Naturals, FiniteSets

CONSTANTS
    Instances,      \* rows of the instances table
    Workers,        \* worker identities; every process gets a fresh one
    NoWorker,       \* worker_id IS NULL
    Expiry,         \* Manager.expiry, in units of Tick
    MaxGeneration   \* bound on the number of acquisitions of one instance

ASSUME NoWorkerAssumption == NoWorker \notin Workers
ASSUME ExpiryAssumption == Expiry \in Nat
ASSUME MaxGenerationAssumption == MaxGeneration \in Nat

VARIABLES desired_state, worker_id, generation, heartbeat_age

leaseVars == <<desired_state, worker_id, generation, heartbeat_age>>

DesiredStates == {"absent", "running", "stopped"}

LeaseTypeOK ==
    /\ desired_state \in [Instances -> DesiredStates]
    /\ worker_id \in [Instances -> Workers \cup {NoWorker}]
    /\ generation \in [Instances -> Nat]
    /\ heartbeat_age \in [Instances -> 0..(Expiry + 1)]

LeaseInit ==
    /\ desired_state = [i \in Instances |-> "absent"]
    /\ worker_id = [i \in Instances |-> NoWorker]
    /\ generation = [i \in Instances |-> 0]
    /\ heartbeat_age = [i \in Instances |-> 0]

-----------------------------------------------------------------------------
(* Predicates of the WHERE clauses.                                        *)

\* Faulty variant: a lease expires one unit early.
StaleEarly(i) == heartbeat_age[i] >= Expiry

\* heartbeat_at < now() - expiry
Stale(i) == heartbeat_age[i] > Expiry

\* Faulty variant: a lease is free at the expiry, not past it.
FreeEarly(i) == worker_id[i] = NoWorker \/ heartbeat_age[i] >= Expiry

\* worker_id IS NULL OR heartbeat_at < now() - expiry
Free(i) == worker_id[i] = NoWorker \/ Stale(i)

\* GetLeaseOwner.is_live
Live(i) == worker_id[i] # NoWorker /\ ~Stale(i)

\* ListAdoptableLeases; parked are the instances with a permanent reason
Adoptable(parked) ==
    {i \in Instances : desired_state[i] = "running" /\ Free(i) /\ i \notin parked}

\* Faulty variant: the number is compared and its holder is not.
CheckNumberOnly(w, i, g) == desired_state[i] # "absent" /\ generation[i] = g

\* CheckGeneration, asked by worker w about a fence that carries generation g
CheckGeneration(w, i, g) ==
    /\ desired_state[i] # "absent"
    /\ generation[i] = g
    /\ worker_id[i] = w

-----------------------------------------------------------------------------
(* Statements that write.                                                  *)

\* EnsureLease: a new row is stopped, an existing one is left alone
Ensure(i) ==
    /\ desired_state' = [desired_state EXCEPT ![i] =
                            IF @ = "absent" THEN "stopped" ELSE @]
    /\ UNCHANGED <<worker_id, generation, heartbeat_age>>

\* SetDesiredState, and SetTenantDesiredState with all rows of the tenant
SetDesired(is, d) ==
    /\ desired_state' = [i \in Instances |->
            IF i \in is /\ desired_state[i] # "absent" THEN d ELSE desired_state[i]]
    /\ UNCHANGED <<worker_id, generation, heartbeat_age>>

\* Faulty variant: the new holder gets the number of the last one.
AcquireSameGeneration(w, i) ==
    /\ desired_state[i] = "running" /\ Free(i)
    /\ worker_id' = [worker_id EXCEPT ![i] = w]
    /\ generation' = [generation EXCEPT ![i] = IF @ = 0 THEN 1 ELSE @]
    /\ heartbeat_age' = [heartbeat_age EXCEPT ![i] = 0]
    /\ UNCHANGED desired_state

\* Faulty variant: the holder's heartbeat is not looked at.
AcquireHeld(w, i) ==
    /\ desired_state[i] = "running" /\ worker_id[i] # w
    /\ generation[i] < MaxGeneration
    /\ worker_id' = [worker_id EXCEPT ![i] = w]
    /\ generation' = [generation EXCEPT ![i] = @ + 1]
    /\ heartbeat_age' = [heartbeat_age EXCEPT ![i] = 0]
    /\ UNCHANGED desired_state

\* AcquireLease returned a row
Acquire(w, i) ==
    /\ desired_state[i] = "running"
    /\ Free(i)
    /\ generation[i] < MaxGeneration
    /\ worker_id' = [worker_id EXCEPT ![i] = w]
    /\ generation' = [generation EXCEPT ![i] = @ + 1]
    /\ heartbeat_age' = [heartbeat_age EXCEPT ![i] = 0]
    /\ UNCHANGED desired_state

\* AcquireLease returned no row: ErrNotAcquired
NotAcquired(i) == ~(desired_state[i] = "running" /\ Free(i))

\* Faulty variant: a lease that should be stopped is renewed like any other.
RenewedAll(w) == {i \in Instances : worker_id[i] = w}

\* The rows HeartbeatLeases updates and returns
Renewed(w) == {i \in Instances : worker_id[i] = w /\ desired_state[i] = "running"}

\* Faulty variant: a renewal mints a new number.
HeartbeatMints(w) ==
    /\ heartbeat_age' = [i \in Instances |->
            IF i \in Renewed(w) THEN 0 ELSE heartbeat_age[i]]
    /\ generation' = [i \in Instances |->
            IF i \in Renewed(w) /\ generation[i] < MaxGeneration
            THEN generation[i] + 1 ELSE generation[i]]
    /\ UNCHANGED <<desired_state, worker_id>>

Heartbeat(w) ==
    /\ heartbeat_age' = [i \in Instances |->
            IF i \in Renewed(w) THEN 0 ELSE heartbeat_age[i]]
    /\ UNCHANGED <<desired_state, worker_id, generation>>

\* ReleaseLease for one instance, ReleaseWorkerLeases for all of them
Release(w, is) ==
    LET mine == {i \in is : worker_id[i] = w}
    IN  /\ worker_id' = [i \in Instances |->
                IF i \in mine THEN NoWorker ELSE worker_id[i]]
        /\ heartbeat_age' = [i \in Instances |->
                IF i \in mine THEN 0 ELSE heartbeat_age[i]]
        /\ UNCHANGED <<desired_state, generation>>

\* The passing of time
Tick ==
    /\ heartbeat_age' = [i \in Instances |->
            IF worker_id[i] # NoWorker /\ ~Stale(i)
            THEN heartbeat_age[i] + 1 ELSE heartbeat_age[i]]
    /\ UNCHANGED <<desired_state, worker_id, generation>>
=============================================================================

----------------------------- MODULE LeaseProofs -----------------------------
(***************************************************************************)
(* Proofs about Lease, for any sets of instances and workers, any expiry   *)
(* and any number of acquisitions.                                         *)
(***************************************************************************)
EXTENDS Lease, TLAPS

USE NoWorkerAssumption, ExpiryAssumption, MaxGenerationAssumption

\* Every generation ever handed out is bounded by the row's counter.  This is
\* what makes the next one fresh, and it is the part of the invariant that
\* GenerationNeverReused lacks to be inductive.
GrantsBounded == \A a \in granted : a[2] <= generation[a[1]]

\* The inductive invariant.
IInv ==
    /\ TypeOK
    /\ GrantsBounded
    /\ GenerationNeverReused
    /\ HolderWasGranted

\* The components of a grant, for the provers.
LEMMA GrantShape ==
    ASSUME NEW a \in Instances \X Nat \X Workers
    PROVE  a[1] \in Instances /\ a[2] \in Nat /\ a[3] \in Workers
           /\ a = <<a[1], a[2], a[3]>>
  OBVIOUS

\* Type correctness of the lease table and of the history of grants under every
\* statement of leases.sql.
LEMMA TypeStep == TypeOK /\ [Next]_vars => TypeOK'
<1> SUFFICES ASSUME TypeOK, [Next]_vars PROVE TypeOK'
  OBVIOUS
<1> USE DEF TypeOK, LeaseTypeOK, DesiredStates
<1>1. ASSUME NEW i \in Instances, MEnsure(i) PROVE TypeOK'
  BY <1>1, Zenon DEF MEnsure, Ensure
<1>2. ASSUME NEW i \in Instances, NEW d \in {"running", "stopped"},
             MSetDesired(i, d)
      PROVE TypeOK'
  BY <1>2, Zenon DEF MSetDesired, SetDesired
<1>3. ASSUME NEW d \in {"running", "stopped"}, MSetTenantDesired(d)
      PROVE TypeOK'
  BY <1>3, Zenon DEF MSetTenantDesired, SetDesired
<1>4. ASSUME NEW w \in Workers, NEW i \in Instances, MAcquire(w, i)
      PROVE TypeOK'
  <2>1. LeaseTypeOK'
    BY <1>4 DEF MAcquire, Acquire
  <2>2. generation'[i] \in Nat
    BY <2>1, Zenon
  <2>3. granted' \subseteq Instances \X Nat \X Workers
    BY <1>4, <2>2 DEF MAcquire
  <2> QED BY <2>1, <2>3, Zenon
<1>5. ASSUME NEW w \in Workers, NEW i \in Instances, MRelease(w, i)
      PROVE TypeOK'
  BY <1>5 DEF MRelease, Release
<1>6. ASSUME NEW w \in Workers, MHeartbeat(w) PROVE TypeOK'
  BY <1>6 DEF MHeartbeat, Heartbeat
<1>7. ASSUME NEW w \in Workers, MReleaseAll(w) PROVE TypeOK'
  BY <1>7 DEF MReleaseAll, Release
<1>8. CASE MTick
  BY <1>8 DEF MTick, Tick, Stale
<1>9. CASE UNCHANGED vars
  BY <1>9, Zenon DEF vars, leaseVars
<1> QED
  BY <1>1, <1>2, <1>3, <1>4, <1>5, <1>6, <1>7, <1>8, <1>9, Zenon DEF Next

\* The row of an instance whose worker_id and generation a step leaves alone,
\* or only clears, keeps all three history invariants when no grant is made.
LEMMA NoGrantStep ==
    ASSUME IInv, TypeOK', granted' = granted, generation' = generation,
           \A i \in Instances : worker_id'[i] \in {worker_id[i], NoWorker}
    PROVE  IInv'
<1>1. GrantsBounded'
  BY Zenon DEF IInv, GrantsBounded
<1>2. GenerationNeverReused'
  BY Zenon DEF IInv, GenerationNeverReused
<1>3. HolderWasGranted'
  BY Zenon DEF IInv, HolderWasGranted
<1> QED BY <1>1, <1>2, <1>3, Zenon DEF IInv

\* AcquireLease mints a generation above every one ever granted.
LEMMA AcquireStep ==
    ASSUME IInv, TypeOK', NEW w \in Workers, NEW i \in Instances, MAcquire(w, i)
    PROVE  IInv'
<1> DEFINE new == <<i, generation'[i], w>>
<1>1. /\ granted' = granted \cup {new}
      /\ generation[i] \in Nat
      /\ generation' = [generation EXCEPT ![i] = generation[i] + 1]
      /\ worker_id' = [worker_id EXCEPT ![i] = w]
      /\ generation \in [Instances -> Nat]
      /\ worker_id \in [Instances -> Workers \cup {NoWorker}]
      /\ granted \subseteq Instances \X Nat \X Workers
  BY Zenon DEF MAcquire, Acquire, IInv, TypeOK, LeaseTypeOK
<1>2. /\ generation'[i] = generation[i] + 1
      /\ \A j \in Instances : j # i => generation'[j] = generation[j]
      /\ \A j \in Instances : generation[j] \in Nat /\ generation[j] <= generation'[j]
  BY <1>1
<1>3. GrantsBounded'
  <2> SUFFICES ASSUME NEW a \in granted' PROVE a[2] <= generation'[a[1]]
    BY Zenon DEF GrantsBounded
  <2>1. CASE a \in granted
    <3>1. a[1] \in Instances /\ a[2] \in Nat
      BY <1>1, <2>1, GrantShape, Zenon
    <3>2. a[2] <= generation[a[1]]
      BY <2>1, Zenon DEF IInv, GrantsBounded
    <3> QED BY <3>1, <3>2, <1>2
  <2>2. CASE a = new
    BY <2>2, <1>2
  <2> QED BY <1>1, <2>1, <2>2, Zenon
<1>4. \A a \in granted : ~(a[1] = i /\ a[2] = generation'[i])
  <2> SUFFICES ASSUME NEW a \in granted, a[1] = i PROVE a[2] # generation'[i]
    OBVIOUS
  <2>1. a[2] \in Nat
    BY <1>1, GrantShape, Zenon
  <2>2. a[2] <= generation[i]
    BY Zenon DEF IInv, GrantsBounded
  <2> QED BY <1>2, <2>1, <2>2
<1>5. GenerationNeverReused'
  <2> SUFFICES ASSUME NEW a \in granted', NEW b \in granted', a[1] = b[1], a[2] = b[2]
               PROVE  a = b
    BY Zenon DEF GenerationNeverReused
  <2>1. CASE a \in granted /\ b \in granted
    BY <2>1, Zenon DEF IInv, GenerationNeverReused
  <2>2. CASE a = new /\ b = new
    BY <2>2, Zenon
  <2>3. CASE a = new /\ b \in granted
    BY <2>3, <1>4, Zenon
  <2>4. CASE a \in granted /\ b = new
    BY <2>4, <1>4, Zenon
  <2> QED BY <1>1, <2>1, <2>2, <2>3, <2>4, Zenon
<1>6. HolderWasGranted'
  <2> SUFFICES ASSUME NEW j \in Instances, worker_id'[j] # NoWorker
               PROVE  <<j, generation'[j], worker_id'[j]>> \in granted'
    BY Zenon DEF HolderWasGranted
  <2>1. CASE j = i
    BY <2>1, <1>1, Zenon
  <2>2. CASE j # i
    <3>1. worker_id'[j] = worker_id[j] /\ generation'[j] = generation[j]
      BY <2>2, <1>1, <1>2, Zenon
    <3>2. <<j, generation[j], worker_id[j]>> \in granted
      BY <3>1, Zenon DEF IInv, HolderWasGranted
    <3> QED BY <3>1, <3>2, <1>1, Zenon
  <2> QED BY <2>1, <2>2, Zenon
<1> QED BY <1>3, <1>5, <1>6, Zenon DEF IInv

\* IInv is inductive.
LEMMA InvariantStep == IInv /\ [Next]_vars => IInv'
<1> SUFFICES ASSUME IInv, [Next]_vars PROVE IInv'
  OBVIOUS
<1>0. TypeOK /\ TypeOK'
  BY TypeStep, Zenon DEF IInv
<1>1. ASSUME NEW i \in Instances, MEnsure(i) PROVE IInv'
  BY <1>0, <1>1, NoGrantStep, Zenon DEF MEnsure, Ensure
<1>2. ASSUME NEW i \in Instances, NEW d \in {"running", "stopped"},
             MSetDesired(i, d)
      PROVE IInv'
  BY <1>0, <1>2, NoGrantStep, Zenon DEF MSetDesired, SetDesired
<1>3. ASSUME NEW d \in {"running", "stopped"}, MSetTenantDesired(d)
      PROVE IInv'
  BY <1>0, <1>3, NoGrantStep, Zenon DEF MSetTenantDesired, SetDesired
<1>4. ASSUME NEW w \in Workers, NEW i \in Instances, MAcquire(w, i)
      PROVE IInv'
  BY <1>0, <1>4, AcquireStep, Zenon
<1>5. ASSUME NEW w \in Workers, NEW i \in Instances, MRelease(w, i)
      PROVE IInv'
  BY <1>0, <1>5, NoGrantStep, Zenon DEF MRelease, Release
<1>6. ASSUME NEW w \in Workers, MHeartbeat(w) PROVE IInv'
  BY <1>0, <1>6, NoGrantStep, Zenon DEF MHeartbeat, Heartbeat
<1>7. ASSUME NEW w \in Workers, MReleaseAll(w) PROVE IInv'
  BY <1>0, <1>7, NoGrantStep, Zenon DEF MReleaseAll, Release
<1>8. CASE MTick
  BY <1>0, <1>8, NoGrantStep, Zenon DEF MTick, Tick
<1>9. CASE UNCHANGED vars
  BY <1>0, <1>9, NoGrantStep, Zenon DEF vars, leaseVars
<1> QED
  BY <1>1, <1>2, <1>3, <1>4, <1>5, <1>6, <1>7, <1>8, <1>9, Zenon DEF Next

LEMMA InvariantInit == Init => IInv
  BY DEF Init, LeaseInit, IInv, TypeOK, LeaseTypeOK, DesiredStates,
         GrantsBounded, GenerationNeverReused, HolderWasGranted

\* The inductive invariant holds in every reachable state of the protocol.
THEOREM Invariant == Spec => []IInv
  BY InvariantInit, InvariantStep, PTL DEF Spec

\* Type correctness of the lease table.
THEOREM TypeCorrect == Spec => []TypeOK
  BY Invariant, PTL DEF IInv

\* No generation is handed out twice, whatever the order of acquisitions,
\* releases and expiries.
THEOREM NeverReused == Spec => []GenerationNeverReused
  BY Invariant, PTL DEF IInv

\* The worker in a row was granted the row's current generation: neither a
\* heartbeat nor a release lets anybody inherit a fence.
THEOREM HolderGranted == Spec => []HolderWasGranted
  BY Invariant, PTL DEF IInv

\* Of all the fences ever issued only the latest one passes CheckGeneration,
\* and only on the worker it was issued to.
THEOREM FencingSound == Spec => []OnlyLatestFencePasses
<1>1. IInv => OnlyLatestFencePasses
  <2> SUFFICES ASSUME IInv, NEW a \in granted, NEW w \in Workers,
                      CheckGeneration(w, a[1], a[2])
               PROVE  /\ a[3] = w
                      /\ \A b \in granted : b[1] = a[1] => b[2] <= a[2]
    BY Zenon DEF OnlyLatestFencePasses
  <2>1. /\ a[1] \in Instances /\ a[2] = generation[a[1]]
        /\ worker_id[a[1]] = w
    BY GrantShape, Zenon DEF IInv, TypeOK, CheckGeneration
  <2>2. <<a[1], a[2], w>> \in granted
    BY <2>1, Zenon DEF IInv, HolderWasGranted
  <2>3. a = <<a[1], a[2], w>>
    BY <2>2, Zenon DEF IInv, GenerationNeverReused
  <2>4. a[3] = w
    BY <2>3
  <2>5. \A b \in granted : b[1] = a[1] => b[2] <= a[2]
    BY <2>1, Zenon DEF IInv, GrantsBounded
  <2> QED BY <2>4, <2>5, Zenon
<1> QED BY <1>1, Invariant, PTL

-----------------------------------------------------------------------------
(* Ownership as a succession of epochs.                                    *)

\* One step of the table leaves a live lease with its holder, or vacant, and
\* moves generation by one only when nobody was live.
LEMMA NotStolenStep ==
    ASSUME TypeOK, TypeOK', [Next]_vars, NEW i \in Instances
    PROVE  /\ Live(i) => worker_id'[i] \in {worker_id[i], NoWorker}
           /\ generation'[i] # generation[i] =>
                 /\ generation'[i] = generation[i] + 1
                 /\ ~Live(i) /\ heartbeat_age'[i] = 0
<1> DEFINE Goal == /\ Live(i) => worker_id'[i] \in {worker_id[i], NoWorker}
                   /\ generation'[i] # generation[i] =>
                         /\ generation'[i] = generation[i] + 1
                         /\ ~Live(i) /\ heartbeat_age'[i] = 0
<1>1. ASSUME NEW w \in Workers, NEW j \in Instances, MAcquire(w, j)
      PROVE  Goal
  <2>1. CASE i = j
    BY <1>1, <2>1, Zenon DEF MAcquire, Acquire, Free, Live, TypeOK, LeaseTypeOK
  <2>2. CASE i # j
    BY <1>1, <2>2, Zenon DEF MAcquire, Acquire, TypeOK, LeaseTypeOK
  <2> QED BY <2>1, <2>2, Zenon
<1>2. ASSUME NEW w \in Workers, NEW is \in SUBSET Instances, Release(w, is)
      PROVE  Goal
  BY <1>2, Zenon DEF Release
<1>3. ASSUME UNCHANGED <<worker_id, generation>> PROVE Goal
  BY <1>3, Zenon
<1>4. ASSUME NEW w \in Workers, NEW j \in Instances, MRelease(w, j)
      PROVE  Goal
  BY <1>2, <1>4, Zenon DEF MRelease
<1>5. ASSUME NEW w \in Workers, MReleaseAll(w) PROVE Goal
  BY <1>2, <1>5, Zenon DEF MReleaseAll
<1> QED
  BY <1>1, <1>3, <1>4, <1>5, Zenon
  DEF Next, vars, leaseVars, MEnsure, Ensure, MSetDesired, MSetTenantDesired,
      SetDesired, MHeartbeat, Heartbeat, MTick, Tick

\* A lease within its expiry is never taken from its holder.
THEOREM NeverStolen == Spec => LiveLeaseNeverStolen
<1>1. TypeOK /\ TypeOK' /\ [Next]_vars =>
        [\A i \in Instances :
          /\ Live(i) => worker_id'[i] \in {worker_id[i], NoWorker}
          /\ generation'[i] # generation[i] =>
                /\ generation'[i] = generation[i] + 1
                /\ ~Live(i) /\ heartbeat_age'[i] = 0]_vars
  BY NotStolenStep, Zenon
<1> QED BY <1>1, TypeCorrect, PTL DEF Spec, LiveLeaseNeverStolen

\* Every statement is a step of Ownership, or changes nothing Ownership sees.
LEMMA OwnershipStep ==
    TypeOK /\ TypeOK' /\ [Next]_vars => [Epochs!Next]_(Epochs!vars)
<1> SUFFICES ASSUME TypeOK, TypeOK', [Next]_vars
             PROVE  [Epochs!Next]_(Epochs!vars)
  OBVIOUS
<1> USE DEF TypeOK, LeaseTypeOK
<1>1. ASSUME UNCHANGED <<worker_id, generation, heartbeat_age>>
      PROVE  UNCHANGED Epochs!vars
  BY <1>1, Zenon DEF Epochs!vars, Live, Stale
<1>2. ASSUME NEW w \in Workers, NEW i \in Instances, MAcquire(w, i)
      PROVE  Epochs!Next
  <2>1. Epochs!Begin(i, w)
    BY <1>2 DEF MAcquire, Acquire, Free, Live, Stale, Epochs!Begin
  <2> QED BY <2>1, Zenon DEF Epochs!Next
<1>3. ASSUME NEW w \in Workers, NEW is \in SUBSET Instances, Release(w, is)
      PROVE  Epochs!Next
  <2> DEFINE gone == {i \in is : worker_id[i] = w}
  <2>1. Epochs!GiveUp(gone)
    BY <1>3, Zenon DEF Release, Live, Stale, Epochs!GiveUp
  <2>2. gone \in SUBSET Instances
    OBVIOUS
  <2> QED BY <2>1, <2>2, Zenon DEF Epochs!Next
<1>4. ASSUME NEW w \in Workers, MHeartbeat(w) PROVE Epochs!Next
  <2>1. Renewed(w) \in SUBSET Instances
    BY Zenon DEF Renewed
  <2>2. Epochs!Renew(Renewed(w), w)
    BY <1>4 DEF MHeartbeat, Heartbeat, Renewed, Live, Stale, Epochs!Renew
  <2> QED BY <2>1, <2>2, Zenon DEF Epochs!Next
<1>5. CASE MTick
  <2> DEFINE late == {i \in Instances : heartbeat_age[i] = Expiry}
  <2>1. Epochs!Lapse(late)
    BY <1>5 DEF MTick, Tick, Live, Stale, Epochs!Lapse
  <2>2. late \in SUBSET Instances
    OBVIOUS
  <2> QED BY <2>1, <2>2, Zenon DEF Epochs!Next
<1>6. ASSUME NEW w \in Workers, NEW i \in Instances, MRelease(w, i)
      PROVE  Epochs!Next
  BY <1>3, <1>6, Zenon DEF MRelease
<1>7. ASSUME NEW w \in Workers, MReleaseAll(w) PROVE Epochs!Next
  BY <1>3, <1>7, Zenon DEF MReleaseAll
<1>8. ASSUME \/ \E i \in Instances : MEnsure(i)
             \/ \E i \in Instances, d \in {"running", "stopped"} : MSetDesired(i, d)
             \/ \E d \in {"running", "stopped"} : MSetTenantDesired(d)
             \/ UNCHANGED vars
      PROVE  UNCHANGED Epochs!vars
  BY <1>1, <1>8, Zenon DEF MEnsure, Ensure, MSetDesired, MSetTenantDesired, SetDesired,
                    vars, leaseVars
<1> QED
  BY <1>2, <1>4, <1>5, <1>6, <1>7, <1>8, Zenon DEF Next

\* The lease table implements the succession of epochs of Ownership.
THEOREM Implements == Spec => ImplementsOwnership
<1>1. Init => Epochs!Init
  BY Zenon DEF Init, LeaseInit, Epochs!Init, Live
<1> QED
  BY <1>1, OwnershipStep, TypeCorrect, PTL DEF Spec, ImplementsOwnership, Epochs!Spec
=============================================================================

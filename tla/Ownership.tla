------------------------------ MODULE Ownership ------------------------------
(***************************************************************************)
(* What the lease table promises about one session's ownership, without    *)
(* rows, heartbeats or expiry.  Ownership of an instance is a succession   *)
(* of numbered epochs.  An epoch belongs to one worker, and its number is  *)
(* the fencing token of that worker.  Within its epoch the worker may lose *)
(* and regain standing (its heartbeat goes stale, then arrives after all)  *)
(* but it cannot regain it once it gave the epoch up, or once another      *)
(* epoch has begun.                                                        *)
(***************************************************************************)
EXTENDS Naturals

CONSTANTS Instances, Workers, NoWorker

VARIABLES
    epoch,      \* number of the current epoch of each instance
    owner,      \* the worker the current epoch belongs to, NoWorker if given up
    standing    \* the instances whose owner currently holds the session

vars == <<epoch, owner, standing>>

Init ==
    /\ epoch = [i \in Instances |-> 0]
    /\ owner = [i \in Instances |-> NoWorker]
    /\ standing = {}

\* A new epoch begins; never while somebody has standing.
Begin(i, w) ==
    /\ i \notin standing
    /\ epoch' = [epoch EXCEPT ![i] = @ + 1]
    /\ owner' = [owner EXCEPT ![i] = w]
    /\ standing' = standing \cup {i}

\* Owners in `gone' give their epoch up; any number at once (a worker drains).
GiveUp(gone) ==
    /\ owner' = [i \in Instances |-> IF i \in gone THEN NoWorker ELSE owner[i]]
    /\ standing' = standing \ gone
    /\ UNCHANGED epoch

\* Standing lapses with time and is regained by a late renewal, both only for
\* instances whose epoch still has an owner.
Lapse(late) ==
    /\ standing' = standing \ late
    /\ UNCHANGED <<epoch, owner>>

Renew(is, w) ==
    /\ w # NoWorker
    /\ standing' = standing \cup {i \in is : owner[i] = w}
    /\ UNCHANGED <<epoch, owner>>

Next ==
    \/ \E i \in Instances, w \in Workers : Begin(i, w)
    \/ \E is \in SUBSET Instances : GiveUp(is) \/ Lapse(is)
    \/ \E is \in SUBSET Instances, w \in Workers : Renew(is, w)

Spec == Init /\ [][Next]_vars
=============================================================================

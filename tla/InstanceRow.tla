----------------------------- MODULE InstanceRow -----------------------------
(***************************************************************************)
(* The connection columns of the instances table, the statements of        *)
(* internal/store/queries/connection.sql that write them, and the state    *)
(* machine and reasons of internal/domain.  Timestamps and device details  *)
(* are left out.  Reasons with the same treatment share a value: network   *)
(* stands for every transient reason a live socket reports, connect_failure*)
(* for the permanent ones that leave the instance merely disconnected.     *)
(* Extends LeaseTable because ListAdoptableLeases joins the two tables.    *)
(***************************************************************************)
EXTENDS LeaseTable

VARIABLES connection_state, connection_intent, last_disconnect_reason

rowVars == <<connection_state, connection_intent, last_disconnect_reason>>

States == {"registered", "pairing", "connecting", "connected",
           "disconnected", "logged_out", "banned"}

Intents == {"active", "stopped"}

TransientReasons == {"network", "proxy_updated"}

\* permanentReasons
PermanentReasons == {"user_requested", "logged_out_from_phone", "temporary_ban",
                     "connect_failure", "tenant_suspended"}

Reasons == {"none"} \cup TransientReasons \cup PermanentReasons

\* allowedTransitions
AllowedTransitions == [s \in States |->
    CASE s = "registered"   -> {"pairing"}
      [] s = "pairing"      -> {"connected", "connecting", "registered", "disconnected"}
      [] s = "connecting"   -> {"connected", "disconnected", "logged_out", "banned",
                                "registered"}
      [] s = "connected"    -> {"connecting", "disconnected", "logged_out", "banned"}
      [] s = "disconnected" -> {"connecting", "pairing", "registered", "logged_out",
                                "banned"}
      [] s = "logged_out"   -> {"pairing", "registered"}
      [] s = "banned"       -> {"pairing", "connecting", "registered"}]

CanTransition(from, to) == from = to \/ to \in AllowedTransitions[from]

RowTypeOK ==
    /\ connection_state \in [Instances -> States]
    /\ connection_intent \in [Instances -> Intents]
    /\ last_disconnect_reason \in [Instances -> Reasons]

\* The instances ListAdoptableLeases leaves out.
Parked == {i \in Instances : last_disconnect_reason[i] \in PermanentReasons}

SetConnectionIntent(i, intent, clearReason) ==
    /\ connection_intent' = [connection_intent EXCEPT ![i] = intent]
    /\ last_disconnect_reason' = [last_disconnect_reason EXCEPT ![i] =
                                    IF clearReason THEN "none" ELSE @]
    /\ UNCHANGED connection_state

SetConnectionState(i, s) ==
    /\ connection_state' = [connection_state EXCEPT ![i] = s]
    /\ UNCHANGED <<connection_intent, last_disconnect_reason>>

\* Faulty variant: the two columns are swapped.
RecordSwapped(i, s, reason) ==
    /\ connection_state' = [connection_state EXCEPT ![i] = reason]
    /\ last_disconnect_reason' = [last_disconnect_reason EXCEPT ![i] = s]
    /\ UNCHANGED connection_intent

RecordDisconnect(i, s, reason) ==
    /\ connection_state' = [connection_state EXCEPT ![i] = s]
    /\ last_disconnect_reason' = [last_disconnect_reason EXCEPT ![i] = reason]
    /\ UNCHANGED connection_intent

\* ClassifyDisconnect and the switch of handleDisconnect: the state a reported
\* disconnection leads to.
StateAfter(reason) ==
    CASE reason = "logged_out_from_phone" -> "logged_out"
      [] reason = "temporary_ban"         -> "banned"
      [] reason = "connect_failure"       -> "disconnected"
      [] OTHER                            -> "connecting"
=============================================================================

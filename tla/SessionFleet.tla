----------------------------- MODULE SessionFleet -----------------------------
(***************************************************************************)
(* The whole session plane: the API's ConnectionService                    *)
(* (internal/domain/services/connection.go) commanding a fleet of workers  *)
(* (Worker) through the lease table, the Redis control channels and the    *)
(* sessionclient (internal/api/sessionclient/client.go).  One tenant owns  *)
(* every instance, and every instance is paired.                           *)
(***************************************************************************)
EXTENDS Worker

CONSTANTS
    Calls,      \* API requests, each made at most once
    Lossy       \* may a message published on Redis miss a worker

ASSUME FleetAssumption == Lossy \in BOOLEAN

VARIABLES
    tenant_status,  \* tenants.status
    calls           \* progress of each request

vars == <<leaseVars, rowVars, workerVars, tenant_status, calls>>

\* is: the instances still to treat; owner: the <<worker, generation>> resolved;
\* back: where a refused call resumes, its first resolution or the poll after a
\* claim; retried: the one retry of call has been used
Unmade == [op |-> "none", is |-> {}, at |-> "unmade", owner |-> {}, back |-> "call",
           retried |-> FALSE]

CallTypeOK ==
    \A c \in Calls :
        /\ calls[c].op \in Commands \cup {"none"}
        /\ calls[c].is \subseteq Instances
        /\ calls[c].at \in {"unmade", "intent", "desired", "call", "poll", "claim", "sent",
                            "serving", "direct", "status", "stop", "resume", "done"}
        /\ calls[c].owner \subseteq Workers \X (1..MaxGeneration)
        /\ calls[c].back \in {"call", "poll"} /\ calls[c].retried \in BOOLEAN

\* Each instance was last either disconnected by its tenant or left running by
\* a fleet that is gone.
Init ==
    /\ WorkerInit
    /\ \E wanted \in SUBSET scenario.on :
          /\ desired_state = [i \in Instances |-> IF i \in wanted THEN "running" ELSE "stopped"]
          /\ connection_intent = [i \in Instances |->
                                    IF i \in wanted THEN "active" ELSE "stopped"]
          /\ last_disconnect_reason = [i \in Instances |->
                                    IF i \in wanted THEN "none" ELSE "user_requested"]
    /\ connection_state = [i \in Instances |-> "disconnected"]
    /\ worker_id = [i \in Instances |-> NoWorker]
    /\ generation = [i \in Instances |-> 0]
    /\ heartbeat_age = [i \in Instances |-> 0]
    /\ tenant_status = "active"
    /\ calls = [c \in Calls |-> Unmade]

-----------------------------------------------------------------------------
(* Requests.                                                               *)

Go(c, at) ==
    calls' = [calls EXCEPT ![c] = IF at = "done" THEN [Unmade EXCEPT !.at = "done"]
                                  ELSE [@ EXCEPT !.at = at]]

\* The middleware lets the request in; suspending and activating are the
\* platform administrator's.
Request(c, op, i) ==
    /\ calls[c].at = "unmade"
    /\ op \in scenario.commands /\ i \in scenario.on
    /\ op \in {"connect", "disconnect", "settings"} => tenant_status = "active"
    /\ calls' = [calls EXCEPT ![c] = [@ EXCEPT !.op = op, !.is = {i},
                    !.at = CASE op \in {"connect", "disconnect"} -> "intent"
                             [] op = "settings" -> "call"
                             [] OTHER -> "status"]]
    /\ UNCHANGED <<leaseVars, rowVars, workerVars, tenant_status>>

\* Connect and Disconnect: Ensure, then the intent.
RecordIntent(c) ==
    /\ calls[c].at = "intent"
    /\ \E i \in calls[c].is :
          /\ Ensure(i)
          /\ \/ calls[c].op = "connect" /\ SetConnectionIntent(i, "active", TRUE)
             \/ calls[c].op = "disconnect" /\ SetConnectionIntent(i, "stopped", FALSE)
    /\ Go(c, "desired")
    /\ UNCHANGED <<workerVars, tenant_status>>

RecordDesired(c) ==
    /\ calls[c].at = "desired" /\ calls[c].op \in {"connect", "disconnect"}
    /\ SetDesired(calls[c].is, IF calls[c].op = "connect" THEN "running" ELSE "stopped")
    /\ Go(c, "call")
    /\ UNCHANGED <<rowVars, workerVars, tenant_status>>

-----------------------------------------------------------------------------
(* sessionclient.call.                                                     *)

\* resolve: the owner of a live lease, or at the first attempt a cached one whose
\* lease has gone stale.  A cached owner that has been replaced is refused by the
\* fence, which leads to the second attempt.
Resolve(c) ==
    /\ calls[c].at \in {"call", "poll"}
    /\ \E i \in calls[c].is :
          /\ worker_id[i] # NoWorker /\ (calls[c].retried => Live(i))
          /\ calls' = [calls EXCEPT ![c] = [@ EXCEPT !.owner = {<<worker_id[i], generation[i]>>},
                                                     !.at = "sent", !.back = calls[c].at]]
    /\ UNCHANGED <<leaseVars, rowVars, workerVars, tenant_status>>

\* resolve: ErrNoOwner, and what each operation makes of it.
NoOwner(c) ==
    /\ calls[c].at = "call"
    /\ \A i \in calls[c].is : ~Live(i)
    /\ Go(c, CASE calls[c].op = "connect" -> "claim"
               [] calls[c].op = "disconnect" -> "direct"
               [] OTHER -> "done")
    /\ UNCHANGED <<leaseVars, rowVars, workerVars, tenant_status>>

\* ErrNoOwner after a claim: the poll goes on afresh, or its deadline has passed.
PollTimeout(c) ==
    /\ calls[c].at = "poll"
    /\ \A i \in calls[c].is : ~Live(i)
    /\ \/ calls[c].retried /\ calls' = [calls EXCEPT ![c].retried = FALSE]
       \/ Go(c, "done")
    /\ UNCHANGED <<leaseVars, rowVars, workerVars, tenant_status>>

\* fence passes.
Deliver(c) ==
    /\ calls[c].at = "sent"
    /\ \E i \in calls[c].is, o \in calls[c].owner :
          /\ proc[o[1]] = "up"
          /\ CheckGeneration(o[1], i, o[2])
          /\ handlers' = handlers \cup {Handler(c, calls[c].op, o[1], i)}
    /\ Go(c, "serving")
    /\ UNCHANGED <<leaseVars, rowVars, proc, sessions, closing, loop, drain, claims, stops,
                   scenario, tenant_status>>

\* call and shouldRetry: one more attempt, against the lease, then the error.
Retry(c) ==
    calls' = [calls EXCEPT ![c] = IF @.retried THEN [Unmade EXCEPT !.at = "done"]
                                  ELSE [@ EXCEPT !.at = calls[c].back, !.retried = TRUE]]

\* WRONG_GENERATION, or a worker that is draining or dead.
Refused(c) ==
    /\ calls[c].at = "sent"
    /\ \E i \in calls[c].is, o \in calls[c].owner :
          proc[o[1]] # "up" \/ ~CheckGeneration(o[1], i, o[2])
    /\ Retry(c)
    /\ UNCHANGED <<leaseVars, rowVars, workerVars, tenant_status>>

\* The answer arrives, whatever it says; a worker that died may have answered or
\* not.
Answered(c) ==
    /\ calls[c].at = "serving"
    /\ \A h \in handlers : h.c # c
    /\ \/ Go(c, "done")
       \/ (\E o \in calls[c].owner : ~Alive(o[1])) /\ Retry(c)
    /\ UNCHANGED <<leaseVars, rowVars, workerVars, tenant_status>>

-----------------------------------------------------------------------------
(* Redis control channels.  A message reaches the workers that are up.     *)

\* Publisher.Claim and Publisher.Stop, for each instance of is
Publish(chan, is) ==
    \E missed \in SUBSET Workers :
        /\ missed # {} => Lossy
        /\ chan' = [w \in Workers |-> IF proc[w] = "up" /\ w \notin missed
                                      THEN chan[w] \cup is ELSE chan[w]]

\* claimAndRetryConnect
ClaimFleet(c) ==
    /\ calls[c].at = "claim"
    /\ Publish(claims, calls[c].is)
    /\ calls' = [calls EXCEPT ![c].at = "poll", ![c].retried = FALSE]
    /\ UNCHANGED <<leaseVars, rowVars, proc, sessions, closing, loop, drain, handlers, stops,
                   scenario, tenant_status>>

\* setStateDirect: no owner, nothing to disconnect.
WriteDisconnected(c) ==
    /\ calls[c].at = "direct"
    /\ \E i \in calls[c].is : SetConnectionState(i, "disconnected")
    /\ Go(c, "done")
    /\ UNCHANGED <<leaseVars, workerVars, tenant_status>>

-----------------------------------------------------------------------------
(* Suspension and reactivation of the tenant.                              *)

\* TenantService.SetStatus commits the status; the projection follows.
RecordStatus(c) ==
    /\ calls[c].at = "status"
    /\ tenant_status' = IF calls[c].op = "suspend" THEN "suspended" ELSE "active"
    /\ Go(c, "desired")
    /\ UNCHANGED <<leaseVars, rowVars, workerVars>>

\* SetTenantDesired
StopTenant(c) ==
    /\ calls[c].at = "desired" /\ calls[c].op = "suspend"
    /\ SetDesired(Instances, "stopped")
    /\ Go(c, "stop")
    /\ UNCHANGED <<rowVars, workerVars, tenant_status>>

BroadcastStop(c) ==
    /\ calls[c].at = "stop"
    /\ Publish(stops, Instances)
    /\ Go(c, "done")
    /\ UNCHANGED <<leaseVars, rowVars, proc, sessions, closing, loop, drain, handlers, claims,
                   scenario, tenant_status>>

\* resumeTenant: the instances whose intent is active...
ListActive(c) ==
    /\ calls[c].at = "desired" /\ calls[c].op = "activate"
    /\ calls' = [calls EXCEPT ![c] = [@ EXCEPT !.at = "resume",
                    !.is = {i \in Instances : connection_intent[i] = "active"}]]
    /\ UNCHANGED <<leaseVars, rowVars, workerVars, tenant_status>>

\* ...one at a time: the row, then the claim that a worker may take at any time
ResumeOne(c) ==
    /\ calls[c].at = "resume"
    /\ \E i \in calls[c].is :
          /\ SetDesired({i}, "running")
          /\ Publish(claims, {i})
          /\ calls' = [calls EXCEPT ![c].is = @ \ {i}]
    /\ UNCHANGED <<rowVars, proc, sessions, closing, loop, drain, handlers, stops, scenario,
                   tenant_status>>

Resumed(c) ==
    /\ calls[c].at = "resume" /\ calls[c].is = {}
    /\ Go(c, "done")
    /\ UNCHANGED <<leaseVars, rowVars, workerVars, tenant_status>>

\* The steps of a request under way.
CallStep(c) ==
    \/ RecordIntent(c) \/ RecordDesired(c) \/ Resolve(c) \/ NoOwner(c) \/ PollTimeout(c)
    \/ Deliver(c) \/ Refused(c) \/ Answered(c) \/ ClaimFleet(c) \/ WriteDisconnected(c)
    \/ RecordStatus(c) \/ StopTenant(c) \/ BroadcastStop(c)
    \/ ListActive(c) \/ ResumeOne(c) \/ Resumed(c)

Next ==
    \/ WorkerNext /\ UNCHANGED <<tenant_status, calls>>
    \/ \E c \in Calls : CallStep(c)
    \/ \E c \in Calls, op \in Commands, i \in Instances : Request(c, op, i)

Spec == Init /\ [][Next]_vars

-----------------------------------------------------------------------------
(* Fairness.  A goroutine that can run does; time passes; and the select   *)
(* of Runtime.Run, which picks at random among what is ready, serves each  *)
(* ticker and each channel again and again.  Nothing is assumed of         *)
(* requests, failures, SIGTERM or what WhatsApp does to an open socket.    *)

Worker1(A) == A /\ UNCHANGED <<tenant_status, calls>>

ClosingStep(w) ==
    \E p \in closing : /\ p.w = w
                       /\ \/ ClosingHandle(p) \/ ClosingReturn(p) \/ ClosingStop(p)
                          \/ ClosingDesired(p) \/ ClosingRelease(p)

SessionStep(w, i) == Reconnect(w, i) \/ PumpHandle(w, i) \/ PumpStop(w, i) \/ SocketUp(w, i)

Fairness ==
    /\ SF_vars(Worker1(Clock))
    /\ \A w \in Workers :
          /\ SF_vars(Worker1(HeartbeatOnce(w)))
          /\ SF_vars(Worker1(ReconcileOnce(w)))
          /\ WF_vars(Worker1(RuntimeStep(w)))
          /\ WF_vars(Worker1(ClosingStep(w)))
          /\ WF_vars(Worker1(ShutdownNext(w)))
          /\ \A i \in Instances :
                /\ WF_vars(Worker1(SessionStep(w, i)))
                /\ SF_vars(Worker1(Claim(w, i)))
                /\ SF_vars(Worker1(StopRequest(w, i)))
    /\ \A c \in Calls :
          /\ WF_vars(CallStep(c))
          /\ WF_vars(Worker1(\E h \in handlers : h.c = c /\ HandlerStep(h)))

FairSpec == Spec /\ Fairness

-----------------------------------------------------------------------------
(* Properties.                                                             *)

\* Every variable keeps its type, and no counter passes its bound.
TypeOK ==
    /\ LeaseTypeOK /\ RowTypeOK /\ WorkerTypeOK /\ CallTypeOK
    /\ tenant_status \in {"active", "suspended"}
    /\ scenario \in ScenarioRecords

OnTime == scenario.pace = "timely"

\* Not counting a process that handed its leases back and is about to exit: the
\* session whose adoption it had in hand at SIGTERM dies with it.
OpenSockets(i) ==
    {<<w, 0>> : w \in {w \in Workers : sessions[w][i].sock = "open" /\ proc[w] # "drained"}}
        \cup {<<p.w, p.gen>> : p \in {p \in closing : p.i = i /\ p.sock = "open"}}

\* A session is connected in at most one place (leases.sql, header): counting
\* every socket of every process, one instance never has two open, as long as no
\* worker is late or on its way out of main.
ExclusiveSocket ==
    OnTime => \A i \in Instances : Cardinality(OpenSockets(i)) <= 1

\* A process with a socket open holds the lease of the instance (ApplySettings:
\* "in the process that holds the lease"), as long as it is neither late nor on its
\* way out of main.
OpenUnderLease ==
    OnTime => \A i \in Instances, w \in Workers :
                  sessions[w][i].sock = "open" => worker_id[i] = w \/ proc[w] = "drained"

\* Generations that process w is working under for instance i: in the map, in a
\* session on its way out, in one about to start, in a relink.
Generations(w, i) ==
    ({sessions[w][i].gen} \cup {p.gen : p \in {p \in closing : p.w = w /\ p.i = i}}
        \cup {c[2] : c \in {c \in loop[w].cur : c[1] = i}}
        \cup {h.gen : h \in {h \in handlers : h.w = w /\ h.i = i}}) \ {0}

\* What fencing rests on: two processes never work on an instance under the same
\* generation, and nobody works under one that was not yet granted, however late
\* heartbeats, drops and releases are (Supervisor.Adopt, relink, AcquireLease).
GenerationsDisjoint ==
    \A i \in Instances, w \in Workers :
        /\ \A g \in Generations(w, i) : g <= generation[i]
        /\ \A v \in Workers \ {w} : Generations(w, i) \cap Generations(v, i) = {}

\* Instances that w runs while the lease it runs them under is handed back.
Uncovered(w) ==
    {i \in Instances : /\ worker_id[i] = w /\ worker_id'[i] = NoWorker
                       /\ sessions[w][i].gen = generation[i]}

\* A lease is handed back only once the session it was for has left the map
\* (Disconnect, StopOnRequest, handleDisconnect, Adopt, relink), but for one: the
\* session whose adoption was in hand at SIGTERM, which may enter the map after
\* Shutdown listed it.
ReleasedAfterTeardown ==
    [][\A w \in Workers :
          Cardinality(Uncovered(w)) <= IF proc[w] = "draining" THEN 1 ELSE 0]_vars

\* Shutdown hands back every lease and none comes back: a process that drained
\* and exited owns no row, whatever its runtime had in hand at SIGTERM.
DrainedOwnsNothing ==
    \A i \in Instances, w \in Workers : proc[w] \in {"drained", "exited"} => worker_id[i] # w

\* The capacity a worker is given is exceeded by relinks alone, and by at most one
\* session for each: HasCapacity is asked well before the session is put in the
\* map, and relink, which does not ask, may find its place taken (HasCapacity,
\* Adopt, start, relink).
WithinCapacity ==
    \A w \in Workers : Cardinality(Held(w)) <= MaxSessions + scenario.relinks

Running(i) == \E w \in Workers : i \in Held(w)

\* A session whose lease should be stopped is eventually taken down by whoever
\* runs it, or the lease should be running again (heartbeatOnce, Drop).
StoppedComesDown ==
    \A i \in Instances : desired_state[i] = "stopped" ~>
                            (~Running(i) \/ desired_state[i] = "running")

\* A session that should be running and is not parked is eventually run by some
\* worker, or no longer wanted (reconcileOnce, Adopt; the failover path).
RunningIsServed ==
    \A i \in Instances : (desired_state[i] = "running" /\ i \notin Parked) ~>
                            (Running(i) \/ desired_state[i] # "running" \/ i \in Parked)

Restored(i) == Running(i) \/ last_disconnect_reason[i] # "tenant_suspended"

\* A session that was stopped by a suspension is run again once the tenant is
\* active and its row says running, or stops being wanted (ApplyTenantStatus:
\* "reactivating restores exactly what the tenant had running").
ReactivatedIsServed ==
    \A i \in Instances : (tenant_status = "active" /\ desired_state[i] = "running") ~>
        (Restored(i) \/ tenant_status # "active" \/ desired_state[i] # "running")

\* Suspending a tenant takes all its sessions down, unless it is active again
\* before (ApplyTenantStatus, StopOnRequest).
SuspendedGoesDown ==
    tenant_status = "suspended" ~>
        (tenant_status = "active" \/ \A i \in Instances : ~Running(i))

-----------------------------------------------------------------------------
(* Two statements of the code's comments that its behaviours do not keep;  *)
(* README.md says how.                                                     *)

\* Nothing runs, or is about to run, the instance.
Quiet(i) ==
    /\ \A w \in Workers : Generations(w, i) = {}
    /\ \A c \in Calls : calls[c].at \in {"unmade", "done"}

\* The database does not report a session as connected once nothing runs it
\* (pump: database and WebSocket never tell different stories).
NotReportedConnected ==
    \A i \in Instances : Quiet(i) => connection_state[i] # "connected"

\* Whatever writes connection_state follows the state machine of the domain
\* (allowedTransitions), in whatever order the pump and the commands run.
LegalTransitions ==
    [][\A i \in Instances : CanTransition(connection_state[i], connection_state'[i])]_vars
=============================================================================

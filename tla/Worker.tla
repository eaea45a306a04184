-------------------------------- MODULE Worker --------------------------------
(***************************************************************************)
(* The session worker process: Supervisor (internal/worker/supervisor.go), *)
(* the event pump of each session (internal/worker/session.go), Runtime    *)
(* (internal/worker/reconcile.go), the session commands of the gRPC server *)
(* (internal/worker/grpcserver.go) and the drain on SIGTERM                *)
(* (cmd/zappermeow/session_worker.go).  Every instance is paired and stays *)
(* so: pairing and logout, also one made on the phone, are not part of     *)
(* this module.  A settings command is a change of proxy.                  *)
(*                                                                         *)
(* Grain: one step per database statement and one per change of the        *)
(* sessions map, a lookup going with the statement that follows it.  The   *)
(* goroutines that interleave are the runtime loop, the main goroutine     *)
(* when it drains, one pump and one dialler per session and one handler    *)
(* per command.  Published frames, metrics and the trail are left out.     *)
(***************************************************************************)
EXTENDS InstanceRow, Sequences

CONSTANTS
    MaxSessions,    \* Supervisor.maxSessions
    InboxSize,      \* bound on the events buffered for one session
    Scenarios       \* what a behaviour has room for: records of ScenarioRecords

\* The operations a request may be.
Commands == {"connect", "disconnect", "settings", "suspend", "activate"}

\* How many disconnections caused by WhatsApp, failures of Supervisor.start,
\* crashes and SIGTERMs are still to come; how many relinks have started a
\* session so far; whether a worker acts on a lease before it can expire; which
\* operations are requested, and of which instances.
ScenarioRecords ==
    [events : Nat, fails : Nat, crashes : Nat, drains : Nat, relinks : Nat,
     pace : {"timely", "late"}, commands : SUBSET Commands, on : SUBSET Instances]

ASSUME WorkerAssumption ==
    /\ {MaxSessions, InboxSize} \subseteq Nat
    /\ Scenarios \subseteq ScenarioRecords

VARIABLES
    proc,       \* life of each process
    sessions,   \* Supervisor.sessions, with the socket and the pump of each
    closing,    \* sessions out of the map whose pump has not returned
    loop,       \* where Runtime.Run is
    drain,      \* where Supervisor.Shutdown is
    handlers,   \* session commands being executed by the gRPC server
    claims,     \* instance ids in each worker's claim channel
    stops,      \* instance ids in each worker's stop channel
    scenario    \* what is still to come of the bounds of the behaviour

workerVars ==
    <<proc, sessions, closing, loop, drain, handlers, claims, stops, scenario>>

\* up; SIGTERM received; Shutdown running; leases handed back; returned from
\* main; killed
ProcStates == {"up", "sigterm", "draining", "drained", "exited", "crashed"}

Alive(w) == proc[w] \notin {"exited", "crashed"}

\* gen = 0: not in the map.  dial counts the reconnect goroutines yet to dial.
NoSession ==
    [gen |-> 0, sock |-> "closed", dial |-> 0, at |-> "loop", inbox |-> <<>>]

Held(w) == {i \in Instances : sessions[w][i].gen > 0}

\* Faulty variant: off by one.
HasCapacityPlusOne(w) ==
    /\ proc[w] \in {"up", "sigterm"}
    /\ Cardinality(Held(w)) <= MaxSessions

HasCapacity(w) ==
    /\ proc[w] \in {"up", "sigterm"}
    /\ Cardinality(Held(w)) < MaxSessions

\* set: instances still to treat; cur: the <<instance, generation>> in hand
Idle == [at |-> "select", set |-> {}, cur |-> {}]

WorkerInit ==
    /\ proc = [w \in Workers |-> "up"]
    /\ sessions = [w \in Workers |-> [i \in Instances |-> NoSession]]
    /\ closing = {}
    /\ loop = [w \in Workers |-> Idle]
    /\ drain = [w \in Workers |-> Idle]
    /\ handlers = {}
    /\ claims = [w \in Workers |-> {}]
    /\ stops = [w \in Workers |-> {}]
    /\ scenario \in Scenarios

Events == {"connected"} \cup TransientReasons \cup PermanentReasons

SockStates == {"closed", "dialing", "open"}

LoopStates == {"select", "dropping", "adopting", "starting", "giveback",
               "stopping", "stopped"}

WorkerTypeOK ==
    /\ proc \in [Workers -> ProcStates]
    /\ \A w \in Workers, i \in Instances :
          sessions[w][i] \in [gen : 0..MaxGeneration, sock : SockStates, dial : 0..2,
                              at : {"loop", "stop"},
                              inbox : UNION {[1..n -> Events] : n \in 0..InboxSize}]
    /\ \A p \in closing : /\ p.w \in Workers /\ p.i \in Instances
                          /\ p.gen \in 1..MaxGeneration /\ p.sock \in SockStates
                          /\ p.at \in {"loop", "stop", "desired", "release"}
                          /\ p.orphan \in BOOLEAN
    /\ \A w \in Workers : \A l \in {loop[w], drain[w]} :
          /\ l.at \in LoopStates /\ l.set \subseteq Instances
          /\ l.cur \subseteq Instances \X (1..MaxGeneration)
    /\ \A h \in handlers : /\ h.w \in Workers /\ h.i \in Instances
                           /\ h.op \in {"connect", "disconnect", "settings"}
                           /\ h.at \in {"body", "stop", "wait"}
                           /\ h.gen \in 0..MaxGeneration
                           /\ h.cur \subseteq Instances \X (1..MaxGeneration)
    /\ claims \in [Workers -> SUBSET Instances]
    /\ stops \in [Workers -> SUBSET Instances]

-----------------------------------------------------------------------------
(* Supervisor: the sessions map.                                           *)

InMap(w, is) == {<<i, sessions[w][i].gen>> : i \in is \cap Held(w)}

\* What remains of a session that leaves the map.  Its pump chooses at random
\* between its cancelled context and the events still buffered, so it may yet
\* handle those; the cancelled context also ends the diallers.
Leaving(w, i) ==
    [w |-> w, i |-> i, gen |-> sessions[w][i].gen, at |-> sessions[w][i].at,
     inbox |-> sessions[w][i].inbox, sock |-> "closed", orphan |-> FALSE]

\* A pump with nothing left to handle has nothing left to do but return.
Returned(p) == p.at = "loop" /\ p.inbox = <<>> /\ ~p.orphan

Unfinished(pumps) == {p \in pumps : ~Returned(p)}

\* stop: out of the map and socket closed.  The caller then waits for InMap.
Stop(w, i) ==
    /\ sessions' = [sessions EXCEPT ![w][i] = NoSession]
    /\ closing' = closing \cup Unfinished({Leaving(w, j) : j \in {i} \cap Held(w)})

\* <-managed.done
PumpsDone(w, cur) ==
    \A p \in closing : p.w = w /\ ~p.orphan => <<p.i, p.gen>> \notin cur

\* start puts the new session in the map without looking at what was there: a
\* session it overwrites keeps its socket and its pump, out of anyone's reach.
Overwritten(w, i) ==
    LET s == sessions[w][i]
    IN  {[Leaving(w, j) EXCEPT
             !.orphan = TRUE,
             !.sock = IF s.sock = "closed" /\ s.dial > 0 THEN "dialing" ELSE s.sock]
            : j \in {i} \cap Held(w)}

\* start dials in a goroutine when the stored intent is active; relink adds a
\* dialler of its own.
Start(w, i, gen, diallers) ==
    /\ sessions' = [sessions EXCEPT ![w][i] =
          [NoSession EXCEPT !.gen = gen,
              !.dial = diallers + (IF connection_intent[i] = "active" THEN 1 ELSE 0)]]
    /\ closing' = closing \cup Overwritten(w, i)

\* The row is unreadable, the client cannot be built, or the context is gone.
StartFails ==
    /\ scenario.fails > 0
    /\ scenario' = [scenario EXCEPT !.fails = @ - 1]
    /\ UNCHANGED <<sessions, closing>>

\* reconnect: the row says connecting, then the socket is dialled if it is down.
Reconnect(w, i) ==
    /\ sessions[w][i].dial > 0
    /\ SetConnectionState(i, "connecting")
    /\ sessions' = [sessions EXCEPT ![w][i].dial = @ - 1,
                                    ![w][i].sock = IF @ = "closed" THEN "dialing" ELSE @]
    /\ UNCHANGED <<leaseVars, proc, closing, loop, drain, handlers, claims, stops, scenario>>

-----------------------------------------------------------------------------
(* The socket, as the client library drives it.  Its events are forwarded  *)
(* to the inbox; the two buffers of the code hold 32 and 64 events, the    *)
(* one of the model InboxSize.                                             *)

\* emit: an event that finds the buffer full is dropped.
Buffered(q, e) == IF Len(q) < InboxSize THEN Append(q, e) ELSE q

Emit(w, i, sock, e) ==
    /\ sessions' = [sessions EXCEPT ![w][i].sock = sock, ![w][i].inbox = Buffered(@, e)]
    /\ UNCHANGED <<leaseVars, rowVars, proc, closing, loop, drain, handlers, claims, stops>>

SocketUp(w, i) ==
    /\ sessions[w][i].sock = "dialing"
    /\ Emit(w, i, "open", "connected")
    /\ UNCHANGED scenario

\* A transient loss: the client redials on its own.
SocketLost(w, i) ==
    /\ sessions[w][i].sock = "open"
    /\ scenario.events > 0
    /\ Emit(w, i, "dialing", "network")
    /\ scenario' = [scenario EXCEPT !.events = @ - 1]

\* WhatsApp bans the device or refuses it for good.
SocketRefused(w, i, reason) ==
    /\ sessions[w][i].sock \in {"dialing", "open"}
    /\ scenario.events > 0
    /\ Emit(w, i, "closed", reason)
    /\ scenario' = [scenario EXCEPT !.events = @ - 1]

\* The socket of an overwritten session comes up like any other.
OverwrittenUp(p) ==
    /\ p.sock = "dialing"
    /\ closing' = (closing \ {p})
          \cup {[p EXCEPT !.sock = "open", !.inbox = Buffered(@, "connected")]}
    /\ UNCHANGED <<leaseVars, rowVars, proc, sessions, loop, drain, handlers, claims,
                   stops, scenario>>

SocketNext ==
    \/ \E w \in Workers, i \in Instances :
          \/ SocketUp(w, i) \/ SocketLost(w, i)
          \/ \E reason \in {"temporary_ban", "connect_failure"} :
                SocketRefused(w, i, reason)
    \/ \E p \in closing : OverwrittenUp(p)

-----------------------------------------------------------------------------
(* pump: one event at a time per session.  A permanent disconnection takes *)
(* four steps: the row, the map, desired_state, the lease.                 *)

\* handle and handleDisconnect: the statement on the instances row.
HandleRow(i, e) ==
    \/ e = "connected" /\ SetConnectionState(i, "connected")
    \/ e # "connected" /\ RecordDisconnect(i, StateAfter(e), e)

AfterRow(e) == IF e \in PermanentReasons THEN "stop" ELSE "loop"

\* The pump of a session that is in the map.
PumpHandle(w, i) ==
    LET s == sessions[w][i]
    IN  /\ s.at = "loop" /\ s.inbox # <<>>
        /\ HandleRow(i, Head(s.inbox))
        /\ sessions' = [sessions EXCEPT ![w][i].inbox = Tail(@),
                                        ![w][i].at = AfterRow(Head(s.inbox))]
        /\ UNCHANGED <<leaseVars, proc, closing, loop, drain, handlers, claims, stops, scenario>>

\* Faulty variant: the socket is closed and the map keeps the session.
PumpStopKeeps(w, i) ==
    /\ sessions[w][i].at = "stop"
    /\ sessions' = [sessions EXCEPT ![w][i].at = "loop"]
    /\ closing' = closing \cup {[Leaving(w, i) EXCEPT !.at = "desired"]}
    /\ UNCHANGED <<leaseVars, rowVars, proc, loop, drain, handlers, claims, stops, scenario>>

\* stopFromPump does not wait for the pump: it is the pump.
PumpStop(w, i) ==
    /\ sessions[w][i].at = "stop"
    /\ sessions' = [sessions EXCEPT ![w][i] = NoSession]
    /\ closing' = closing \cup {[Leaving(w, i) EXCEPT !.at = "desired"]}
    /\ UNCHANGED <<leaseVars, rowVars, proc, loop, drain, handlers, claims, stops, scenario>>

Advance(p, q) == closing' = (closing \ {p}) \cup Unfinished({q})

\* The pump of a session that is out of the map handles one more event...
ClosingHandle(p) ==
    /\ p.at = "loop" /\ p.inbox # <<>>
    /\ HandleRow(p.i, Head(p.inbox))
    /\ Advance(p, [p EXCEPT !.inbox = Tail(@), !.at = AfterRow(Head(p.inbox))])
    /\ UNCHANGED <<leaseVars, proc, sessions, loop, drain, handlers, claims, stops, scenario>>

\* ...or finds its context cancelled.
ClosingReturn(p) ==
    /\ p.at = "loop" /\ ~p.orphan
    /\ closing' = closing \ {p}
    /\ UNCHANGED <<leaseVars, rowVars, proc, sessions, loop, drain, handlers, claims,
                   stops, scenario>>

\* stopFromPump looks the instance up by id and stops whatever is in the map.
ClosingStop(p) ==
    /\ p.at = "stop"
    /\ sessions' = [sessions EXCEPT ![p.w][p.i] = NoSession]
    /\ closing' = (closing \ {p}) \cup {[p EXCEPT !.at = "desired"]}
                    \cup Unfinished({Leaving(p.w, j) : j \in {p.i} \cap Held(p.w)})
    /\ UNCHANGED <<leaseVars, rowVars, proc, loop, drain, handlers, claims, stops, scenario>>

ClosingDesired(p) ==
    /\ p.at = "desired"
    /\ SetDesired({p.i}, "stopped")
    /\ Advance(p, [p EXCEPT !.at = "release"])
    /\ UNCHANGED <<rowVars, proc, sessions, loop, drain, handlers, claims, stops, scenario>>

ClosingRelease(p) ==
    /\ p.at = "release"
    /\ Release(p.w, {p.i})
    /\ Advance(p, [p EXCEPT !.at = "loop"])
    /\ UNCHANGED <<rowVars, proc, sessions, loop, drain, handlers, claims, stops, scenario>>

PumpNext ==
    \/ \E w \in Workers, i \in Instances :
          Reconnect(w, i) \/ PumpHandle(w, i) \/ PumpStop(w, i)
    \/ \E p \in closing : \/ ClosingHandle(p) \/ ClosingReturn(p) \/ ClosingStop(p)
                          \/ ClosingDesired(p) \/ ClosingRelease(p)

-----------------------------------------------------------------------------
(* Runtime.  Its context ends with SIGTERM: from then on its statements    *)
(* fail and only what it already had in hand is finished.                  *)

\* With nothing left to treat and nothing in hand the loop is back at its select.
Goto(w, at, set, cur) ==
    loop' = [loop EXCEPT ![w] = IF set = {} /\ cur = {} THEN Idle
                                ELSE [at |-> at, set |-> set, cur |-> cur]]

\* heartbeatOnce: the statement, and what runs here without having been renewed.
HeartbeatOnce(w) ==
    /\ proc[w] = "up" /\ loop[w].at = "select"
    /\ Heartbeat(w)
    /\ Goto(w, "dropping", Held(w) \ Renewed(w), {})
    /\ UNCHANGED <<rowVars, proc, sessions, closing, drain, handlers, claims, stops, scenario>>

\* Drop: neither the lease nor the row is touched.
Drop(w, i) ==
    /\ loop[w].at = "dropping" /\ i \in loop[w].set
    /\ PumpsDone(w, loop[w].cur)
    /\ Stop(w, i)
    /\ Goto(w, "dropping", loop[w].set \ {i}, InMap(w, {i}))
    /\ UNCHANGED <<leaseVars, rowVars, proc, drain, handlers, claims, stops, scenario>>

\* reconcileOnce: as many candidates as there is room for.
ReconcileOnce(w) ==
    /\ proc[w] = "up" /\ loop[w].at = "select"
    /\ HasCapacity(w)
    /\ \E candidates \in SUBSET Adoptable(Parked) :
          /\ candidates # {}
          /\ Cardinality(candidates) <= MaxSessions - Cardinality(Held(w))
          /\ \/ candidates = Adoptable(Parked)
             \/ Cardinality(candidates) = MaxSessions - Cardinality(Held(w))
          /\ Goto(w, "adopting", candidates, {})
    /\ UNCHANGED <<leaseVars, rowVars, proc, sessions, closing, drain, handlers, claims,
                   stops, scenario>>

\* claim: ignored without room.
Claim(w, i) ==
    /\ proc[w] = "up" /\ loop[w].at = "select"
    /\ i \in claims[w]
    /\ claims' = [claims EXCEPT ![w] = @ \ {i}]
    /\ Goto(w, "adopting", IF HasCapacity(w) THEN {i} ELSE {}, {})
    /\ UNCHANGED <<leaseVars, rowVars, proc, sessions, closing, drain, handlers, stops, scenario>>

\* Adopt, up to the acquisition.
Adopt(w, i) ==
    /\ loop[w].at = "adopting" /\ i \in loop[w].set
    /\ proc[w] = "up" /\ HasCapacity(w) /\ i \notin Held(w)
    /\ Acquire(w, i)
    /\ Goto(w, "starting", loop[w].set \ {i}, {<<i, generation[i] + 1>>})
    /\ UNCHANGED <<rowVars, proc, sessions, closing, drain, handlers, claims, stops, scenario>>

\* No room, already running here, lost to another worker, or context gone.
AdoptNothing(w, i) ==
    /\ loop[w].at = "adopting" /\ i \in loop[w].set
    /\ \/ proc[w] # "up" \/ ~HasCapacity(w) \/ i \in Held(w)
       \/ NotAcquired(i) \/ generation[i] = MaxGeneration
    /\ Goto(w, "adopting", IF HasCapacity(w) THEN loop[w].set \ {i} ELSE {}, {})
    /\ UNCHANGED <<leaseVars, rowVars, proc, sessions, closing, drain, handlers, claims,
                   stops, scenario>>

\* start, whose row may have been read before SIGTERM.
AdoptStart(w) ==
    /\ loop[w].at = "starting"
    /\ \E c \in loop[w].cur :
          \/ /\ Start(w, c[1], c[2], 0)
             /\ Goto(w, "adopting", loop[w].set, {})
             /\ UNCHANGED scenario
          \/ /\ StartFails
             /\ Goto(w, "giveback", loop[w].set, loop[w].cur)
    /\ UNCHANGED <<leaseVars, rowVars, proc, drain, handlers, claims, stops>>

\* Faulty variant: the lease of a session that failed to start is kept.
GiveBackNothing(w) ==
    /\ loop[w].at = "giveback"
    /\ Goto(w, "adopting", loop[w].set, {})
    /\ UNCHANGED <<leaseVars, rowVars, proc, sessions, closing, drain, handlers, claims, stops,
                   scenario>>

\* Adopt hands back the lease of a session it failed to start.
GiveBack(w) ==
    /\ loop[w].at = "giveback"
    /\ Release(w, IF proc[w] = "up" THEN {c[1] : c \in loop[w].cur} ELSE {})
    /\ Goto(w, "adopting", loop[w].set, {})
    /\ UNCHANGED <<rowVars, proc, sessions, closing, drain, handlers, claims, stops, scenario>>

\* stop and the first half of StopOnRequest: socket down, reason recorded.
StopRequest(w, i) ==
    /\ proc[w] = "up" /\ loop[w].at = "select"
    /\ i \in stops[w]
    /\ stops' = [stops EXCEPT ![w] = @ \ {i}]
    /\ \/ /\ i \notin Held(w)
          /\ UNCHANGED <<rowVars, sessions, loop>>
       \/ /\ i \in Held(w)
          /\ sessions' = [sessions EXCEPT ![w][i].sock = "closed"]
          /\ RecordDisconnect(i, "disconnected", "tenant_suspended")
          /\ Goto(w, "stopping", {i}, {})
    /\ UNCHANGED <<leaseVars, proc, closing, drain, handlers, claims, scenario>>

StopTeardown(w) ==
    /\ loop[w].at = "stopping"
    /\ \E i \in loop[w].set : /\ Stop(w, i)
                              /\ Goto(w, "stopped", {i}, InMap(w, {i}))
    /\ UNCHANGED <<leaseVars, rowVars, proc, drain, handlers, claims, stops, scenario>>

StopRelease(w) ==
    /\ loop[w].at = "stopped"
    /\ PumpsDone(w, loop[w].cur)
    /\ Release(w, IF proc[w] = "up" THEN loop[w].set ELSE {})
    /\ Goto(w, "select", {}, {})
    /\ UNCHANGED <<rowVars, proc, sessions, closing, drain, handlers, claims, stops, scenario>>

\* The last session dropped has ended.
DropsDone(w) ==
    /\ loop[w].at = "dropping" /\ loop[w].set = {}
    /\ PumpsDone(w, loop[w].cur)
    /\ Goto(w, "select", {}, {})
    /\ UNCHANGED <<leaseVars, rowVars, proc, sessions, closing, drain, handlers, claims,
                   stops, scenario>>

\* The steps the runtime goroutine takes without waiting for its select.
RuntimeStep(w) ==
    \/ \E i \in Instances : Drop(w, i) \/ Adopt(w, i) \/ AdoptNothing(w, i)
    \/ AdoptStart(w) \/ GiveBack(w) \/ StopTeardown(w) \/ StopRelease(w) \/ DropsDone(w)

RuntimeNext ==
    \E w \in Workers :
        \/ HeartbeatOnce(w) \/ ReconcileOnce(w) \/ RuntimeStep(w)
        \/ \E i \in Instances : Claim(w, i) \/ StopRequest(w, i)

-----------------------------------------------------------------------------
(* gRPC server: a command c that passed the fence is a handler.            *)

Handler(c, op, w, i) ==
    [c |-> c, op |-> op, w |-> w, i |-> i, at |-> "body", gen |-> 0, cur |-> {}]

Step(h, g) == handlers' = (handlers \ {h}) \cup {g}

Finish(h) == handlers' = handlers \ {h}

\* Every command starts by looking the session up: Connect and ApplySettings
\* then answer UNKNOWN_INSTANCE, Disconnect that there is nothing to do.
NotHere(h) ==
    /\ h.at = "body" /\ h.i \notin Held(h.w)
    /\ Finish(h)
    /\ UNCHANGED <<leaseVars, rowVars, proc, sessions, closing, loop, drain, claims, stops,
                   scenario>>

ConnectBody(h) ==
    /\ h.op = "connect" /\ h.at = "body" /\ h.i \in Held(h.w)
    /\ sessions' = [sessions EXCEPT ![h.w][h.i].sock = IF @ = "closed" THEN "dialing" ELSE @]
    /\ Finish(h)
    /\ UNCHANGED <<leaseVars, rowVars, proc, closing, loop, drain, claims, stops, scenario>>

DisconnectBody(h) ==
    /\ h.op = "disconnect" /\ h.at = "body" /\ h.i \in Held(h.w)
    /\ sessions' = [sessions EXCEPT ![h.w][h.i].sock = "closed"]
    /\ RecordDisconnect(h.i, "disconnected", "user_requested")
    /\ Step(h, [h EXCEPT !.at = "stop"])
    /\ UNCHANGED <<leaseVars, proc, closing, loop, drain, claims, stops, scenario>>

\* ApplySettings after a proxy change: relink
SettingsBody(h) ==
    /\ h.op = "settings" /\ h.at = "body" /\ h.i \in Held(h.w)
    /\ RecordDisconnect(h.i, "connecting", "proxy_updated")
    /\ Step(h, [h EXCEPT !.at = "stop", !.gen = sessions[h.w][h.i].gen])
    /\ UNCHANGED <<leaseVars, proc, sessions, closing, loop, drain, claims, stops, scenario>>

\* Faulty variant: the lease goes before the session does.
HandlerStopReleased(h) ==
    /\ h.at = "stop"
    /\ Stop(h.w, h.i)
    /\ Release(h.w, {h.i})
    /\ Step(h, [h EXCEPT !.at = "wait", !.cur = InMap(h.w, {h.i})])
    /\ UNCHANGED <<rowVars, proc, loop, drain, claims, stops, scenario>>

HandlerStop(h) ==
    /\ h.at = "stop"
    /\ Stop(h.w, h.i)
    /\ Step(h, [h EXCEPT !.at = "wait", !.cur = InMap(h.w, {h.i})])
    /\ UNCHANGED <<leaseVars, rowVars, proc, loop, drain, claims, stops, scenario>>

DisconnectRelease(h) ==
    /\ h.op = "disconnect" /\ h.at = "wait" /\ PumpsDone(h.w, h.cur)
    /\ Release(h.w, {h.i})
    /\ Finish(h)
    /\ UNCHANGED <<rowVars, proc, sessions, closing, loop, drain, claims, stops, scenario>>

\* relink starts again under the generation it read before stopping.
RelinkStart(h) ==
    /\ h.op = "settings" /\ h.at = "wait" /\ PumpsDone(h.w, h.cur)
    /\ \/ /\ Start(h.w, h.i, h.gen, 1)
          /\ scenario' = [scenario EXCEPT !.relinks = @ + 1]
       \/ StartFails
    /\ Finish(h)
    /\ UNCHANGED <<leaseVars, rowVars, proc, loop, drain, claims, stops>>

HandlerStep(h) ==
    \/ NotHere(h) \/ ConnectBody(h) \/ DisconnectBody(h) \/ SettingsBody(h)
    \/ HandlerStop(h) \/ DisconnectRelease(h) \/ RelinkStart(h)

-----------------------------------------------------------------------------
(* The process: SIGTERM, GracefulStop, Shutdown, exit; or a crash.         *)

Sigterm(w) ==
    /\ proc[w] = "up"
    /\ scenario.drains > 0
    /\ scenario' = [scenario EXCEPT !.drains = @ - 1]
    /\ proc' = [proc EXCEPT ![w] = "sigterm"]
    /\ UNCHANGED <<leaseVars, rowVars, sessions, closing, loop, drain, handlers, claims, stops>>

\* GracefulStop has waited for the handlers; Shutdown lists what to stop...
ShutdownBegin(w) ==
    /\ proc[w] = "sigterm"
    /\ \A h \in handlers : h.w # w
    /\ proc' = [proc EXCEPT ![w] = "draining"]
    /\ drain' = [drain EXCEPT ![w].set = Held(w)]
    /\ UNCHANGED <<leaseVars, rowVars, sessions, closing, loop, handlers, claims, stops, scenario>>

\* ...stops one after the other...
ShutdownStop(w, i) ==
    /\ proc[w] = "draining" /\ i \in drain[w].set
    /\ PumpsDone(w, drain[w].cur)
    /\ Stop(w, i)
    /\ drain' = [drain EXCEPT ![w].set = @ \ {i}, ![w].cur = InMap(w, {i})]
    /\ UNCHANGED <<leaseVars, rowVars, proc, loop, handlers, claims, stops, scenario>>

\* Faulty variant: only the leases of the sessions still in the map.
ShutdownReleaseHeld(w) ==
    /\ proc[w] = "draining" /\ drain[w].set = {}
    /\ PumpsDone(w, drain[w].cur)
    /\ Release(w, Held(w))
    /\ proc' = [proc EXCEPT ![w] = "drained"]
    /\ UNCHANGED <<rowVars, sessions, closing, loop, drain, handlers, claims, stops, scenario>>

\* ...and hands back every lease.
ShutdownRelease(w) ==
    /\ proc[w] = "draining" /\ drain[w].set = {}
    /\ PumpsDone(w, drain[w].cur)
    /\ Release(w, Instances)
    /\ proc' = [proc EXCEPT ![w] = "drained"]
    /\ UNCHANGED <<rowVars, sessions, closing, loop, drain, handlers, claims, stops, scenario>>

\* The process is gone, with its memory and its sockets.
Gone(w, how) ==
    /\ proc' = [proc EXCEPT ![w] = how]
    /\ sessions' = [sessions EXCEPT ![w] = [i \in Instances |-> NoSession]]
    /\ closing' = {p \in closing : p.w # w}
    /\ loop' = [loop EXCEPT ![w] = Idle]
    /\ drain' = [drain EXCEPT ![w] = Idle]
    /\ handlers' = {h \in handlers : h.w # w}
    /\ claims' = [claims EXCEPT ![w] = {}]
    /\ stops' = [stops EXCEPT ![w] = {}]
    /\ UNCHANGED <<leaseVars, rowVars>>

Exit(w) == proc[w] = "drained" /\ Gone(w, "exited") /\ UNCHANGED scenario

Crash(w) ==
    /\ Alive(w)
    /\ scenario.crashes > 0
    /\ Gone(w, "crashed")
    /\ scenario' = [scenario EXCEPT !.crashes = @ - 1]

\* A worker with a live session, or one on the way, that it holds the row for.
Busy(w, i) ==
    /\ Alive(w)
    /\ \/ desired_state[i] = "running" /\ proc[w] = "up"
       \/ i \in Held(w)
       \/ \E p \in closing : p.w = w /\ p.i = i
       \/ \E h \in handlers : h.w = w /\ h.i = i /\ h.at # "body"
       \/ \E c \in loop[w].cur : c[1] = i
       \/ loop[w].at \in {"stopping", "stopped"} /\ i \in loop[w].set

\* LeaseExpiry is at least three heartbeat intervals.  At a timely pace what
\* a worker does about a lease it holds is over before the lease can expire.
Clock ==
    /\ scenario.pace = "timely" => \A i \in Instances, w \in Workers :
                    worker_id[i] = w /\ Busy(w, i) => heartbeat_age[i] < Expiry
    /\ \E i \in Instances : Live(i)
    /\ Tick
    /\ UNCHANGED <<rowVars, workerVars>>

ShutdownNext(w) ==
    \/ ShutdownBegin(w) \/ ShutdownRelease(w) \/ Exit(w)
    \/ \E i \in Instances : ShutdownStop(w, i)

ProcessNext == \E w \in Workers : Sigterm(w) \/ Crash(w) \/ ShutdownNext(w)

WorkerNext ==
    \/ RuntimeNext \/ PumpNext \/ SocketNext \/ ProcessNext \/ Clock
    \/ \E h \in handlers : HandlerStep(h)
=============================================================================

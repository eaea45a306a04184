------------------------------- MODULE Routing -------------------------------
(***************************************************************************)
(* How a command of the API reaches the worker that owns a session, and    *)
(* what becomes of passive mode on the way: the owner cache and the single *)
(* retry of sessionclient/client.go, the fence and the error codes of      *)
(* worker/grpcserver.go, SetPassiveMode of services/connection.go, and     *)
(* ApplySettings and reapplyPassiveMode of the worker.                     *)
(*                                                                         *)
(* One instance, whose lease is the row of LeaseTable.  A worker is        *)
(* reached at an address of its own.  A call that sets nothing stands for  *)
(* every other command: what such a command does to the session is in      *)
(* Worker and Pairing, how often it is carried out is counted here.        *)
(***************************************************************************)
EXTENDS LeaseTable

CONSTANTS
    inst,
    Nobody,         \* no owner: an empty cache, or no lease holder known
    Setters,        \* calls that set passive mode
    Askers,         \* calls of the other commands
    Budgets         \* bounds to explore: how many terms of the lease, requests that
                    \* set and that ask, connections, and failures (crashes, lost
                    \* answers, dropped events, errors)

ASSUME RoutingAssumption ==
    /\ Instances = {inst} /\ Setters \cap Askers = {}
    /\ Nobody \notin [worker : Workers \cup {NoWorker}, gen : Nat]
    /\ Budgets \subseteq [terms : Nat, set : Nat, ask : Nat, links : Nat, failures : Nat]

VARIABLES
    cache,    \* the key wa:lease:<id> of Redis
    stored,   \* instances.passive_mode
    proc,     \* worker -> "up", "stopping", "drained" or "down"
    session,  \* worker -> its managedSession
    pump,     \* worker -> its Connected events, and the step of their handler
    calls,    \* call -> its step, attempt, target and answer
    left      \* what is left of the budget

routeVars == <<cache, stored, proc, session, pump, calls, left>>
vars == <<leaseVars, routeVars>>

Calls == Setters \cup Askers
Owner == [worker |-> worker_id[inst], gen |-> generation[inst]]

\* link: "opening" is a socket the library has not yet set to active mode;
\* late: the last push of the mode failed, was lost with its event, or was of a
\* mode that another request had replaced
NoSession == [at |-> "none", gen |-> 0, link |-> "down", passive |-> FALSE, late |-> FALSE]
NoEvents == [inbox |-> 0, at |-> "idle"]

\* from: the lease when the call came in; mode and gen: what ApplySettings read;
\* ran: how often a worker carried the command out; failed: an attempt broke off
Idle == [at |-> "idle", attempt |-> 0, owner |-> Nobody, from |-> Nobody, mode |-> FALSE, gen |-> 0,
         ran |-> 0, failed |-> FALSE, code |-> "none", answer |-> "none"]

Init ==
    /\ desired_state = [i \in Instances |-> "running"]
    /\ worker_id = [i \in Instances |-> NoWorker]
    /\ generation = [i \in Instances |-> 0]
    /\ heartbeat_age = [i \in Instances |-> 0]
    /\ cache = Nobody /\ stored = FALSE
    /\ proc = [w \in Workers |-> "up"]
    /\ session = [w \in Workers |-> NoSession]
    /\ pump = [w \in Workers |-> NoEvents]
    /\ calls = [c \in Calls |-> Idle]
    /\ left \in Budgets

-----------------------------------------------------------------------------
(* The API and its client.                                                 *)

At(c, at) == calls[c].at = at
Goto(c, call) == calls' = [calls EXCEPT ![c] = call]
Spend(what) == left[what] > 0 /\ left' = [left EXCEPT ![what] = @ - 1]
Begin(c) ==
    /\ calls[c].at \in {"idle", "answered"}
    /\ Goto(c, [Idle EXCEPT !.at = "resolve", !.attempt = 1, !.from = Owner])

\* SetPassiveMode: the choice is stored, then its owner told.
SetPassiveMode(c, enabled) ==
    /\ c \in Setters /\ Spend("set")
    /\ stored' = enabled
    /\ Begin(c)
    /\ UNCHANGED <<leaseVars, cache, proc, session, pump>>

\* Any other command
Command(c) ==
    /\ c \in Askers /\ Spend("ask")
    /\ Begin(c)
    /\ UNCHANGED <<leaseVars, cache, stored, proc, session, pump>>

\* translateSessionError: what the API makes of an error of the worker
TranslateSessionError(code) ==
    CASE code = "OK" -> "ok"
      [] code = "UPSTREAM_FAILURE" -> "whatsapp_unavailable"
      [] code = "UNKNOWN_INSTANCE" -> "session_not_running"
      [] code = "REFUSED" -> "refused"
      [] OTHER -> "session_unavailable"

\* applySettings: a setting that could not be applied is no error, it waits.
ApplySettingsResult(code) == IF code = "OK" THEN "applied" ELSE "waiting"

\* call returns.
Answer(c, call, code) ==
    Goto(c, [Idle EXCEPT
        !.at = "answered", !.code = code,
        !.from = IF code = "WRONG_GENERATION" THEN call.from ELSE Nobody,
        !.answer = IF c \in Setters THEN ApplySettingsResult(code) ELSE TranslateSessionError(code)])

\* Faulty variant: the second attempt believes the cache as the first did.
CachedAlways(c) == cache # Nobody

\* useCache: only the first attempt looks there.
Cached(c) == calls[c].attempt = 1 /\ cache # Nobody

ResolveCached(c) ==
    /\ At(c, "resolve") /\ Cached(c)
    /\ Goto(c, [calls[c] EXCEPT !.at = "send", !.owner = cache])
    /\ UNCHANGED <<leaseVars, cache, stored, proc, session, pump, left>>

\* resolve past the cache: Owner reads the lease ...
ResolveLease(c) ==
    /\ At(c, "resolve") /\ ~Cached(c)
    /\ IF Live(inst) THEN Goto(c, [calls[c] EXCEPT !.at = "fill", !.owner = Owner])
                     ELSE Answer(c, calls[c], "NO_OWNER")
    /\ UNCHANGED <<leaseVars, cache, stored, proc, session, pump, left>>

\* ... and what it read goes into the cache, whatever is there by then.
FillCache(c) ==
    /\ At(c, "fill")
    /\ cache' = calls[c].owner
    /\ Goto(c, [calls[c] EXCEPT !.at = "send"])
    /\ UNCHANGED <<leaseVars, stored, proc, session, pump, left>>

\* leaseCacheTTL runs out.
CacheExpires ==
    /\ cache # Nobody
    /\ cache' = Nobody
    /\ UNCHANGED <<leaseVars, stored, proc, session, pump, calls, left>>

\* Faulty variant: every failed precondition is taken for a wrong owner.
ShouldRetryAnyRefusal(code) == code \in {"UNAVAILABLE", "UPSTREAM_FAILURE", "WRONG_GENERATION", "REFUSED"}

\* shouldRetry: Unavailable, which translate also gives an upstream failure, or
\* the fence
ShouldRetry(code) == code \in {"UNAVAILABLE", "UPSTREAM_FAILURE", "WRONG_GENERATION"}

\* call: one attempt has failed or succeeded.
Attempted(c, call, code) ==
    IF call.attempt = 1 /\ ShouldRetry(code)
    THEN Goto(c, [call EXCEPT !.at = "invalidate", !.owner = Nobody, !.code = "none", !.mode = FALSE, !.gen = 0])
    ELSE Answer(c, call, code)

\* call, continued: the cached owner goes, and the second round begins.
Invalidate(c) ==
    /\ At(c, "invalidate")
    /\ cache' = Nobody
    /\ Goto(c, [calls[c] EXCEPT !.at = "resolve", !.attempt = 2])
    /\ UNCHANGED <<leaseVars, stored, proc, session, pump, left>>

-----------------------------------------------------------------------------
(* The worker's side of a call.                                            *)

Target(c) == calls[c].owner.worker
Serving(c) == calls[c].at \in {"run", "settings", "apply", "reply"}

\* fence.  A worker that shuts down refuses calls (GracefulStop) before it sets
\* the draining flag fence also asks for; to the client the two are the same.
Fence(c) ==
    /\ At(c, "send")
    /\ \/ /\ proc[Target(c)] # "up"
          /\ Attempted(c, calls[c], "UNAVAILABLE")
       \/ /\ proc[Target(c)] = "up"
          /\ ~CheckGeneration(Target(c), inst, calls[c].owner.gen)
          /\ Attempted(c, calls[c], "WRONG_GENERATION")
       \/ /\ proc[Target(c)] = "up"
          /\ CheckGeneration(Target(c), inst, calls[c].owner.gen)
          /\ Goto(c, [calls[c] EXCEPT !.at = IF c \in Setters THEN "settings" ELSE "run"])
    /\ UNCHANGED <<leaseVars, cache, stored, proc, session, pump, left>>

\* lookup found no session: ErrUnknownInstance
Unknown(c) ==
    /\ calls[c].at \in {"run", "settings"} /\ session[Target(c)].at # "held"
    /\ Goto(c, [calls[c] EXCEPT !.at = "reply", !.code = "UNKNOWN_INSTANCE"])
    /\ UNCHANGED <<leaseVars, cache, stored, proc, session, pump, left>>

\* Any other command, carried out or refused for a reason of its own
Run(c) ==
    /\ At(c, "run") /\ session[Target(c)].at = "held"
    /\ \E code \in {"OK", "REFUSED"} :
            Goto(c, [calls[c] EXCEPT !.at = "reply", !.code = code, !.ran = @ + 1])
    /\ UNCHANGED <<leaseVars, cache, stored, proc, session, pump, left>>

\* The default of translate: WhatsApp or the storage failed, part of the way in.
RunFails(c) ==
    /\ At(c, "run") /\ session[Target(c)].at = "held"
    /\ Spend("failures")
    /\ Goto(c, [calls[c] EXCEPT !.at = "reply", !.code = "UPSTREAM_FAILURE", !.ran = @ + 1, !.failed = TRUE])
    /\ UNCHANGED <<leaseVars, cache, stored, proc, session, pump>>

\* ApplySettings finds the session and reads what is stored.
ApplySettings(c) ==
    /\ At(c, "settings") /\ session[Target(c)].at = "held"
    /\ Goto(c, [calls[c] EXCEPT !.at = "apply", !.mode = stored, !.gen = session[Target(c)].gen])
    /\ UNCHANGED <<leaseVars, cache, stored, proc, session, pump, left>>

\* The managedSession a handler holds may have been closed and replaced since.
Connected(c) == session[Target(c)].gen = calls[c].gen /\ session[Target(c)].link # "down"

\* applyPassiveMode pushes the mode, if there is a connection to push it onto.
Push(w, mode) == session' = [session EXCEPT ![w].passive = mode, ![w].late = mode # stored]

ApplyPassiveMode(c) ==
    /\ At(c, "apply")
    /\ IF Connected(c) THEN Push(Target(c), calls[c].mode) ELSE UNCHANGED session
    /\ Goto(c, [calls[c] EXCEPT !.at = "reply", !.code = IF Connected(c) THEN "OK" ELSE "NOT_APPLIED"])
    /\ UNCHANGED <<leaseVars, cache, stored, proc, pump, left>>

ApplyPassiveModeFails(c) ==
    /\ At(c, "apply") /\ Connected(c)
    /\ Spend("failures")
    /\ Goto(c, [calls[c] EXCEPT !.at = "reply", !.code = "UPSTREAM_FAILURE", !.failed = TRUE])
    /\ UNCHANGED <<leaseVars, cache, stored, proc, session, pump>>

Reply(c) ==
    /\ At(c, "reply")
    /\ Attempted(c, calls[c], calls[c].code)
    /\ UNCHANGED <<leaseVars, cache, stored, proc, session, pump, left>>

\* The connection to the worker breaks with the handler done.
ReplyLost(c) ==
    /\ At(c, "reply")
    /\ Spend("failures")
    /\ Attempted(c, [calls[c] EXCEPT !.failed = TRUE], "UNAVAILABLE")
    /\ UNCHANGED <<leaseVars, cache, stored, proc, session, pump>>

-----------------------------------------------------------------------------
(* The worker and its session.                                             *)

\* Adopt acquires the lease ...
AdoptAcquire(w) ==
    /\ proc[w] = "up" /\ session[w].at = "none"
    /\ Acquire(w, inst) /\ Spend("terms")
    /\ session' = [session EXCEPT ![w].at = "starting", ![w].gen = generation'[inst]]
    /\ UNCHANGED <<cache, stored, proc, pump, calls>>

\* ... then start puts the session into the map.
AdoptStart(w) ==
    /\ session[w].at = "starting"
    /\ session' = [session EXCEPT ![w].at = "held"]
    /\ UNCHANGED <<leaseVars, cache, stored, proc, pump, calls, left>>

\* stop waits for the pump.
Stop(w) ==
    /\ session' = [session EXCEPT ![w] = NoSession]
    /\ pump' = [pump EXCEPT ![w] = NoEvents]

\* heartbeatOnce drops what was not renewed.
HeartbeatOnce(w) ==
    /\ proc[w] = "up" /\ session[w].at # "starting"
    /\ Heartbeat(w)
    /\ IF session[w].at = "held" /\ inst \notin Renewed(w) THEN Stop(w) ELSE UNCHANGED <<session, pump>>
    /\ UNCHANGED <<cache, stored, proc, calls, left>>

\* SIGTERM: GracefulStop refuses new calls and waits for those being served.
GracefulStop(w) ==
    /\ proc[w] = "up" /\ session[w].at # "starting"
    /\ proc' = [proc EXCEPT ![w] = "stopping"]
    /\ UNCHANGED <<leaseVars, cache, stored, session, pump, calls, left>>

\* Shutdown: every session is stopped ...
Shutdown(w) ==
    /\ proc[w] = "stopping" /\ \A c \in Calls : Serving(c) => Target(c) # w
    /\ proc' = [proc EXCEPT ![w] = "drained"]
    /\ Stop(w)
    /\ UNCHANGED <<leaseVars, cache, stored, calls, left>>

\* ... and every lease handed back.
ReleaseAll(w) ==
    /\ proc[w] = "drained"
    /\ proc' = [proc EXCEPT ![w] = "down"]
    /\ Release(w, Instances)
    /\ UNCHANGED <<cache, stored, session, pump, calls, left>>

\* The process dies with its lease and what it was serving.
Crash(w) ==
    /\ proc[w] = "up"
    /\ Spend("failures")
    /\ proc' = [proc EXCEPT ![w] = "down"]
    /\ Stop(w)
    /\ calls' = [c \in Calls |-> IF Serving(c) /\ Target(c) = w
                    THEN [calls[c] EXCEPT !.at = "reply", !.code = "UNAVAILABLE", !.failed = TRUE]
                    ELSE calls[c]]
    /\ UNCHANGED <<leaseVars, cache, stored>>

\* A socket to WhatsApp comes up.
LinkOpen(w) ==
    /\ session[w].at = "held" /\ session[w].link = "down" /\ Spend("links")
    /\ session' = [session EXCEPT ![w].link = "opening", ![w].passive = FALSE]
    /\ UNCHANGED <<leaseVars, cache, stored, proc, pump, calls>>

\* The library restores active mode, then tells with Connected.
LinkReady(w) ==
    /\ session[w].link = "opening"
    /\ session' = [session EXCEPT ![w].link = "on", ![w].passive = FALSE, ![w].late = FALSE]
    /\ pump' = [pump EXCEPT ![w].inbox = @ + 1]
    /\ UNCHANGED <<leaseVars, cache, stored, proc, calls, left>>

\* emit finds the buffer full of other events, and drops Connected.
ConnectedDropped(w) ==
    /\ session[w].link = "opening"
    /\ Spend("failures")
    /\ session' = [session EXCEPT ![w].link = "on", ![w].passive = FALSE, ![w].late = TRUE]
    /\ UNCHANGED <<leaseVars, cache, stored, proc, pump, calls>>

LinkDown(w) ==
    /\ session[w].link # "down"
    /\ session' = [session EXCEPT ![w].link = "down", ![w].passive = FALSE, ![w].late = FALSE]
    /\ UNCHANGED <<leaseVars, cache, stored, proc, pump, calls, left>>

\* Faulty variant: what was pushed once is taken to outlive the connection.
ReapplyNever(w) ==
    /\ pump[w].inbox > 0 /\ pump[w].at = "idle"
    /\ pump' = [pump EXCEPT ![w].inbox = @ - 1]
    /\ UNCHANGED <<leaseVars, cache, stored, proc, session, calls, left>>

\* handle(Connected) ends in reapplyPassiveMode: the stored mode is read; only
\* passive needs a push.
ReapplyPassiveMode(w) ==
    /\ pump[w].inbox > 0 /\ pump[w].at = "idle"
    /\ pump' = [pump EXCEPT ![w].inbox = @ - 1, ![w].at = IF stored THEN "push" ELSE "idle"]
    /\ UNCHANGED <<leaseVars, cache, stored, proc, session, calls, left>>

ReapplyPush(w) ==
    /\ pump[w].at = "push"
    /\ pump' = [pump EXCEPT ![w].at = "idle"]
    /\ IF session[w].link = "down" THEN UNCHANGED session ELSE Push(w, TRUE)
    /\ UNCHANGED <<leaseVars, cache, stored, proc, calls, left>>

\* The push fails: logged, and left to the next connection.
ReapplyFails(w) ==
    /\ pump[w].at = "push" /\ session[w].link # "down"
    /\ Spend("failures")
    /\ pump' = [pump EXCEPT ![w].at = "idle"]
    /\ session' = [session EXCEPT ![w].late = TRUE]
    /\ UNCHANGED <<leaseVars, cache, stored, proc, calls>>

Time == heartbeat_age[inst] <= Expiry /\ worker_id[inst] # NoWorker /\ Tick /\ UNCHANGED routeVars

CallStep(c) ==
    \/ \E enabled \in BOOLEAN : SetPassiveMode(c, enabled)
    \/ Command(c)
    \/ ResolveCached(c) \/ ResolveLease(c) \/ FillCache(c) \/ Invalidate(c)
    \/ Fence(c) \/ Unknown(c) \/ Run(c) \/ RunFails(c)
    \/ ApplySettings(c) \/ ApplyPassiveMode(c) \/ ApplyPassiveModeFails(c)
    \/ Reply(c) \/ ReplyLost(c)

WorkerStep(w) ==
    \/ AdoptAcquire(w) \/ AdoptStart(w) \/ HeartbeatOnce(w)
    \/ GracefulStop(w) \/ Shutdown(w) \/ ReleaseAll(w) \/ Crash(w)
    \/ LinkOpen(w) \/ LinkReady(w) \/ ConnectedDropped(w) \/ LinkDown(w)
    \/ ReapplyPassiveMode(w) \/ ReapplyPush(w) \/ ReapplyFails(w)

Next ==
    \/ \E c \in Calls : CallStep(c)
    \/ \E w \in Workers : WorkerStep(w)
    \/ CacheExpires \/ Time

Spec == Init /\ [][Next]_vars

-----------------------------------------------------------------------------
(* Properties.                                                             *)

Owners == [worker : Workers \cup {NoWorker}, gen : 0..MaxGeneration] \cup {Nobody}

\* Every call, session and cached owner is of its type, a call is carried out
\* at most once per attempt, and only a live attempt has an owner: the two
\* rounds of sessionclient.call are the only ones.
TypeOK ==
    /\ LeaseTypeOK /\ cache \in Owners /\ stored \in BOOLEAN
    /\ proc \in [Workers -> {"up", "stopping", "drained", "down"}]
    /\ session \in [Workers -> [at : {"none", "starting", "held"}, gen : 0..MaxGeneration,
                                link : {"down", "opening", "on"}, passive : BOOLEAN, late : BOOLEAN]]
    /\ pump \in [Workers -> [inbox : Nat, at : {"idle", "push"}]]
    /\ \A c \in Calls :
        /\ calls[c].owner \in Owners /\ calls[c].ran <= calls[c].attempt /\ calls[c].attempt <= 2
        /\ calls[c].owner # Nobody <=> calls[c].at = "fill" \/ calls[c].at = "send" \/ Serving(c)

\* A call that ends with the fence refusing it saw the lease change hands while
\* it ran: a stale cache entry alone, whoever wrote it and whenever, costs one
\* retry and never the command (client.go call, "retrying once against a freshly
\* read lease when the first attempt reveals a stale owner").
RefusedOnlyIfMoved ==
    \A c \in Calls : calls[c].at = "answered" /\ calls[c].code = "WRONG_GENERATION" => calls[c].from # Owner

\* A command is carried out a second time only if its first round broke off: an
\* answer, a refusal or a fence never makes the API repeat one (client.go
\* shouldRetry).
RepeatedOnlyAfterFailure ==
    \A c \in Calls : calls[c].ran > 1 => calls[c].failed

\* The owner's connection is up, its events are handled and every request so far was
\* answered "applied"; and, for Quiet, its last push is not late.
Rested(w) ==
    /\ worker_id[inst] = w /\ session[w].link = "on"
    /\ pump[w] = NoEvents
    /\ \A c \in Setters : calls[c].at = "idle" \/ (calls[c].at = "answered" /\ calls[c].answer = "applied")

Quiet(w) == Rested(w) /\ ~session[w].late

\* Passive mode that is stored is in force on the owner's connection once nothing
\* is under way: whatever order the pushes of the requests, the library's return to
\* active mode, the Connected event and a failover came in, no session is left
\* active in secret.  It waits for the next connection only where the last push
\* failed, its event was dropped, or it was of a mode read before another request
\* stored this one (session.go reapplyPassiveMode, supervisor.go ApplySettings).
PassiveInForce ==
    \A w \in Workers : stored /\ Quiet(w) => session[w].passive

\* The mode of a connection at rest is the stored one, in both directions
\* (store/connection.sql.go GetInstanceSettings: rereading the value "removes the
\* window where the command and the database could disagree").
ModeSettles ==
    \A w \in Workers : Rested(w) => session[w].passive = stored

\* The API repeats a command only where it had the wrong owner (client.go
\* shouldRetry: "reports whether the failure looks like "you talked to the wrong
\* owner" rather than "the command itself is invalid"").
RetriedOnlyForOwner ==
    \A c \in Calls : calls[c].ran > 1 => calls[c].from # Owner

\* A handler touches the session only while its worker holds the lease it was
\* fenced with (grpcserver.go fence: a worker that lost its lease "must not touch
\* the session, even if it still believes it owns it").
FencedAtRun ==
    \A c \in Calls : calls[c].at = "apply" => CheckGeneration(Target(c), inst, calls[c].owner.gen)
=============================================================================

---------------------------- MODULE RoutingProofs ----------------------------
(***************************************************************************)
(* Proofs about Routing, for any workers, any calls in flight at a time,   *)
(* any number of requests, failures, connections and acquisitions.         *)
(***************************************************************************)
EXTENDS Routing, TLAPS

-----------------------------------------------------------------------------
(* The inductive invariant.                                                *)

Gens == 0..MaxGeneration
Holders == Workers \cup {NoWorker}
Lessees == [worker : Workers, gen : Gens]           \* what Owner finds
Origins == [worker : Holders, gen : Gens]

Codes == {"none", "OK", "REFUSED", "UNKNOWN_INSTANCE", "NOT_APPLIED", "UPSTREAM_FAILURE", "UNAVAILABLE"}

Steps == {"idle", "resolve", "fill", "send", "run", "settings", "apply", "reply", "invalidate", "answered"}
Answers == {"none", "ok", "whatsapp_unavailable", "session_not_running", "refused",
            "session_unavailable", "applied", "waiting"}
CallRecords ==
    [at : Steps,
     attempt : 0..2, owner : Lessees \cup {Nobody}, from : Origins \cup {Nobody}, mode : BOOLEAN,
     gen : Gens, ran : 0..2, failed : BOOLEAN, code : Codes \cup {"WRONG_GENERATION", "NO_OWNER"},
     answer : Answers]
SessionRecords ==
    [at : {"none", "starting", "held"}, gen : Gens, link : {"down", "opening", "on"},
     passive : BOOLEAN, late : BOOLEAN]
PumpRecords == [inbox : Nat, at : {"idle", "push"}]

LeaseTypes ==
    /\ desired_state = [i \in Instances |-> "running"]
    /\ worker_id \in [Instances -> Holders] /\ generation \in [Instances -> Gens]
    /\ heartbeat_age \in [Instances -> 0..(Expiry + 1)]
WorkerTypes ==
    /\ proc \in [Workers -> {"up", "stopping", "drained", "down"}]
    /\ session \in [Workers -> SessionRecords]
    /\ pump \in [Workers -> PumpRecords]

\* The lease was handed on, or handed back, since it was "from".
Moved(from, worker, gen) ==
    from.gen < gen \/ (from.gen = gen /\ from.worker # NoWorker /\ worker = NoWorker)

\* The lease was "from" before it was what it is: a generation has one holder.
Follows(from, worker, gen) ==
    from.gen < gen \/ (from.gen = gen /\ worker \in {from.worker, NoWorker})

Routed == {"fill", "send", "run", "settings", "apply", "reply"}

\* Where a call stands while the lease is held by "worker" under "gen".
CallOK(r, worker, gen) ==
    /\ r.at \notin {"idle", "answered"} =>
          r.attempt > 0 /\ r.from # Nobody /\ Follows(r.from, worker, gen)
    /\ r.owner # Nobody <=> r.at \in Routed
    /\ r.attempt = 2 /\ r.owner # Nobody =>
          Follows(r.from, r.owner.worker, r.owner.gen) /\ Follows(r.owner, worker, gen)
    /\ r.at = "invalidate" => r.attempt = 1
    /\ r.at \in {"idle", "answered"} => r.ran = 0
    /\ r.at \in {"resolve", "fill", "send", "run", "settings", "apply"} => r.ran < r.attempt
    /\ r.ran <= r.attempt
    /\ ~r.failed => r.ran = 0 \/ (r.ran = 1 /\ r.at = "reply" /\ r.code \in {"OK", "REFUSED"})
    /\ r.at = "reply" => r.code \in Codes
    /\ r.at = "answered" /\ r.code = "WRONG_GENERATION" =>
          r.from # Nobody /\ Moved(r.from, worker, gen)

Standing ==
    /\ calls \in [Calls -> CallRecords]
    /\ \A c \in Calls : CallOK(calls[c], worker_id[inst], generation[inst])

IInv ==
    /\ LeaseTypes /\ WorkerTypes /\ Standing
    /\ cache \in Lessees \cup {Nobody} /\ stored \in BOOLEAN

-----------------------------------------------------------------------------
(* What a step makes of one call.                                          *)

\* The fields of a call.
LEMMA CallFields ==
    ASSUME NEW r \in CallRecords
    PROVE  /\ r.at \in Steps /\ r.attempt \in 0..2 /\ r.owner \in Lessees \cup {Nobody}
           /\ r.from \in Origins \cup {Nobody} /\ r.mode \in BOOLEAN /\ r.gen \in Gens /\ r.ran \in 0..2
           /\ r.failed \in BOOLEAN /\ r.code \in Codes \cup {"WRONG_GENERATION", "NO_OWNER"}
           /\ r.answer \in Answers
  BY Zenon DEF CallRecords

\* No lease is mistaken for an empty cache.
LEMMA Somebody ==
    /\ Nobody \notin Lessees /\ Nobody \notin Origins /\ Lessees \subseteq Origins
    /\ \A o \in Origins : o.worker \in Holders /\ o.gen \in Gens
    /\ \A o \in Lessees : o.worker \in Workers /\ o.gen \in Gens /\ o.worker # NoWorker
  BY RoutingAssumption, NoWorkerAssumption DEF Lessees, Origins, Holders, Gens

\* An idle call
LEMMA IdleRecord ==
    /\ Idle \in CallRecords
    /\ Idle.at = "idle" /\ Idle.attempt = 0 /\ Idle.owner = Nobody /\ Idle.from = Nobody
    /\ Idle.ran = 0 /\ ~Idle.failed
  <1>1. 0 \in 0..2 /\ 0 \in Gens
    BY MaxGenerationAssumption DEF Gens
  <1>2. Idle \in CallRecords
    BY <1>1, Zenon DEF Idle, CallRecords, Codes, Steps, Answers
  <1> QED BY <1>2, Zenon DEF Idle

\* A call that goes on with the owner it has.
LEMMA Kept ==
    ASSUME NEW r \in CallRecords, NEW s \in CallRecords, NEW w, NEW g, CallOK(r, w, g),
           r.at \in Routed, s.at \in Routed,
           s.attempt = r.attempt, s.owner = r.owner, s.from = r.from,
           s.ran <= s.attempt, s.at # "reply" => s.ran < s.attempt,
           ~s.failed => s.ran = 0 \/ (s.ran = 1 /\ s.at = "reply" /\ s.code \in {"OK", "REFUSED"}),
           s.at = "reply" => s.code \in Codes
    PROVE  CallOK(s, w, g)
  BY Zenon DEF CallOK, Routed

\* A lease that moves leaves every call where it stands.
LEMMA LeaseMoves ==
    ASSUME NEW r \in CallRecords, NEW w \in Holders, NEW g \in Gens, NEW v \in Holders, NEW h \in Gens,
           CallOK(r, w, g), h > g \/ (h = g /\ v \in {w, NoWorker})
    PROVE  CallOK(r, v, h)
  <1>1. \A o \in Origins : Follows(o, w, g) => Follows(o, v, h)
    BY Somebody, MaxGenerationAssumption DEF Follows, Gens
  <1>2. \A o \in Origins : Moved(o, w, g) => Moved(o, v, h)
    BY Somebody, MaxGenerationAssumption DEF Moved, Gens
  <1>3. r.from \in Origins \cup {Nobody} /\ r.owner \in Origins \cup {Nobody}
    BY CallFields, Somebody, Zenon
  <1> QED BY <1>1, <1>2, <1>3, Zenon DEF CallOK

\* A request comes in under the present lease.
LEMMA Begun ==
    ASSUME NEW w \in Holders, NEW g \in Gens
    PROVE  LET s == [Idle EXCEPT !.at = "resolve", !.attempt = 1, !.from = [worker |-> w, gen |-> g]]
           IN  s \in CallRecords /\ CallOK(s, w, g)
  <1> DEFINE o == [worker |-> w, gen |-> g]
             s == [Idle EXCEPT !.at = "resolve", !.attempt = 1, !.from = o]
  <1>1. o \in Origins /\ o.worker = w /\ o.gen = g
    BY Zenon DEF Origins
  <1> HIDE DEF o
  <1>2. /\ s \in CallRecords /\ s.at = "resolve" /\ s.attempt = 1 /\ s.from = o
        /\ s.owner = Nobody /\ s.ran = 0 /\ s.failed = Idle.failed
    <2>1. 1 \in 0..2
      OBVIOUS
    <2> QED BY <1>1, <2>1, IdleRecord, Zenon DEF CallRecords, Steps
  <1> HIDE DEF s
  <1>3. s.from # Nobody /\ Follows(s.from, w, g)
    BY <1>1, <1>2, Somebody, Zenon DEF Follows
  <1>4. CallOK(s, w, g)
    BY <1>2, <1>3 DEF CallOK, Routed
  <1> QED BY <1>2, <1>4, Zenon DEF s, o

\* A call is answered: its record keeps nothing but the code, and the lease it
\* came in under if it was the fence that refused it (call, Answer).
LEMMA Answered ==
    ASSUME NEW w \in Holders, NEW g \in Gens, NEW code \in Codes \cup {"WRONG_GENERATION", "NO_OWNER"},
           NEW from \in Origins \cup {Nobody}, NEW answer \in Answers,
           code = "WRONG_GENERATION" => from # Nobody /\ Moved(from, w, g)
    PROVE  LET s == [Idle EXCEPT !.at = "answered", !.code = code, !.from = from, !.answer = answer]
           IN  s \in CallRecords /\ CallOK(s, w, g)
  <1> DEFINE s == [Idle EXCEPT !.at = "answered", !.code = code, !.from = from, !.answer = answer]
  <1>2. /\ s \in CallRecords /\ s.at = "answered" /\ s.attempt = 0 /\ s.from = from /\ s.code = code
        /\ s.owner = Nobody /\ s.ran = 0
    BY IdleRecord, Zenon DEF CallRecords, Steps
  <1> HIDE DEF s
  <1>4. CallOK(s, w, g)
    BY <1>2 DEF CallOK, Routed
  <1> QED BY <1>2, <1>4, Zenon DEF s

-----------------------------------------------------------------------------
(* The steps of a call.                                                    *)

\* The lease, as the steps of a call see it.
LEMMA Present ==
    ASSUME IInv
    PROVE  /\ worker_id[inst] \in Holders /\ generation[inst] \in Gens
           /\ Owner \in Origins /\ (Live(inst) => Owner \in Lessees)
           /\ Owner.worker = worker_id[inst] /\ Owner.gen = generation[inst]
  <1>1. worker_id[inst] \in Holders /\ generation[inst] \in Gens
    BY RoutingAssumption, Zenon DEF IInv, LeaseTypes
  <1> QED BY <1>1, Zenon DEF Owner, Origins, Lessees, Holders, Live

\* One call moves on and the lease stays.
LEMMA OneCall ==
    ASSUME IInv, NEW c \in Calls, NEW s \in CallRecords, Goto(c, s),
           CallOK(s, worker_id[inst], generation[inst]), UNCHANGED leaseVars
    PROVE  Standing'
  BY Zenon DEF IInv, Goto, Standing, leaseVars

\* A call is answered with anything but a refusal of the fence.
LEMMA AnswerStep ==
    ASSUME IInv, NEW c \in Calls, NEW r, NEW code \in Codes \cup {"WRONG_GENERATION", "NO_OWNER"},
           r.from \in Origins \cup {Nobody},
           code = "WRONG_GENERATION" => r.from # Nobody /\ Moved(r.from, worker_id[inst], generation[inst]),
           Answer(c, r, code), UNCHANGED leaseVars
    PROVE  Standing'
  <1> DEFINE from == IF code = "WRONG_GENERATION" THEN r.from ELSE Nobody
             answer == IF c \in Setters THEN ApplySettingsResult(code) ELSE TranslateSessionError(code)
             s == [Idle EXCEPT !.at = "answered", !.code = code, !.from = from, !.answer = answer]
  <1>1. from \in Origins \cup {Nobody}
    OBVIOUS
  <1>2. answer \in Answers
    BY Zenon DEF ApplySettingsResult, TranslateSessionError, Answers
  <1>3. code = "WRONG_GENERATION" => from # Nobody /\ Moved(from, worker_id[inst], generation[inst])
    OBVIOUS
  <1>4. Goto(c, s)
    BY Zenon DEF Answer
  <1>5. worker_id[inst] \in Holders /\ generation[inst] \in Gens
    BY Present, Zenon
  <1> HIDE DEF from, answer
  <1>6. s \in CallRecords /\ CallOK(s, worker_id[inst], generation[inst])
    BY <1>1, <1>2, <1>3, <1>5, Answered, Zenon
  <1> HIDE DEF s
  <1> QED BY <1>4, <1>6, OneCall, Zenon

\* An attempt is over: the call is answered, or makes its second round.
LEMMA AttemptedStep ==
    ASSUME IInv, NEW c \in Calls, NEW r \in CallRecords, NEW code \in Codes \cup {"WRONG_GENERATION"},
           CallOK(r, worker_id[inst], generation[inst]), r.at \in {"send", "reply"},
           ShouldRetry(code) /\ ~r.failed => r.ran = 0,
           code = "WRONG_GENERATION" /\ r.attempt = 2 => Moved(r.from, worker_id[inst], generation[inst]),
           Attempted(c, r, code), UNCHANGED leaseVars
    PROVE  Standing'
  <1>0. r.attempt \in {1, 2} /\ r.from # Nobody /\ r.from \in Origins
    BY CallFields DEF CallOK
  <1>1. CASE r.attempt = 1 /\ ShouldRetry(code)
    <2> DEFINE s == [r EXCEPT !.at = "invalidate", !.owner = Nobody, !.code = "none", !.mode = FALSE, !.gen = 0]
    <2>1. Goto(c, s)
      BY <1>1, Zenon DEF Attempted
    <2>2. /\ s \in CallRecords /\ s.at = "invalidate" /\ s.owner = Nobody /\ s.attempt = r.attempt
          /\ s.from = r.from /\ s.ran = r.ran /\ s.failed = r.failed
      <3>1. 0 \in Gens
        BY MaxGenerationAssumption DEF Gens
      <3> QED BY <3>1, Zenon DEF CallRecords, Steps, Codes
    <2> HIDE DEF s
    <2>3. CallOK(s, worker_id[inst], generation[inst])
      BY <1>1, <2>2, Zenon DEF CallOK, Routed
    <2> QED BY <2>1, <2>2, <2>3, OneCall, Zenon
  <1>2. CASE ~(r.attempt = 1 /\ ShouldRetry(code))
    <2>1. Answer(c, r, code)
      BY <1>2, Zenon DEF Attempted
    <2>2. code = "WRONG_GENERATION" => r.attempt = 2
      BY <1>0, <1>2, Zenon DEF ShouldRetry
    <2> QED BY <1>0, <2>1, <2>2, AnswerStep, Zenon
  <1> QED BY <1>1, <1>2, Zenon

\* What every step of a call leaves alone.
LEMMA Aside ==
    ASSUME IInv, UNCHANGED leaseVars, Standing'
    PROVE  /\ UNCHANGED <<proc, session, pump, cache, stored>> => IInv'
           /\ UNCHANGED <<proc, session, pump, stored>> /\ cache' \in Lessees \cup {Nobody} => IInv'
           /\ UNCHANGED <<proc, session, pump, cache>> /\ stored' \in BOOLEAN => IInv'
           /\ UNCHANGED <<cache, stored>> /\ WorkerTypes' => IInv'
  BY Zenon DEF IInv, LeaseTypes, WorkerTypes, leaseVars

\* The record of a call, as the invariant has it.
LEMMA TheCall ==
    ASSUME IInv, NEW c \in Calls
    PROVE  /\ calls[c] \in CallRecords /\ CallOK(calls[c], worker_id[inst], generation[inst])
           /\ calls[c].at \in Routed => calls[c].owner \in Lessees /\ Target(c) \in Workers
  BY CallFields, Somebody, Zenon DEF IInv, Standing, CallOK, Target

\* A request comes in (SetPassiveMode, and every other command).
LEMMA BeginStep ==
    ASSUME IInv, NEW c \in Calls, Command(c) \/ \E enabled \in BOOLEAN : SetPassiveMode(c, enabled)
    PROVE  IInv'
  <1>1. Begin(c) /\ UNCHANGED <<leaseVars, cache, proc, session, pump>> /\ stored' \in BOOLEAN
    BY Zenon DEF Command, SetPassiveMode, IInv
  <1>2. Standing'
    <2> DEFINE s == [Idle EXCEPT !.at = "resolve", !.attempt = 1, !.from = Owner]
    <2>1. s \in CallRecords /\ CallOK(s, worker_id[inst], generation[inst])
      BY Begun, Present, Zenon DEF Owner
    <2>2. Goto(c, s)
      BY <1>1, Zenon DEF Begin
    <2> HIDE DEF s
    <2> QED BY <1>1, <2>1, <2>2, OneCall, Zenon
  <1> QED BY <1>1, <1>2, Aside, Zenon

\* The owner is taken from the cache, or read (resolve).
LEMMA ResolveStep ==
    ASSUME IInv, NEW c \in Calls, ResolveCached(c) \/ ResolveLease(c)
    PROVE  IInv'
  <1> DEFINE r == calls[c]
  <1>0. /\ r \in CallRecords /\ CallOK(r, worker_id[inst], generation[inst]) /\ r.at = "resolve"
        /\ UNCHANGED <<leaseVars, cache, stored, proc, session, pump>>
    BY TheCall, Zenon DEF ResolveCached, ResolveLease, At
  <1>a. r.attempt \in {1, 2} /\ r.from \in Origins /\ r.from # Nobody
        /\ Follows(r.from, worker_id[inst], generation[inst])
    BY <1>0, CallFields DEF CallOK
  <1>1. ASSUME NEW at \in {"fill", "send"}, NEW o \in Lessees, Goto(c, [r EXCEPT !.at = at, !.owner = o]),
               r.attempt = 2 => o = Owner
        PROVE  Standing'
    <2> DEFINE s == [r EXCEPT !.at = at, !.owner = o]
    <2>1. /\ s \in CallRecords /\ s.at = at /\ s.owner = o /\ s.attempt = r.attempt /\ s.code = r.code
          /\ s.from = r.from /\ s.ran = r.ran /\ s.failed = r.failed
      <3>1. at \in Steps /\ o \in Lessees \cup {Nobody}
        BY <1>1, Zenon DEF Steps
      <3> QED BY <1>0, <3>1, Zenon DEF CallRecords
    <2>2. o # Nobody
      BY <1>1, Somebody, Zenon
    <2>3. r.attempt = 2 => /\ Follows(r.from, o.worker, o.gen)
                           /\ Follows(o, worker_id[inst], generation[inst])
      BY <1>1, <1>a, Present, Zenon DEF Follows
    <2>4. Goto(c, s)
      BY <1>1, Zenon
    <2> HIDE DEF s, r
    <2>5. CallOK(s, worker_id[inst], generation[inst])
      BY <1>0, <1>1, <1>a, <2>1, <2>2, <2>3, Zenon DEF CallOK, Routed
    <2> QED BY <1>0, <2>1, <2>4, <2>5, OneCall, Zenon
  <1>2. CASE ResolveCached(c)
    <2>1. cache \in Lessees /\ r.attempt = 1 /\ Goto(c, [r EXCEPT !.at = "send", !.owner = cache])
      BY <1>2, Zenon DEF ResolveCached, Cached, IInv
    <2>2. Standing'
      <3>1. "send" \in {"fill", "send"} /\ (r.attempt = 2 => cache = Owner)
        BY <2>1
      <3> HIDE DEF r
      <3> QED BY <1>1, <2>1, <3>1, Zenon
    <2> QED BY <1>0, <2>2, Aside, Zenon
  <1>3. CASE ResolveLease(c) /\ Live(inst)
    <2>1. Owner \in Lessees /\ Goto(c, [r EXCEPT !.at = "fill", !.owner = Owner])
      BY <1>3, Present, Zenon DEF ResolveLease
    <2>2. Standing'
      BY <1>1, <2>1, Zenon
    <2> QED BY <1>0, <2>2, Aside, Zenon
  <1>4. CASE ResolveLease(c) /\ ~Live(inst)
    <2>1. Answer(c, r, "NO_OWNER")
      BY <1>4, Zenon DEF ResolveLease
    <2>2. Standing'
      <3>1. /\ "NO_OWNER" \in Codes \cup {"WRONG_GENERATION", "NO_OWNER"}
            /\ "NO_OWNER" # "WRONG_GENERATION" /\ r.from \in Origins \cup {Nobody}
        BY <1>a, Zenon
      <3> HIDE DEF r
      <3> QED BY <1>0, <2>1, <3>1, AnswerStep, Zenon
    <2> QED BY <1>0, <2>2, Aside, Zenon
  <1> QED BY <1>2, <1>3, <1>4, Zenon

\* Filling the cache, and clearing it before the second round (resolve, call).
LEMMA CacheStep ==
    ASSUME IInv, NEW c \in Calls, FillCache(c) \/ Invalidate(c)
    PROVE  IInv'
  <1> DEFINE r == calls[c]
  <1>0. /\ r \in CallRecords /\ CallOK(r, worker_id[inst], generation[inst])
        /\ UNCHANGED <<leaseVars, stored, proc, session, pump>>
    BY TheCall, Zenon DEF FillCache, Invalidate
  <1>1. CASE FillCache(c)
    <2> DEFINE s == [r EXCEPT !.at = "send"]
    <2>1. Goto(c, s) /\ r.at = "fill" /\ cache' = r.owner
      BY <1>1, Zenon DEF FillCache, At
    <2>2. /\ s \in CallRecords /\ s.at = "send" /\ s.owner = r.owner /\ s.attempt = r.attempt
          /\ s.from = r.from /\ s.ran = r.ran /\ s.failed = r.failed /\ s.code = r.code
      BY <1>0, Zenon DEF CallRecords, Steps
    <2>3. cache' \in Lessees \cup {Nobody}
      BY <1>0, <2>1, CallFields, Zenon
    <2> HIDE DEF r, s
    <2>4. CallOK(s, worker_id[inst], generation[inst])
      BY <1>0, <2>1, <2>2, Zenon DEF CallOK, Routed
    <2>5. Standing'
      BY <1>0, <2>1, <2>2, <2>4, OneCall, Zenon
    <2> QED BY <1>0, <2>3, <2>5, Aside, Zenon
  <1>2. CASE Invalidate(c)
    <2> DEFINE s == [r EXCEPT !.at = "resolve", !.attempt = 2]
    <2>1. Goto(c, s) /\ r.at = "invalidate" /\ cache' = Nobody
      BY <1>2, Zenon DEF Invalidate, At
    <2>2. /\ s \in CallRecords /\ s.at = "resolve" /\ s.owner = r.owner /\ s.attempt = 2
          /\ s.from = r.from /\ s.ran = r.ran /\ s.failed = r.failed /\ s.code = r.code
      <3>1. 2 \in 0..2
        OBVIOUS
      <3> QED BY <1>0, <3>1, Zenon DEF CallRecords, Steps
    <2>3. r.ran \in 0..2
      BY <1>0, CallFields, Zenon
    <2> HIDE DEF r, s
    <2>4. CallOK(s, worker_id[inst], generation[inst])
      BY <1>0, <2>1, <2>2, <2>3 DEF CallOK, Routed
    <2>5. Standing'
      BY <1>0, <2>1, <2>2, <2>4, OneCall, Zenon
    <2> QED BY <1>0, <2>1, <2>5, Aside, Zenon
  <1> QED BY <1>1, <1>2, Zenon

\* The fence: what it refuses on the second round was read after the call came
\* in, so the lease has moved since (fence, call).
LEMMA FenceStep ==
    ASSUME IInv, NEW c \in Calls, Fence(c)
    PROVE  IInv'
  <1> DEFINE r == calls[c]
  <1>0. /\ r \in CallRecords /\ CallOK(r, worker_id[inst], generation[inst]) /\ r.at = "send"
        /\ r.owner \in Lessees
        /\ UNCHANGED <<leaseVars, cache, stored, proc, session, pump>>
    BY TheCall, Zenon DEF Fence, At, Routed
  <1>a. /\ r.attempt \in {1, 2} /\ r.ran < r.attempt /\ r.from \in Origins /\ r.owner # Nobody
        /\ r.failed \/ r.ran = 0
    <2>1. r.attempt \in 0..2 /\ r.attempt > 0 /\ r.ran < r.attempt /\ r.from \in Origins
      BY <1>0, CallFields, Zenon DEF CallOK
    <2>2. r.owner # Nobody /\ (r.failed \/ r.ran = 0)
      BY <1>0, Somebody, Zenon DEF CallOK
    <2> QED BY <2>1, <2>2
  <1>1. CASE Attempted(c, r, "UNAVAILABLE")
    <2>1. Standing'
      <3>1. "UNAVAILABLE" \in Codes \cup {"WRONG_GENERATION"} /\ "UNAVAILABLE" # "WRONG_GENERATION"
        BY Zenon DEF Codes
      <3> HIDE DEF r
      <3> QED BY <1>0, <1>a, <1>1, <3>1, AttemptedStep, Zenon
    <2> QED BY <1>0, <2>1, Aside, Zenon
  <1>2. CASE /\ ~CheckGeneration(Target(c), inst, calls[c].owner.gen)
             /\ Attempted(c, r, "WRONG_GENERATION")
    <2>1. r.attempt = 2 => Moved(r.from, worker_id[inst], generation[inst])
      <3> SUFFICES ASSUME r.attempt = 2
                   PROVE  Moved(r.from, worker_id[inst], generation[inst])
        OBVIOUS
      <3>1. /\ Follows(r.from, r.owner.worker, r.owner.gen)
            /\ Follows(r.owner, worker_id[inst], generation[inst])
        BY <1>0, <1>a, Zenon DEF CallOK
      <3>2. worker_id[inst] # r.owner.worker \/ generation[inst] # r.owner.gen
        BY <1>2, RoutingAssumption, Zenon DEF CheckGeneration, Target, IInv, LeaseTypes
      <3>3. r.owner.worker # NoWorker /\ r.owner.gen \in Gens /\ r.from.gen \in Gens
        BY <1>0, <1>a, Somebody, Zenon
      <3>4. generation[inst] \in Gens
        BY Present, Zenon
      <3> HIDE DEF r
      <3> QED BY <3>1, <3>2, <3>3, <3>4, MaxGenerationAssumption DEF Follows, Moved, Gens
    <2>2. Standing'
      <3> HIDE DEF r
      <3> QED BY <1>0, <1>a, <1>2, <2>1, AttemptedStep, Zenon
    <2> QED BY <1>0, <2>2, Aside, Zenon
  <1>3. ASSUME NEW at \in {"settings", "run"}, Goto(c, [r EXCEPT !.at = at])
        PROVE  IInv'
    <2> DEFINE s == [r EXCEPT !.at = at]
    <2>1. /\ s \in CallRecords /\ s.at = at /\ s.owner = r.owner /\ s.attempt = r.attempt
          /\ s.from = r.from /\ s.ran = r.ran /\ s.failed = r.failed
      <3>1. at \in Steps
        BY Zenon DEF Steps
      <3> QED BY <1>0, <3>1, Zenon DEF CallRecords
    <2>2. Goto(c, s)
      BY <1>3, Zenon
    <2> HIDE DEF r, s
    <2>4. CallOK(s, worker_id[inst], generation[inst])
      BY <1>0, <1>a, <2>1, Zenon DEF CallOK, Routed
    <2>5. Standing'
      BY <1>0, <2>1, <2>2, <2>4, OneCall, Zenon
    <2> QED BY <1>0, <2>5, Aside, Zenon
  <1> QED BY <1>1, <1>2, <1>3, Zenon DEF Fence

\* A call that ends, or goes on, at the worker it was fenced by.
LEMMA ServedStep ==
    ASSUME IInv, NEW c \in Calls, NEW s \in CallRecords, Goto(c, s), calls[c].at \in Routed, s.at \in Routed,
           s.attempt = calls[c].attempt, s.owner = calls[c].owner, s.from = calls[c].from,
           s.ran <= s.attempt, s.at # "reply" => s.ran < s.attempt,
           ~s.failed => s.ran = 0 \/ (s.ran = 1 /\ s.at = "reply" /\ s.code \in {"OK", "REFUSED"}),
           s.at = "reply" => s.code \in Codes,
           UNCHANGED leaseVars
    PROVE  Standing'
  <1>1. calls[c] \in CallRecords /\ CallOK(calls[c], worker_id[inst], generation[inst])
    BY TheCall, Zenon
  <1>2. CallOK(s, worker_id[inst], generation[inst])
    BY <1>1, Kept, Zenon
  <1> QED BY <1>2, OneCall, Zenon

\* The worker's handlers, up to their answer (lookup, ApplySettings, the commands).
LEMMA HandlerStep ==
    ASSUME IInv, NEW c \in Calls,
           Unknown(c) \/ Run(c) \/ RunFails(c) \/ ApplySettings(c) \/ ApplyPassiveModeFails(c)
    PROVE  IInv'
  <1> DEFINE r == calls[c]
  <1>0. /\ r \in CallRecords /\ CallOK(r, worker_id[inst], generation[inst])
        /\ UNCHANGED <<leaseVars, cache, stored, proc, session, pump>>
        /\ r.at \in {"run", "settings", "apply"}
    BY TheCall, Zenon DEF Unknown, Run, RunFails, ApplySettings, ApplyPassiveModeFails, At
  <1>a. /\ r.attempt \in 1..2 /\ r.ran < r.attempt /\ r.ran \in 0..2 /\ (r.failed \/ r.ran = 0)
        /\ r.at \in Routed /\ r.ran + 1 \in 0..2 /\ r.ran + 1 <= r.attempt /\ r.ran <= r.attempt
    <2>1. r.attempt \in 0..2 /\ r.attempt > 0 /\ r.ran < r.attempt /\ r.ran \in 0..2
      BY <1>0, CallFields, Zenon DEF CallOK
    <2>2. (r.failed \/ r.ran = 0) /\ r.at \in Routed
      BY <1>0, Zenon DEF CallOK, Routed
    <2> QED BY <2>1, <2>2
  <1>b. "reply" \in Routed /\ "apply" \in Routed
    BY Zenon DEF Routed
  <1>1. CASE Unknown(c)
    <2> DEFINE s == [r EXCEPT !.at = "reply", !.code = "UNKNOWN_INSTANCE"]
    <2>1. Goto(c, s)
      BY <1>1, Zenon DEF Unknown
    <2>2. /\ s \in CallRecords /\ s.at = "reply" /\ s.owner = r.owner /\ s.attempt = r.attempt
          /\ s.from = r.from /\ s.ran = r.ran /\ s.failed = r.failed /\ s.code \in Codes
      BY <1>0, Zenon DEF CallRecords, Steps, Codes
    <2> HIDE DEF s
    <2>3. Standing'
      BY <1>0, <1>a, <1>b, <2>1, <2>2, ServedStep, Zenon
    <2> QED BY <1>0, <2>3, Aside, Zenon
  <1>2. CASE Run(c)
    <2>0. PICK code \in {"OK", "REFUSED"} : Goto(c, [r EXCEPT !.at = "reply", !.code = code, !.ran = @ + 1])
      BY <1>2, Zenon DEF Run
    <2> DEFINE s == [r EXCEPT !.at = "reply", !.code = code, !.ran = r.ran + 1]
    <2>1. Goto(c, s)
      BY <2>0, Zenon
    <2>2. /\ s \in CallRecords /\ s.at = "reply" /\ s.owner = r.owner /\ s.attempt = r.attempt
          /\ s.from = r.from /\ s.ran = r.ran + 1 /\ s.failed = r.failed /\ s.code = code
      BY <1>0, <1>a, Zenon DEF CallRecords, Steps, Codes
    <2>a. code \in Codes
      BY Zenon DEF Codes
    <2>b. ~s.failed => s.ran = 1
      BY <1>a, <2>2
    <2> HIDE DEF s
    <2>3. Standing'
      BY <1>0, <1>a, <1>b, <2>1, <2>2, <2>a, <2>b, ServedStep, Zenon
    <2> QED BY <1>0, <2>3, Aside, Zenon
  <1>3. CASE RunFails(c)
    <2> DEFINE s == [r EXCEPT !.at = "reply", !.code = "UPSTREAM_FAILURE", !.ran = r.ran + 1, !.failed = TRUE]
    <2>1. Goto(c, s)
      BY <1>3, Zenon DEF RunFails
    <2>2. /\ s \in CallRecords /\ s.at = "reply" /\ s.owner = r.owner /\ s.attempt = r.attempt
          /\ s.from = r.from /\ s.ran = r.ran + 1 /\ s.failed /\ s.code \in Codes
      BY <1>0, <1>a, Zenon DEF CallRecords, Steps, Codes
    <2> HIDE DEF s
    <2>3. Standing'
      BY <1>0, <1>a, <1>b, <2>1, <2>2, ServedStep, Zenon
    <2> QED BY <1>0, <2>3, Aside, Zenon
  <1>4. CASE ApplySettings(c)
    <2> DEFINE g == session[Target(c)].gen
               s == [r EXCEPT !.at = "apply", !.mode = stored, !.gen = g]
    <2>1. Goto(c, s)
      BY <1>4, Zenon DEF ApplySettings
    <2>a. g \in Gens
      <3>1. Target(c) \in Workers
        BY <1>a, TheCall, Zenon
      <3> QED BY <3>1, Zenon DEF IInv, WorkerTypes, SessionRecords
    <2> HIDE DEF g
    <2>2. /\ s \in CallRecords /\ s.at = "apply" /\ s.owner = r.owner /\ s.attempt = r.attempt
          /\ s.from = r.from /\ s.ran = r.ran /\ s.failed = r.failed
      BY <1>0, <2>a, Zenon DEF CallRecords, Steps, IInv
    <2> HIDE DEF s
    <2>3. Standing'
      <3>1. s.at # "reply"
        BY <2>2, Zenon
      <3> QED BY <1>0, <1>a, <1>b, <2>1, <2>2, <3>1, ServedStep, Zenon
    <2> QED BY <1>0, <2>3, Aside, Zenon
  <1>5. CASE ApplyPassiveModeFails(c)
    <2> DEFINE s == [r EXCEPT !.at = "reply", !.code = "UPSTREAM_FAILURE", !.failed = TRUE]
    <2>1. Goto(c, s)
      BY <1>5, Zenon DEF ApplyPassiveModeFails
    <2>2. /\ s \in CallRecords /\ s.at = "reply" /\ s.owner = r.owner /\ s.attempt = r.attempt
          /\ s.from = r.from /\ s.ran = r.ran /\ s.failed /\ s.code \in Codes
      BY <1>0, Zenon DEF CallRecords, Steps, Codes
    <2> HIDE DEF s
    <2>3. Standing'
      BY <1>0, <1>a, <1>b, <2>1, <2>2, ServedStep, Zenon
    <2> QED BY <1>0, <2>3, Aside, Zenon
  <1> QED BY <1>1, <1>2, <1>3, <1>4, <1>5, Zenon

\* A handler's answer reaches the client, or is lost on the way.
LEMMA ReplyStep ==
    ASSUME IInv, NEW c \in Calls, Reply(c) \/ ReplyLost(c)
    PROVE  IInv'
  <1> DEFINE r == calls[c]
  <1>0. /\ r \in CallRecords /\ CallOK(r, worker_id[inst], generation[inst]) /\ r.at = "reply"
        /\ r.code \in Codes
        /\ UNCHANGED <<leaseVars, cache, stored, proc, session, pump>>
    BY TheCall, Zenon DEF Reply, ReplyLost, At, CallOK
  <1>a. r.code \in Codes \cup {"WRONG_GENERATION"} /\ r.code # "WRONG_GENERATION"
    BY <1>0, Zenon DEF Codes
  <1>1. CASE Reply(c)
    <2>1. Attempted(c, r, r.code)
      BY <1>1, Zenon DEF Reply
    <2>2. ShouldRetry(r.code) /\ ~r.failed => r.ran = 0
      BY <1>0, Zenon DEF ShouldRetry, CallOK
    <2>3. Standing'
      <3> HIDE DEF r
      <3> QED BY <1>0, <1>a, <2>1, <2>2, AttemptedStep, Zenon
    <2> QED BY <1>0, <2>3, Aside, Zenon
  <1>2. CASE ReplyLost(c)
    <2> DEFINE s == [r EXCEPT !.failed = TRUE]
    <2>1. Attempted(c, s, "UNAVAILABLE")
      BY <1>2, Zenon DEF ReplyLost
    <2>2. /\ s \in CallRecords /\ s.at = "reply" /\ s.owner = r.owner /\ s.attempt = r.attempt
          /\ s.from = r.from /\ s.ran = r.ran /\ s.failed /\ s.code = r.code
      BY <1>0, Zenon DEF CallRecords
    <2>3. "UNAVAILABLE" \in Codes \cup {"WRONG_GENERATION"} /\ "UNAVAILABLE" # "WRONG_GENERATION"
      BY Zenon DEF Codes
    <2> HIDE DEF r, s
    <2>4. CallOK(s, worker_id[inst], generation[inst])
      BY <1>0, <2>2, Zenon DEF CallOK, Routed
    <2>5. Standing'
      BY <1>0, <2>1, <2>2, <2>3, <2>4, AttemptedStep, Zenon
    <2> QED BY <1>0, <2>5, Aside, Zenon
  <1> QED BY <1>1, <1>2, Zenon

-----------------------------------------------------------------------------
(* The steps of a worker.                                                  *)

\* The fields of a session and of its pump.
LEMMA WorkerFields ==
    ASSUME IInv, NEW w \in Workers
    PROVE  /\ session[w] \in SessionRecords /\ pump[w] \in PumpRecords
           /\ pump[w].inbox \in Nat /\ session[w].gen \in Gens
           /\ NoSession \in SessionRecords /\ NoEvents \in PumpRecords
  <1>1. session[w] \in SessionRecords /\ pump[w] \in PumpRecords
    BY Zenon DEF IInv, WorkerTypes
  <1>2. 0 \in Gens /\ 0 \in Nat
    BY MaxGenerationAssumption DEF Gens
  <1>3. NoSession \in SessionRecords /\ NoEvents \in PumpRecords
    BY <1>2, Zenon DEF NoSession, NoEvents, SessionRecords, PumpRecords
  <1> QED BY <1>1, <1>3, Zenon DEF SessionRecords, PumpRecords

\* One worker's session and pump change.
LEMMA WorkerSet ==
    ASSUME IInv, NEW w \in Workers, NEW s \in SessionRecords, NEW p \in PumpRecords,
           session' = [session EXCEPT ![w] = s] \/ session' = session,
           pump' = [pump EXCEPT ![w] = p] \/ pump' = pump,
           proc' = proc \/ \E to \in {"stopping", "drained", "down"} : proc' = [proc EXCEPT ![w] = to]
    PROVE  WorkerTypes'
  BY Zenon DEF IInv, WorkerTypes

\* The lease moves on while every call waits.
LEMMA LeaseStep ==
    ASSUME IInv, LeaseTypes', calls' = calls,
           \/ generation'[inst] > generation[inst]
           \/ generation' = generation /\ worker_id'[inst] \in {worker_id[inst], NoWorker}
    PROVE  Standing'
  <1>1. /\ worker_id[inst] \in Holders /\ generation[inst] \in Gens
        /\ worker_id'[inst] \in Holders /\ generation'[inst] \in Gens
    BY Present, RoutingAssumption, Zenon DEF LeaseTypes
  <1>2. ASSUME NEW c \in Calls
        PROVE  CallOK(calls[c], worker_id'[inst], generation'[inst])
    <2>1. \/ generation'[inst] > generation[inst]
          \/ generation'[inst] = generation[inst] /\ worker_id'[inst] \in {worker_id[inst], NoWorker}
      OBVIOUS
    <2> QED BY <1>1, <2>1, TheCall, LeaseMoves, Zenon
  <1> QED BY <1>2, Zenon DEF IInv, Standing

\* The owner is told of passive mode (ApplySettings, applyPassiveMode).
LEMMA ApplyPassiveModeStep ==
    ASSUME IInv, NEW c \in Calls, ApplyPassiveMode(c)
    PROVE  IInv'
  <1> DEFINE r == calls[c]
             w == Target(c)
             code == IF Connected(c) THEN "OK" ELSE "NOT_APPLIED"
             s == [r EXCEPT !.at = "reply", !.code = code]
             x == [session[w] EXCEPT !.passive = r.mode, !.late = r.mode # stored]
  <1>0. /\ r \in CallRecords /\ CallOK(r, worker_id[inst], generation[inst])
        /\ UNCHANGED <<leaseVars, cache, stored, proc, pump>>
        /\ r.at = "apply" /\ r.at \in Routed /\ w \in Workers /\ r.mode \in BOOLEAN
    BY TheCall, CallFields, Zenon DEF ApplyPassiveMode, At, Routed
  <1>1. Goto(c, s) /\ code \in {"OK", "NOT_APPLIED"}
    BY Zenon DEF ApplyPassiveMode
  <1>2. x \in SessionRecords /\ (session' = [session EXCEPT ![w] = x] \/ session' = session)
    <2>1. x \in SessionRecords
      BY <1>0, WorkerFields, Zenon DEF SessionRecords
    <2>2. [session EXCEPT ![w].passive = r.mode, ![w].late = r.mode # stored] = [session EXCEPT ![w] = x]
      BY <1>0, Zenon DEF IInv, WorkerTypes
    <2> QED BY <2>1, <2>2, Zenon DEF ApplyPassiveMode, Push
  <1> HIDE DEF code, x, w
  <1>3. WorkerTypes'
    BY <1>0, <1>2, WorkerFields, WorkerSet, Zenon
  <1>4. /\ s \in CallRecords /\ s.at = "reply" /\ s.owner = r.owner /\ s.attempt = r.attempt
        /\ s.from = r.from /\ s.ran = r.ran /\ s.failed = r.failed /\ s.code \in Codes
    <2>1. code \in Codes /\ code \in Codes \cup {"WRONG_GENERATION", "NO_OWNER"}
      BY <1>1, Zenon DEF Codes
    <2> QED BY <1>0, <2>1, Zenon DEF CallRecords, Steps
  <1>5. r.ran <= r.attempt /\ (r.failed \/ r.ran = 0) /\ "reply" \in Routed
    BY <1>0, Zenon DEF CallOK, Routed
  <1> HIDE DEF s
  <1>6. Standing'
    BY <1>0, <1>1, <1>4, <1>5, ServedStep, Zenon
  <1> QED BY <1>0, <1>3, <1>6, Aside, Zenon

\* Steps of a worker that leave the lease and the calls alone: adoption's second
\* half, the connection to WhatsApp and the events it sends (start, reapplyPassiveMode).
LEMMA SessionStep ==
    ASSUME IInv, NEW w \in Workers,
           \/ AdoptStart(w) \/ LinkOpen(w) \/ LinkReady(w) \/ ConnectedDropped(w) \/ LinkDown(w)
           \/ ReapplyPassiveMode(w) \/ ReapplyPush(w) \/ ReapplyFails(w)
    PROVE  IInv'
  <1> USE WorkerFields
  <1>0. UNCHANGED <<leaseVars, cache, stored, proc, calls>>
    BY Zenon DEF AdoptStart, LinkOpen, LinkReady, ConnectedDropped, LinkDown,
                 ReapplyPassiveMode, ReapplyPush, ReapplyFails
  <1>1. Standing'
    BY <1>0, Zenon DEF IInv, Standing, leaseVars
  <1>2. ASSUME NEW s \in SessionRecords, NEW p \in PumpRecords,
               session' = [session EXCEPT ![w] = s] \/ session' = session,
               pump' = [pump EXCEPT ![w] = p] \/ pump' = pump
        PROVE  IInv'
    <2>1. WorkerTypes'
      BY <1>0, <1>2, WorkerSet, Zenon
    <2> QED BY <1>0, <1>1, <2>1, Aside, Zenon
  <1>a. pump[w] \in PumpRecords /\ session[w] \in SessionRecords
    OBVIOUS
  <1>3. CASE AdoptStart(w)
    <2>1. [session[w] EXCEPT !.at = "held"] \in SessionRecords
      BY Zenon DEF SessionRecords
    <2>2. session' = [session EXCEPT ![w] = [session[w] EXCEPT !.at = "held"]] /\ pump' = pump
      BY <1>3, Zenon DEF AdoptStart, IInv, WorkerTypes
    <2> QED BY <1>2, <1>a, <2>1, <2>2, Zenon
  <1>4. CASE LinkOpen(w)
    <2> DEFINE s == [session[w] EXCEPT !.link = "opening", !.passive = FALSE]
    <2>1. s \in SessionRecords
      BY Zenon DEF SessionRecords
    <2>2. session' = [session EXCEPT ![w] = s] /\ pump' = pump
      BY <1>4, Zenon DEF LinkOpen, IInv, WorkerTypes
    <2> QED BY <1>2, <1>a, <2>1, <2>2, Zenon
  <1>5. CASE LinkReady(w)
    <2> DEFINE s == [session[w] EXCEPT !.link = "on", !.passive = FALSE, !.late = FALSE]
               p == [pump[w] EXCEPT !.inbox = pump[w].inbox + 1]
    <2>1. s \in SessionRecords /\ p \in PumpRecords
      <3>1. pump[w].inbox + 1 \in Nat
        OBVIOUS
      <3> QED BY <3>1, Zenon DEF SessionRecords, PumpRecords
    <2>2. session' = [session EXCEPT ![w] = s] /\ pump' = [pump EXCEPT ![w] = p]
      BY <1>5, Zenon DEF LinkReady, IInv, WorkerTypes
    <2> QED BY <1>2, <2>1, <2>2, Zenon
  <1>6. CASE LinkDown(w)
    <2> DEFINE s == [session[w] EXCEPT !.link = "down", !.passive = FALSE, !.late = FALSE]
    <2>1. s \in SessionRecords
      BY Zenon DEF SessionRecords
    <2>2. session' = [session EXCEPT ![w] = s] /\ pump' = pump
      BY <1>6, Zenon DEF LinkDown, IInv, WorkerTypes
    <2> QED BY <1>2, <1>a, <2>1, <2>2, Zenon
  <1>7. CASE ReapplyPassiveMode(w)
    <2> DEFINE at == IF stored THEN "push" ELSE "idle"
               p == [pump[w] EXCEPT !.inbox = pump[w].inbox - 1, !.at = at]
    <2>1. at \in {"idle", "push"} /\ pump[w].inbox - 1 \in Nat
      BY <1>7 DEF ReapplyPassiveMode
    <2>2. session' = session /\ pump' = [pump EXCEPT ![w] = p]
      BY <1>7, Zenon DEF ReapplyPassiveMode, IInv, WorkerTypes
    <2> HIDE DEF at
    <2>3. p \in PumpRecords
      BY <2>1, Zenon DEF PumpRecords
    <2> QED BY <1>2, <1>a, <2>2, <2>3, Zenon
  <1>8. CASE ReapplyPush(w)
    <2> DEFINE s == [session[w] EXCEPT !.passive = TRUE, !.late = TRUE # stored]
               p == [pump[w] EXCEPT !.at = "idle"]
    <2>1. s \in SessionRecords /\ p \in PumpRecords
      BY Zenon DEF SessionRecords, PumpRecords
    <2>2. [session EXCEPT ![w].passive = TRUE, ![w].late = TRUE # stored] = [session EXCEPT ![w] = s]
      BY Zenon DEF IInv, WorkerTypes
    <2>3. (session' = [session EXCEPT ![w] = s] \/ session' = session) /\ pump' = [pump EXCEPT ![w] = p]
      BY <1>8, <2>2, Zenon DEF ReapplyPush, Push, IInv, WorkerTypes
    <2> QED BY <1>2, <2>1, <2>3, Zenon
  <1>9. CASE ReapplyFails(w)
    <2> DEFINE s == [session[w] EXCEPT !.late = TRUE]
               p == [pump[w] EXCEPT !.at = "idle"]
    <2>1. s \in SessionRecords /\ p \in PumpRecords
      BY Zenon DEF SessionRecords, PumpRecords
    <2>2. session' = [session EXCEPT ![w] = s] /\ pump' = [pump EXCEPT ![w] = p]
      BY <1>9, Zenon DEF ReapplyFails, IInv, WorkerTypes
    <2> QED BY <1>2, <2>1, <2>2, Zenon
  <1>10. CASE ConnectedDropped(w)
    <2> DEFINE s == [session[w] EXCEPT !.link = "on", !.passive = FALSE, !.late = TRUE]
    <2>1. s \in SessionRecords
      BY Zenon DEF SessionRecords
    <2>2. session' = [session EXCEPT ![w] = s] /\ pump' = pump
      BY <1>10, Zenon DEF ConnectedDropped, IInv, WorkerTypes
    <2> QED BY <1>2, <1>a, <2>1, <2>2, Zenon
  <1> QED BY <1>3, <1>4, <1>5, <1>6, <1>7, <1>8, <1>9, <1>10, Zenon

\* Steps of a worker that touch its lease: adoption, heartbeat, shutdown, and the
\* passing of time.
LEMMA HolderStep ==
    ASSUME IInv,
           \/ \E w \in Workers : AdoptAcquire(w) \/ HeartbeatOnce(w) \/ GracefulStop(w) \/ Shutdown(w) \/ ReleaseAll(w)
           \/ Time
    PROVE  IInv'
  <1> USE WorkerFields
  <1>1. ASSUME NEW w \in Workers, AdoptAcquire(w)
        PROVE  IInv'
    <2> DEFINE g == generation[inst] + 1
               s == [session[w] EXCEPT !.at = "starting", !.gen = g]
    <2>0. /\ Acquire(w, inst) /\ generation[inst] < MaxGeneration
          /\ session' = [session EXCEPT ![w].at = "starting", ![w].gen = generation'[inst]]
          /\ UNCHANGED <<cache, stored, proc, pump, calls>>
      BY <1>1, Zenon DEF AdoptAcquire, Acquire
    <2>1. generation' = [generation EXCEPT ![inst] = g] /\ generation'[inst] = g /\ g \in Gens /\ g > generation[inst]
      BY <2>0, RoutingAssumption, MaxGenerationAssumption, Present DEF Acquire, IInv, LeaseTypes, Gens
    <2>2. LeaseTypes'
      BY <2>0, <2>1, RoutingAssumption, ExpiryAssumption DEF Acquire, IInv, LeaseTypes, Holders
    <2>3. session' = [session EXCEPT ![w] = s]
      BY <2>0, <2>1, Zenon DEF IInv, WorkerTypes
    <2>4. s \in SessionRecords
      BY <2>1, Zenon DEF SessionRecords
    <2> HIDE DEF s
    <2>5. WorkerTypes'
      BY <2>0, <2>3, <2>4, WorkerSet, Zenon
    <2>6. Standing'
      BY <2>0, <2>1, <2>2, LeaseStep, Zenon
    <2> QED BY <2>0, <2>2, <2>5, <2>6, Zenon DEF IInv
  <1>2. ASSUME NEW w \in Workers, HeartbeatOnce(w)
        PROVE  IInv'
    <2>1. LeaseTypes' /\ generation' = generation /\ worker_id' = worker_id
      BY <1>2, ExpiryAssumption, SMTT(20) DEF HeartbeatOnce, Heartbeat, IInv, LeaseTypes
    <2>2. /\ UNCHANGED <<cache, stored, proc, calls>>
          /\ session' = [session EXCEPT ![w] = NoSession] \/ session' = session
          /\ pump' = [pump EXCEPT ![w] = NoEvents] \/ pump' = pump
      BY <1>2, Zenon DEF HeartbeatOnce, Stop
    <2>3. WorkerTypes'
      BY <2>2, WorkerSet, Zenon
    <2>4. Standing'
      BY <2>1, <2>2, SMTT(20) DEF IInv, Standing
    <2> QED BY <2>1, <2>2, <2>3, <2>4, Zenon DEF IInv
  <1>3. ASSUME NEW w \in Workers, GracefulStop(w) \/ Shutdown(w)
        PROVE  IInv'
    <2>1. /\ UNCHANGED <<leaseVars, cache, stored, calls>>
          /\ session' = [session EXCEPT ![w] = NoSession] \/ session' = session
          /\ pump' = [pump EXCEPT ![w] = NoEvents] \/ pump' = pump
          /\ \E to \in {"stopping", "drained", "down"} : proc' = [proc EXCEPT ![w] = to]
      BY <1>3, Zenon DEF GracefulStop, Shutdown, Stop
    <2>2. WorkerTypes'
      BY <2>1, WorkerSet, Zenon
    <2>3. Standing'
      BY <2>1, SMTT(20) DEF IInv, Standing, leaseVars
    <2> QED BY <2>1, <2>2, <2>3, Aside, Zenon
  <1>4. ASSUME NEW w \in Workers, ReleaseAll(w)
        PROVE  IInv'
    <2>1. /\ UNCHANGED <<cache, stored, session, pump, calls>>
          /\ \E to \in {"stopping", "drained", "down"} : proc' = [proc EXCEPT ![w] = to]
      BY <1>4, Zenon DEF ReleaseAll
    <2>2. LeaseTypes' /\ generation' = generation /\ worker_id'[inst] \in {worker_id[inst], NoWorker}
      BY <1>4, RoutingAssumption, ExpiryAssumption, SMTT(20) DEF ReleaseAll, Release, IInv, LeaseTypes, Holders
    <2>3. WorkerTypes'
      BY <2>1, WorkerSet, Zenon
    <2>4. Standing'
      BY <2>1, <2>2, LeaseStep, Zenon
    <2> QED BY <2>1, <2>2, <2>3, <2>4, Zenon DEF IInv
  <1>5. CASE Time
    <2>1. LeaseTypes' /\ generation' = generation /\ worker_id' = worker_id
      BY <1>5, ExpiryAssumption, SMTT(20) DEF Time, Tick, Stale, IInv, LeaseTypes
    <2>2. UNCHANGED <<cache, stored, proc, session, pump, calls>>
      BY <1>5, SMTT(20) DEF Time, routeVars
    <2> QED BY <2>1, <2>2, SMTT(20) DEF IInv, Standing, WorkerTypes
  <1> QED BY <1>1, <1>2, <1>3, <1>4, <1>5, Zenon

\* A worker dies: what it was serving breaks off (Crash).
LEMMA CrashStep ==
    ASSUME IInv, NEW w \in Workers, Crash(w)
    PROVE  IInv'
  <1>0. /\ UNCHANGED <<leaseVars, cache, stored>>
        /\ session' = [session EXCEPT ![w] = NoSession] /\ pump' = [pump EXCEPT ![w] = NoEvents]
        /\ \E to \in {"stopping", "drained", "down"} : proc' = [proc EXCEPT ![w] = to]
    BY Zenon DEF Crash, Stop
  <1>1. WorkerTypes'
    BY <1>0, WorkerFields, WorkerSet, Zenon
  <1>2. ASSUME NEW c \in Calls
        PROVE  calls'[c] \in CallRecords /\ CallOK(calls'[c], worker_id[inst], generation[inst])
    <2>0. calls[c] \in CallRecords /\ CallOK(calls[c], worker_id[inst], generation[inst])
      BY TheCall, Zenon
    <2>1. CASE ~(Serving(c) /\ Target(c) = w)
      BY <2>0, <2>1, Zenon DEF Crash
    <2>2. CASE Serving(c) /\ Target(c) = w
      <3> DEFINE r == calls[c]
                 s == [r EXCEPT !.at = "reply", !.code = "UNAVAILABLE", !.failed = TRUE]
      <3>1. calls'[c] = s
        BY <2>2, Zenon DEF Crash
      <3>2. /\ s \in CallRecords /\ s.at = "reply" /\ s.owner = r.owner /\ s.attempt = r.attempt
            /\ s.from = r.from /\ s.ran = r.ran /\ s.failed /\ s.code \in Codes
        BY <2>0, Zenon DEF CallRecords, Steps, Codes
      <3>3. r.at \in Routed /\ "reply" \in Routed /\ r.ran <= r.attempt
        BY <2>0, <2>2, SMTT(20) DEF Serving, Routed, CallOK
      <3> HIDE DEF r, s
      <3>4. CallOK(s, worker_id[inst], generation[inst])
        BY <2>0, <3>2, <3>3, Kept, Zenon DEF r
      <3> QED BY <3>1, <3>2, <3>4, Zenon
    <2> QED BY <2>1, <2>2, Zenon
  <1>3. Standing'
    <2>1. calls' = [c \in Calls |-> calls'[c]]
      BY Zenon DEF Crash
    <2> QED BY <1>0, <1>2, <2>1, Zenon DEF Standing, leaseVars
  <1> QED BY <1>0, <1>1, <1>3, Aside, Zenon

-----------------------------------------------------------------------------
(* The theorems.                                                           *)

\* The initial states satisfy the invariant.
LEMMA InvariantInit == Init => IInv
  <1> SUFFICES ASSUME Init PROVE IInv
    OBVIOUS
  <1>1. LeaseTypes
    BY MaxGenerationAssumption, ExpiryAssumption DEF Init, LeaseTypes, Holders, Gens
  <1>2. WorkerTypes
    <2>1. 0 \in Gens /\ 0 \in Nat
      BY MaxGenerationAssumption DEF Gens
    <2>2. NoSession \in SessionRecords /\ NoEvents \in PumpRecords
      BY <2>1, Zenon DEF NoSession, NoEvents, SessionRecords, PumpRecords
    <2> QED BY <2>2, Zenon DEF Init, WorkerTypes
  <1>3. Standing
    <2>1. ASSUME NEW w, NEW g
          PROVE  CallOK(Idle, w, g)
      BY IdleRecord DEF CallOK, Routed
    <2> QED BY <2>1, IdleRecord, Zenon DEF Init, Standing
  <1>4. stored \in BOOLEAN
    BY Zenon DEF Init
  <1> QED BY <1>1, <1>2, <1>3, <1>4, Zenon DEF Init, IInv

\* Every step preserves the invariant.
LEMMA InvariantNext ==
    ASSUME IInv, [Next]_vars
    PROVE  IInv'
  <1>1. ASSUME NEW c \in Calls, CallStep(c)
        PROVE  IInv'
    BY <1>1, BeginStep, ResolveStep, CacheStep, FenceStep, HandlerStep, ApplyPassiveModeStep, ReplyStep, Zenon
       DEF CallStep
  <1>2. ASSUME NEW w \in Workers, WorkerStep(w)
        PROVE  IInv'
    BY <1>2, SessionStep, HolderStep, CrashStep, Zenon DEF WorkerStep
  <1>3. CASE CacheExpires
    BY <1>3, Zenon DEF CacheExpires, IInv, LeaseTypes, WorkerTypes, Standing, leaseVars
  <1>4. CASE Time
    BY <1>4, HolderStep, Zenon
  <1>5. CASE UNCHANGED vars
    BY <1>5, Zenon DEF vars, routeVars, IInv, LeaseTypes, WorkerTypes, Standing, leaseVars
  <1> QED BY <1>1, <1>2, <1>3, <1>4, <1>5, Zenon DEF Next

\* The invariant holds of every reachable state.
THEOREM Invariant == Spec => []IInv
  BY InvariantInit, InvariantNext, PTL DEF Spec

\* Every call, session and cached owner keeps its type; a call makes at most two
\* rounds, is carried out at most once in each, and has an owner exactly while it
\* is on its way to one (sessionclient.call).
THEOREM TypeCorrect == Spec => []TypeOK
  <1>1. ASSUME IInv
        PROVE  TypeOK
    <2>1. LeaseTypeOK
      BY <1>1, MaxGenerationAssumption DEF IInv, LeaseTypes, LeaseTypeOK, DesiredStates, Holders, Gens
    <2>2. Lessees \subseteq Owners
      BY Zenon DEF Lessees, Owners, Gens
    <2>3. ASSUME NEW c \in Calls
          PROVE  /\ calls[c].owner \in Owners /\ calls[c].ran <= calls[c].attempt /\ calls[c].attempt <= 2
                 /\ calls[c].owner # Nobody <=> calls[c].at = "fill" \/ calls[c].at = "send" \/ Serving(c)
      <3>1. calls[c] \in CallRecords /\ CallOK(calls[c], worker_id[inst], generation[inst])
        BY <1>1, TheCall, Zenon
      <3>2. calls[c].owner \in Owners /\ calls[c].attempt <= 2
        BY <2>2, <3>1, CallFields DEF Owners
      <3> QED BY <3>1, <3>2, SMTT(20) DEF CallOK, Routed, Serving
    <2>4. cache \in Owners /\ stored \in BOOLEAN
      BY <1>1, <2>2, Zenon DEF IInv, Owners
    <2> QED BY <1>1, <2>1, <2>3, <2>4, Zenon DEF IInv, WorkerTypes, SessionRecords, PumpRecords, Gens, TypeOK
  <1> QED BY <1>1, Invariant, PTL

\* A command the fence refuses for good saw the lease change hands while it ran: a
\* stale cache entry alone costs a retry and never the command (call).
THEOREM StaleCacheIsHarmless == Spec => []RefusedOnlyIfMoved
  <1>1. ASSUME IInv
        PROVE  RefusedOnlyIfMoved
    <2> SUFFICES ASSUME NEW c \in Calls, calls[c].at = "answered", calls[c].code = "WRONG_GENERATION"
                 PROVE  calls[c].from # Owner
      BY Zenon DEF RefusedOnlyIfMoved
    <2>1. Moved(calls[c].from, worker_id[inst], generation[inst]) /\ calls[c].from \in Origins
      BY <1>1, TheCall, CallFields, SMTT(20) DEF CallOK
    <2>2. /\ Owner.worker = worker_id[inst] /\ Owner.gen = generation[inst]
          /\ generation[inst] \in Gens /\ calls[c].from.gen \in Gens
      BY <1>1, <2>1, Present, Somebody, SMTT(20)
    <2> QED BY <2>1, <2>2, MaxGenerationAssumption DEF Moved, Gens
  <1> QED BY <1>1, Invariant, PTL

\* A command is carried out twice only after an attempt that broke off: no answer
\* and no refusal makes the client repeat it (shouldRetry).
THEOREM NoNeedlessRepeat == Spec => []RepeatedOnlyAfterFailure
  <1>1. ASSUME IInv
        PROVE  RepeatedOnlyAfterFailure
    BY <1>1, TheCall, SMTT(20) DEF CallOK, RepeatedOnlyAfterFailure
  <1> QED BY <1>1, Invariant, PTL

-----------------------------------------------------------------------------
(* Passive mode.                                                           *)

Served == {"run", "settings", "apply", "reply"}

\* Where the request r of c stands under the lease of "worker" and "gen": past the fence, the lease was its owner's.
Modal(c, r, worker, gen) ==
    /\ c \in Setters => /\ r.at \in Served => Follows(r.owner, worker, gen)
                        /\ r.at # "run"
    /\ c \notin Setters => r.at \notin {"settings", "apply"}

\* The holder of "gen" has the mode of the request r, from it or from the
\* table: the push is done, or the lease was acquired since the fence.
Due(r, gen) ==
    \/ r.at \in Served /\ r.owner.gen < gen
    \/ r.at = "reply" /\ r.code = "OK"
    \/ r.at = "answered" /\ r.answer = "applied"
    \/ r.at = "idle"

Calm(s, p) == s.link = "on" /\ ~s.late /\ p = NoEvents

InForce(st, cs, holder, gen, ses, pm) ==
    st /\ (\A c \in Setters : Due(cs[c], gen)) =>
        \A w \in Workers : holder = w /\ Calm(ses[w], pm[w]) => ses[w].passive

MInv ==
    /\ \A w \in Workers : session[w].at # "held" => session[w].link = "down"
    /\ \A c \in Calls : Modal(c, calls[c], worker_id[inst], generation[inst])
    /\ InForce(stored, calls, worker_id[inst], generation[inst], session, pump)

\* A call moves on, and becomes due by nothing it does itself.
LEMMA CallMoves ==
    ASSUME IInv, MInv, NEW c \in Calls, NEW r, Goto(c, r), UNCHANGED <<leaseVars, stored, session, pump>>,
           Modal(c, r, worker_id[inst], generation[inst]),
           c \in Setters /\ Due(r, generation[inst]) => Due(calls[c], generation[inst])
    PROVE  MInv'
  <1>1. calls'[c] = r /\ \A d \in Calls : d # c => calls'[d] = calls[d]
    BY Zenon DEF Goto, IInv, Standing
  <1>2. UNCHANGED <<worker_id, generation>>
    BY Zenon DEF leaseVars
  <1>3. ASSUME NEW d \in Calls
        PROVE  Modal(d, calls'[d], worker_id[inst], generation[inst])
    BY <1>1, Zenon DEF MInv
  <1>4. ASSUME NEW d \in Setters, Due(calls'[d], generation[inst])
        PROVE  Due(calls[d], generation[inst])
    <2>1. d \in Calls
      BY Zenon DEF Calls
    <2> QED BY <1>1, <1>4, <2>1, Zenon
  <1>5. InForce(stored, calls', worker_id[inst], generation[inst], session, pump)
    BY <1>4, Zenon DEF MInv, InForce
  <1> QED BY <1>2, <1>3, <1>5, Zenon DEF MInv

\* A call is answered: a request that sets the mode with "applied" only for "OK".
LEMMA AnswerMoves ==
    ASSUME IInv, MInv, NEW c \in Calls, NEW r, NEW code, Answer(c, r, code),
           UNCHANGED <<leaseVars, stored, session, pump>>,
           c \in Setters /\ code = "OK" => Due(calls[c], generation[inst])
    PROVE  MInv'
  <1> DEFINE from == IF code = "WRONG_GENERATION" THEN r.from ELSE Nobody
             answer == IF c \in Setters THEN ApplySettingsResult(code) ELSE TranslateSessionError(code)
             s == [Idle EXCEPT !.at = "answered", !.code = code, !.from = from, !.answer = answer]
  <1>1. c \in Setters /\ answer = "applied" => code = "OK"
    BY DEF ApplySettingsResult
  <1>2. Goto(c, s)
    BY Zenon DEF Answer
  <1> HIDE DEF from, answer
  <1>3. s.at = "answered" /\ s.answer = answer
    BY Zenon DEF Idle
  <1> HIDE DEF s
  <1>4. Modal(c, s, worker_id[inst], generation[inst])
    BY <1>3 DEF Modal, Served
  <1>5. c \in Setters /\ Due(s, generation[inst]) => code = "OK"
    BY <1>1, <1>3 DEF Due, Served
  <1> QED BY <1>2, <1>4, <1>5, CallMoves, Zenon

\* An attempt is over: nothing but the code "OK" makes "applied" of it.
LEMMA AttemptedMoves ==
    ASSUME IInv, MInv, NEW c \in Calls, NEW r \in CallRecords, NEW code, Attempted(c, r, code),
           UNCHANGED <<leaseVars, stored, session, pump>>,
           c \in Setters /\ code = "OK" => Due(calls[c], generation[inst])
    PROVE  MInv'
  <1>1. CASE r.attempt = 1 /\ ShouldRetry(code)
    <2> DEFINE s == [r EXCEPT !.at = "invalidate", !.owner = Nobody, !.code = "none", !.mode = FALSE, !.gen = 0]
    <2>1. Goto(c, s) /\ s.at = "invalidate"
      BY <1>1, Zenon DEF Attempted, CallRecords
    <2> HIDE DEF s
    <2>2. Modal(c, s, worker_id[inst], generation[inst]) /\ ~Due(s, generation[inst])
      BY <2>1 DEF Modal, Due, Served
    <2> QED BY <2>1, <2>2, CallMoves, Zenon
  <1>2. CASE ~(r.attempt = 1 /\ ShouldRetry(code))
    BY <1>2, AnswerMoves, Zenon DEF Attempted
  <1> QED BY <1>1, <1>2, Zenon

\* The requests on their way to a worker and back (call, resolve, fence).
LEMMA ClientMoves ==
    ASSUME IInv, MInv, NEW c \in Calls,
           \/ Command(c) \/ ResolveCached(c) \/ ResolveLease(c) \/ FillCache(c) \/ Invalidate(c)
           \/ Fence(c) \/ Reply(c) \/ ReplyLost(c)
    PROVE  MInv'
  <1> DEFINE r == calls[c]
  <1>0. r \in CallRecords /\ UNCHANGED <<leaseVars, stored, session, pump>>
    BY TheCall, Zenon DEF Command, ResolveCached, ResolveLease, FillCache, Invalidate, Fence, Reply, ReplyLost
  <1>1. ASSUME NEW s, Goto(c, s), s.at \in {"resolve", "fill", "send"}
        PROVE  MInv'
    <2>1. Modal(c, s, worker_id[inst], generation[inst]) /\ ~Due(s, generation[inst])
      BY <1>1 DEF Modal, Due, Served
    <2> QED BY <1>0, <1>1, <2>1, CallMoves, Zenon
  <1>2. CASE Command(c)
    <2> DEFINE s == [Idle EXCEPT !.at = "resolve", !.attempt = 1, !.from = Owner]
    <2>1. Goto(c, s) /\ s.at = "resolve"
      BY <1>2, Zenon DEF Command, Begin, Idle
    <2> HIDE DEF s
    <2> QED BY <1>1, <2>1, Zenon
  <1>3. CASE ResolveCached(c)
    <2> DEFINE s == [r EXCEPT !.at = "send", !.owner = cache]
    <2>1. Goto(c, s) /\ s.at = "send"
      BY <1>0, <1>3, Zenon DEF ResolveCached, CallRecords
    <2> HIDE DEF s
    <2> QED BY <1>1, <2>1, Zenon
  <1>4. CASE ResolveLease(c) /\ Live(inst)
    <2> DEFINE s == [r EXCEPT !.at = "fill", !.owner = Owner]
    <2>1. Goto(c, s) /\ s.at = "fill"
      BY <1>0, <1>4, Zenon DEF ResolveLease, CallRecords
    <2> HIDE DEF s
    <2> QED BY <1>1, <2>1, Zenon
  <1>5. CASE ResolveLease(c) /\ ~Live(inst)
    <2>1. Answer(c, r, "NO_OWNER") /\ "NO_OWNER" # "OK"
      BY <1>5, Zenon DEF ResolveLease
    <2> HIDE DEF r
    <2> QED BY <1>0, <2>1, AnswerMoves, Zenon
  <1>6. CASE FillCache(c)
    <2> DEFINE s == [r EXCEPT !.at = "send"]
    <2>1. Goto(c, s) /\ s.at = "send"
      BY <1>0, <1>6, Zenon DEF FillCache, CallRecords
    <2> HIDE DEF s
    <2> QED BY <1>1, <2>1, Zenon
  <1>7. CASE Invalidate(c)
    <2> DEFINE s == [r EXCEPT !.at = "resolve", !.attempt = 2]
    <2>1. Goto(c, s) /\ s.at = "resolve"
      BY <1>0, <1>7, Zenon DEF Invalidate, CallRecords
    <2> HIDE DEF s
    <2> QED BY <1>1, <2>1, Zenon
  <1>8. CASE Fence(c)
    <2>1. CASE \E code \in {"UNAVAILABLE", "WRONG_GENERATION"} : Attempted(c, r, code)
      <3>1. PICK code \in {"UNAVAILABLE", "WRONG_GENERATION"} : Attempted(c, r, code)
        BY <2>1, Zenon
      <3>2. code # "OK"
        OBVIOUS
      <3> HIDE DEF r
      <3> QED BY <1>0, <3>1, <3>2, AttemptedMoves, Zenon
    <2>2. CASE /\ CheckGeneration(Target(c), inst, calls[c].owner.gen)
               /\ Goto(c, [r EXCEPT !.at = IF c \in Setters THEN "settings" ELSE "run"])
      <3> DEFINE at == IF c \in Setters THEN "settings" ELSE "run"
                 s == [r EXCEPT !.at = at]
      <3>1. Goto(c, s) /\ s.at = at /\ s.owner = r.owner
        BY <1>0, <2>2, Zenon DEF CallRecords
      <3>2. r.owner.gen = generation[inst] /\ r.owner.worker = worker_id[inst] /\ r.owner.gen \in Nat
        <4>1. r.owner.gen = generation[inst] /\ r.owner.worker = worker_id[inst]
          BY <2>2, Zenon DEF CheckGeneration, Target
        <4>2. generation[inst] \in Nat
          BY Present DEF Gens
        <4> QED BY <4>1, <4>2, Zenon
      <3> HIDE DEF s, r
      <3>3. Modal(c, s, worker_id[inst], generation[inst])
        BY <3>1, <3>2 DEF Modal, Follows
      <3>4. ~Due(s, generation[inst])
        BY <3>1, <3>2 DEF Due
      <3> QED BY <1>0, <3>1, <3>3, <3>4, CallMoves, Zenon
    <2> QED BY <1>8, <2>1, <2>2, Zenon DEF Fence
  <1>9. CASE Reply(c)
    <2>1. Attempted(c, r, r.code) /\ r.at = "reply"
      BY <1>9, Zenon DEF Reply, At
    <2>2. r.code = "OK" => Due(r, generation[inst])
      BY <2>1, Zenon DEF Due
    <2> QED BY <1>0, <2>1, <2>2, AttemptedMoves, Zenon
  <1>10. CASE ReplyLost(c)
    <2> DEFINE s == [r EXCEPT !.failed = TRUE]
    <2>1. Attempted(c, s, "UNAVAILABLE") /\ "UNAVAILABLE" # "OK" /\ s \in CallRecords
      BY <1>0, <1>10, Zenon DEF ReplyLost, CallRecords
    <2> HIDE DEF s
    <2> QED BY <1>0, <2>1, AttemptedMoves, Zenon
  <1> QED BY <1>2, <1>3, <1>4, <1>5, <1>6, <1>7, <1>8, <1>9, <1>10, Zenon

\* The handlers, but for the push: a request that sets the mode reads what is
\* stored (lookup, ApplySettings).
LEMMA HandlerMoves ==
    ASSUME IInv, MInv, NEW c \in Calls,
           Unknown(c) \/ Run(c) \/ RunFails(c) \/ ApplySettings(c) \/ ApplyPassiveModeFails(c)
    PROVE  MInv'
  <1> DEFINE r == calls[c]
  <1>0. r \in CallRecords /\ UNCHANGED <<leaseVars, stored, session, pump>> /\ r.at \in {"run", "settings", "apply"}
    BY TheCall, Zenon DEF Unknown, Run, RunFails, ApplySettings, ApplyPassiveModeFails, At
  <1>a. Modal(c, r, worker_id[inst], generation[inst])
    BY Zenon DEF MInv
  <1>1. ASSUME NEW s, Goto(c, s), s.at = "reply", s.owner = r.owner, c \in Setters => s.code # "OK"
        PROVE  MInv'
    <2> HIDE DEF r
    <2>1. Modal(c, s, worker_id[inst], generation[inst])
      BY <1>0, <1>1, <1>a DEF Modal, Served
    <2>2. c \in Setters /\ Due(s, generation[inst]) => Due(r, generation[inst])
      BY <1>0, <1>1 DEF Due, Served
    <2> QED BY <1>0, <1>1, <2>1, <2>2, CallMoves, Zenon DEF r
  <1>2. CASE Unknown(c)
    <2> DEFINE s == [r EXCEPT !.at = "reply", !.code = "UNKNOWN_INSTANCE"]
    <2>1. Goto(c, s) /\ s.at = "reply" /\ s.owner = r.owner /\ s.code # "OK"
      BY <1>0, <1>2, Zenon DEF Unknown, CallRecords
    <2> HIDE DEF s, r
    <2> QED BY <1>1, <2>1, Zenon
  <1>3. CASE Run(c)
    <2>0. PICK code \in {"OK", "REFUSED"} : Goto(c, [r EXCEPT !.at = "reply", !.code = code, !.ran = @ + 1])
      BY <1>3, Zenon DEF Run
    <2> DEFINE s == [r EXCEPT !.at = "reply", !.code = code, !.ran = @ + 1]
    <2>1. Goto(c, s) /\ s.at = "reply" /\ s.owner = r.owner
      BY <1>0, <2>0, Zenon DEF CallRecords
    <2>2. c \notin Setters
      BY <1>3, <1>a, Zenon DEF Run, At, Modal
    <2> HIDE DEF s, r
    <2> QED BY <1>1, <2>1, <2>2, Zenon
  <1>4. CASE RunFails(c)
    <2> DEFINE s == [r EXCEPT !.at = "reply", !.code = "UPSTREAM_FAILURE", !.ran = @ + 1, !.failed = TRUE]
    <2>1. Goto(c, s) /\ s.at = "reply" /\ s.owner = r.owner /\ s.code # "OK"
      BY <1>0, <1>4, Zenon DEF RunFails, CallRecords
    <2> HIDE DEF s, r
    <2> QED BY <1>1, <2>1, Zenon
  <1>5. CASE ApplyPassiveModeFails(c)
    <2> DEFINE s == [r EXCEPT !.at = "reply", !.code = "UPSTREAM_FAILURE", !.failed = TRUE]
    <2>1. Goto(c, s) /\ s.at = "reply" /\ s.owner = r.owner /\ s.code # "OK"
      BY <1>0, <1>5, Zenon DEF ApplyPassiveModeFails, CallRecords
    <2> HIDE DEF s, r
    <2> QED BY <1>1, <2>1, Zenon
  <1>6. CASE ApplySettings(c)
    <2> DEFINE s == [r EXCEPT !.at = "apply", !.mode = stored, !.gen = session[Target(c)].gen]
    <2>1. Goto(c, s) /\ s.at = "apply" /\ s.owner = r.owner /\ s.mode = stored /\ r.at = "settings"
      BY <1>0, <1>6, Zenon DEF ApplySettings, CallRecords, At
    <2> HIDE DEF s, r
    <2>2. Modal(c, s, worker_id[inst], generation[inst])
      BY <1>a, <2>1 DEF Modal, Served
    <2>3. Due(s, generation[inst]) => Due(r, generation[inst])
      BY <2>1 DEF Due, Served
    <2> QED BY <1>0, <2>1, <2>2, <2>3, CallMoves, Zenon DEF r
  <1> QED BY <1>2, <1>3, <1>4, <1>5, <1>6, Zenon

\* The mode is stored: nobody has been told (SetPassiveMode).
LEMMA SetterBegins ==
    ASSUME IInv, MInv, NEW c \in Calls, NEW enabled \in BOOLEAN, SetPassiveMode(c, enabled)
    PROVE  MInv'
  <1> DEFINE s == [Idle EXCEPT !.at = "resolve", !.attempt = 1, !.from = Owner]
  <1>1. c \in Setters /\ Goto(c, s) /\ s.at = "resolve" /\ UNCHANGED <<leaseVars, session, pump>>
    BY Zenon DEF SetPassiveMode, Begin, Idle
  <1> HIDE DEF s
  <1>2. calls'[c] = s /\ \A d \in Calls : d # c => calls'[d] = calls[d]
    BY <1>1, Zenon DEF Goto, IInv, Standing
  <1>3. Modal(c, s, worker_id[inst], generation[inst]) /\ ~Due(s, generation[inst])
    BY <1>1 DEF Modal, Due, Served
  <1>4. ASSUME NEW d \in Calls
        PROVE  Modal(d, calls'[d], worker_id[inst], generation[inst])
    BY <1>2, <1>3, Zenon DEF MInv
  <1>5. InForce(stored', calls', worker_id[inst], generation[inst], session, pump)
    BY <1>1, <1>2, <1>3, Zenon DEF InForce
  <1> QED BY <1>1, <1>4, <1>5, Zenon DEF MInv, leaseVars

\* The mode is pushed: onto the owner's connection, or onto that of a worker
\* that lost the lease, in which case its new holder has read the table since
\* (applyPassiveMode).
LEMMA PushMoves ==
    ASSUME IInv, MInv, NEW c \in Calls, ApplyPassiveMode(c)
    PROVE  MInv'
  <1> DEFINE r == calls[c]
             w == Target(c)
             code == IF Connected(c) THEN "OK" ELSE "NOT_APPLIED"
             s == [r EXCEPT !.at = "reply", !.code = code]
             x == [session[w] EXCEPT !.passive = r.mode, !.late = r.mode # stored]
  <1>0. /\ r \in CallRecords /\ r.at = "apply" /\ w \in Workers /\ w = r.owner.worker /\ r.owner \in Lessees
        /\ Modal(c, r, worker_id[inst], generation[inst])
        /\ UNCHANGED <<leaseVars, stored, pump>>
    BY TheCall, Zenon DEF ApplyPassiveMode, At, Routed, Target, MInv
  <1>1. c \in Setters /\ Follows(r.owner, worker_id[inst], generation[inst])
    BY <1>0, Zenon DEF Modal, Served
  <1>2. Goto(c, s) /\ (code = "OK" <=> Connected(c))
    BY Zenon DEF ApplyPassiveMode
  <1>3. session' = IF Connected(c) THEN [session EXCEPT ![w] = x] ELSE session
    <2>1. [session EXCEPT ![w].passive = r.mode, ![w].late = r.mode # stored] = [session EXCEPT ![w] = x]
      BY <1>0, Zenon DEF IInv, WorkerTypes
    <2> QED BY <2>1, Zenon DEF ApplyPassiveMode, Push
  <1>4. x.at = session[w].at /\ x.link = session[w].link /\ x.passive = r.mode /\ x.late = (r.mode # stored)
    BY <1>0, WorkerFields, Zenon DEF SessionRecords
  <1> HIDE DEF code
  <1>5. s.at = "reply" /\ s.owner = r.owner /\ s.code = code
    BY <1>0, Zenon DEF CallRecords
  <1> HIDE DEF s, x, w, r
  <1>6. Modal(c, s, worker_id[inst], generation[inst])
    BY <1>1, <1>5 DEF Modal
  <1>7. CASE ~Connected(c)
    <2>1. Due(s, generation[inst]) => Due(r, generation[inst])
      BY <1>0, <1>2, <1>5, <1>7 DEF Due, Served
    <2> QED BY <1>0, <1>2, <1>3, <1>6, <1>7, <2>1, CallMoves, Zenon DEF r
  <1>8. CASE Connected(c)
    <2>1. calls'[c] = s /\ \A d \in Calls : d # c => calls'[d] = calls[d]
      BY <1>2, Zenon DEF Goto, IInv, Standing
    <2>2. session'[w] = x /\ \A v \in Workers : v # w => session'[v] = session[v]
      BY <1>0, <1>3, <1>8, Zenon DEF IInv, WorkerTypes
    <2>3. ASSUME NEW d \in Calls
          PROVE  Modal(d, calls'[d], worker_id[inst], generation[inst])
      BY <1>6, <2>1, Zenon DEF MInv
    <2>4. ASSUME NEW v \in Workers, session'[v].at # "held"
          PROVE  session'[v].link = "down"
      BY <1>0, <1>4, <2>2, <2>4, Zenon DEF MInv
    <2>5. ASSUME stored, \A d \in Setters : Due(calls'[d], generation[inst]),
                 NEW v \in Workers, worker_id[inst] = v, Calm(session'[v], pump[v])
          PROVE  session'[v].passive
      <3>1. CASE v = w
        <4>1. ~session'[v].late
          BY <2>5, Zenon DEF Calm
        <4>2. r.mode = stored
          BY <1>4, <2>2, <3>1, <4>1, Zenon
        <4> QED BY <1>4, <2>2, <2>5, <3>1, <4>2, Zenon
      <3>2. CASE v # w
        <4>1. r.owner.gen < generation[inst]
          BY <1>0, <1>1, <2>5, <3>2, NoWorkerAssumption, Zenon DEF Follows
        <4>2. \A d \in Setters : Due(calls[d], generation[inst])
          <5>1. Due(r, generation[inst])
            BY <1>0, <4>1, Zenon DEF Due, Served
          <5> QED BY <2>1, <2>5, <5>1, Zenon DEF Calls, r
        <4>3. session'[v] = session[v]
          BY <2>2, <3>2, Zenon
        <4> QED BY <2>5, <4>2, <4>3, Zenon DEF MInv, InForce
      <3> QED BY <3>1, <3>2, Zenon
    <2>6. InForce(stored, calls', worker_id[inst], generation[inst], session', pump)
      BY <2>5, Zenon DEF InForce
    <2> QED BY <1>0, <2>3, <2>4, <2>6, Zenon DEF MInv, leaseVars
  <1> QED BY <1>7, <1>8, Zenon

\* A worker's session or its pump changes: a connection that is calm after the
\* step has the stored mode if that is passive.
LEMMA WorkerMoves ==
    ASSUME IInv, MInv, NEW w \in Workers, NEW s, NEW p,
           session' = [session EXCEPT ![w] = s], pump' = [pump EXCEPT ![w] = p],
           s.at # "held" => s.link = "down", stored /\ Calm(s, p) => s.passive,
           UNCHANGED <<worker_id, generation, calls, stored>>
    PROVE  MInv'
  <1>1. /\ session'[w] = s /\ \A v \in Workers : v # w => session'[v] = session[v]
        /\ pump'[w] = p /\ \A v \in Workers : v # w => pump'[v] = pump[v]
    BY Zenon DEF IInv, WorkerTypes
  <1>2. ASSUME NEW v \in Workers, session'[v].at # "held"
        PROVE  session'[v].link = "down"
    BY <1>1, <1>2, Zenon DEF MInv
  <1>3. InForce(stored, calls, worker_id[inst], generation[inst], session', pump')
    <2> SUFFICES ASSUME stored, \A c \in Setters : Due(calls[c], generation[inst]),
                        NEW v \in Workers, worker_id[inst] = v, Calm(session'[v], pump'[v])
                 PROVE  session'[v].passive
      BY Zenon DEF InForce
    <2>1. CASE v = w
      BY <1>1, <2>1, Zenon
    <2>2. CASE v # w
      BY <1>1, <2>2, Zenon DEF MInv, InForce
    <2> QED BY <2>1, <2>2, Zenon
  <1> QED BY <1>2, <1>3, Zenon DEF MInv

\* The connection and its events (reapplyPassiveMode), and adoption's second half.
LEMMA ConnectionMoves ==
    ASSUME IInv, MInv, NEW w \in Workers,
           \/ AdoptStart(w) \/ LinkOpen(w) \/ LinkReady(w) \/ ConnectedDropped(w) \/ LinkDown(w)
           \/ ReapplyPassiveMode(w) \/ ReapplyPush(w) \/ ReapplyFails(w)
    PROVE  MInv'
  <1>0. UNCHANGED <<worker_id, generation, calls, stored>>
    BY Zenon DEF AdoptStart, LinkOpen, LinkReady, ConnectedDropped, LinkDown,
                 ReapplyPassiveMode, ReapplyPush, ReapplyFails, leaseVars
  <1>a. /\ session[w] \in SessionRecords /\ pump[w] \in PumpRecords /\ pump[w].inbox \in Nat
        /\ session = [session EXCEPT ![w] = session[w]] /\ pump = [pump EXCEPT ![w] = pump[w]]
    BY WorkerFields, Zenon DEF IInv, WorkerTypes
  <1>b. session[w].at # "held" => session[w].link = "down"
    BY Zenon DEF MInv
  <1>c. NoEvents.inbox = 0 /\ NoEvents.at = "idle"
    BY Zenon DEF NoEvents
  <1>1. CASE AdoptStart(w)
    <2> DEFINE s == [session[w] EXCEPT !.at = "held"]
    <2>1. session' = [session EXCEPT ![w] = s] /\ pump' = [pump EXCEPT ![w] = pump[w]]
      BY <1>1, <1>a, Zenon DEF AdoptStart, IInv, WorkerTypes
    <2>2. s.at = "held" /\ s.link = session[w].link /\ session[w].at = "starting"
      BY <1>1, <1>a, Zenon DEF AdoptStart, SessionRecords
    <2> HIDE DEF s
    <2>3. ~Calm(s, pump[w])
      BY <1>b, <2>2 DEF Calm
    <2> QED BY <1>0, <2>1, <2>2, <2>3, WorkerMoves, Zenon
  <1>2. CASE LinkOpen(w)
    <2> DEFINE s == [session[w] EXCEPT !.link = "opening", !.passive = FALSE]
    <2>1. session' = [session EXCEPT ![w] = s] /\ pump' = [pump EXCEPT ![w] = pump[w]]
      BY <1>2, <1>a, Zenon DEF LinkOpen, IInv, WorkerTypes
    <2>2. s.at = "held" /\ s.link = "opening"
      BY <1>2, <1>a, Zenon DEF LinkOpen, SessionRecords
    <2> HIDE DEF s
    <2>3. ~Calm(s, pump[w])
      BY <2>2 DEF Calm
    <2> QED BY <1>0, <2>1, <2>2, <2>3, WorkerMoves, Zenon
  <1>3. CASE LinkReady(w)
    <2> DEFINE s == [session[w] EXCEPT !.link = "on", !.passive = FALSE, !.late = FALSE]
               p == [pump[w] EXCEPT !.inbox = pump[w].inbox + 1]
    <2>1. session' = [session EXCEPT ![w] = s] /\ pump' = [pump EXCEPT ![w] = p]
      BY <1>3, <1>a, Zenon DEF LinkReady, IInv, WorkerTypes
    <2>2. s.at = session[w].at /\ session[w].link = "opening" /\ p.inbox = pump[w].inbox + 1
      BY <1>3, <1>a, Zenon DEF LinkReady, SessionRecords, PumpRecords
    <2>3. s.at = "held"
      BY <1>b, <2>2
    <2> HIDE DEF s, p
    <2>4. ~Calm(s, p)
      <3>1. p.inbox # 0
        BY <1>a, <2>2
      <3> QED BY <1>c, <3>1, Zenon DEF Calm
    <2> QED BY <1>0, <2>1, <2>3, <2>4, WorkerMoves, Zenon
  <1>4. CASE LinkDown(w)
    <2> DEFINE s == [session[w] EXCEPT !.link = "down", !.passive = FALSE, !.late = FALSE]
    <2>1. session' = [session EXCEPT ![w] = s] /\ pump' = [pump EXCEPT ![w] = pump[w]]
      BY <1>4, <1>a, Zenon DEF LinkDown, IInv, WorkerTypes
    <2>2. s.link = "down"
      BY <1>a, Zenon DEF SessionRecords
    <2> HIDE DEF s
    <2>3. ~Calm(s, pump[w])
      BY <2>2 DEF Calm
    <2> QED BY <1>0, <2>1, <2>2, <2>3, WorkerMoves, Zenon
  <1>5. CASE ReapplyPassiveMode(w)
    <2> DEFINE at == IF stored THEN "push" ELSE "idle"
               p == [pump[w] EXCEPT !.inbox = pump[w].inbox - 1, !.at = at]
    <2>1. session' = [session EXCEPT ![w] = session[w]] /\ pump' = [pump EXCEPT ![w] = p]
      BY <1>5, <1>a, Zenon DEF ReapplyPassiveMode, IInv, WorkerTypes
    <2>2. p.at = at
      BY <1>a, Zenon DEF PumpRecords
    <2> HIDE DEF p
    <2>3. stored => ~Calm(session[w], p)
      BY <1>c, <2>2 DEF Calm
    <2> QED BY <1>0, <1>b, <2>1, <2>3, WorkerMoves, Zenon
  <1>6. CASE ReapplyPush(w)
    <2> DEFINE x == [session[w] EXCEPT !.passive = TRUE, !.late = TRUE # stored]
               p == [pump[w] EXCEPT !.at = "idle"]
    <2>1. pump' = [pump EXCEPT ![w] = p]
      BY <1>6, Zenon DEF ReapplyPush, IInv, WorkerTypes
    <2>2. [session EXCEPT ![w].passive = TRUE, ![w].late = TRUE # stored] = [session EXCEPT ![w] = x]
      BY Zenon DEF IInv, WorkerTypes
    <2>3. x.at = session[w].at /\ x.link = session[w].link /\ x.passive
      BY <1>a, Zenon DEF SessionRecords
    <2> HIDE DEF x, p
    <2>4. CASE session[w].link = "down"
      <3>1. session' = [session EXCEPT ![w] = session[w]]
        BY <1>6, <1>a, <2>4, Zenon DEF ReapplyPush
      <3>2. ~Calm(session[w], p)
        BY <2>4 DEF Calm
      <3> QED BY <1>0, <1>b, <2>1, <3>1, <3>2, WorkerMoves, Zenon
    <2>5. CASE session[w].link # "down"
      <3>1. session' = [session EXCEPT ![w] = x]
        BY <1>6, <2>2, <2>5, Zenon DEF ReapplyPush, Push
      <3> QED BY <1>0, <1>b, <2>1, <2>3, <3>1, WorkerMoves, Zenon
    <2> QED BY <2>4, <2>5, Zenon
  <1>7. CASE ReapplyFails(w)
    <2> DEFINE s == [session[w] EXCEPT !.late = TRUE]
               p == [pump[w] EXCEPT !.at = "idle"]
    <2>1. session' = [session EXCEPT ![w] = s] /\ pump' = [pump EXCEPT ![w] = p]
      BY <1>7, Zenon DEF ReapplyFails, IInv, WorkerTypes
    <2>2. s.at = session[w].at /\ s.link = session[w].link /\ s.late
      BY <1>a, Zenon DEF SessionRecords
    <2> HIDE DEF s, p
    <2>3. ~Calm(s, p)
      BY <2>2, Zenon DEF Calm
    <2> QED BY <1>0, <1>b, <2>1, <2>2, <2>3, WorkerMoves, Zenon
  <1>8. CASE ConnectedDropped(w)
    <2> DEFINE s == [session[w] EXCEPT !.link = "on", !.passive = FALSE, !.late = TRUE]
    <2>1. session' = [session EXCEPT ![w] = s] /\ pump' = [pump EXCEPT ![w] = pump[w]]
      BY <1>8, <1>a, Zenon DEF ConnectedDropped, IInv, WorkerTypes
    <2>2. s.at = session[w].at /\ session[w].link = "opening" /\ s.late
      BY <1>8, <1>a, Zenon DEF ConnectedDropped, SessionRecords
    <2>3. s.at = "held"
      BY <1>b, <2>2
    <2> HIDE DEF s
    <2>4. ~Calm(s, pump[w])
      BY <2>2, Zenon DEF Calm
    <2> QED BY <1>0, <2>1, <2>3, <2>4, WorkerMoves, Zenon
  <1> QED BY <1>1, <1>2, <1>3, <1>4, <1>5, <1>6, <1>7, <1>8, Zenon

\* A request past the fence, while the lease moves.
LEMMA ModalMoves ==
    ASSUME IInv, MInv, NEW c \in Calls, NEW v, NEW g \in Gens,
           g > generation[inst] \/ (g = generation[inst] /\ v \in {worker_id[inst], NoWorker})
    PROVE  Modal(c, calls[c], v, g)
  <1>1. Modal(c, calls[c], worker_id[inst], generation[inst])
    BY Zenon DEF MInv
  <1>2. calls[c].at \in Served => calls[c].owner.gen \in Nat
    <2>1. calls[c].at \in Served => calls[c].owner.gen \in Gens
      BY TheCall, Somebody, Zenon DEF Served, Routed
    <2> QED BY <2>1, MaxGenerationAssumption DEF Gens
  <1>3. generation[inst] \in Nat /\ g \in Nat
    BY Present DEF Gens
  <1>4. calls[c].at \in Served /\ Follows(calls[c].owner, worker_id[inst], generation[inst])
        => Follows(calls[c].owner, v, g)
    BY <1>2, <1>3 DEF Follows
  <1> QED BY <1>1, <1>4, Zenon DEF Modal

\* A session that is gone is not calm.
LEMMA Gone ==
    /\ NoSession.at # "held" /\ NoSession.link = "down"
    /\ \A p : ~Calm(NoSession, p)
  <1>1. NoSession.at = "none" /\ NoSession.link = "down"
    BY Zenon DEF NoSession
  <1> QED BY <1>1 DEF Calm

\* The lease: adoption starts with no connection, heartbeat and shutdown take one
\* down, and nobody else gets a lease from either.
LEMMA HolderMoves ==
    ASSUME IInv, MInv,
           \/ \E w \in Workers : AdoptAcquire(w) \/ HeartbeatOnce(w) \/ GracefulStop(w) \/ Shutdown(w) \/ ReleaseAll(w)
           \/ Time
    PROVE  MInv'
  <1>0. ASSUME UNCHANGED <<worker_id, generation, calls, stored, session, pump>>
        PROVE  MInv'
    BY <1>0, Zenon DEF MInv
  <1>1. ASSUME NEW w \in Workers, AdoptAcquire(w)
        PROVE  MInv'
    <2> DEFINE g == generation[inst] + 1
               s == [session[w] EXCEPT !.at = "starting", !.gen = g]
    <2>0. /\ Acquire(w, inst) /\ session[w].at = "none"
          /\ session' = [session EXCEPT ![w].at = "starting", ![w].gen = generation'[inst]]
          /\ UNCHANGED <<stored, pump, calls>>
      BY <1>1, Zenon DEF AdoptAcquire
    <2>1. generation'[inst] = g /\ g \in Gens /\ g > generation[inst] /\ worker_id'[inst] = w
      BY <2>0, RoutingAssumption, MaxGenerationAssumption, Present DEF Acquire, IInv, LeaseTypes, Gens
    <2>2. session'[w] = s /\ \A v \in Workers : v # w => session'[v] = session[v]
      BY <2>0, <2>1, Zenon DEF IInv, WorkerTypes
    <2>3. s.link = session[w].link
      BY WorkerFields, Zenon DEF SessionRecords
    <2> HIDE DEF s, g
    <2>4. s.link = "down"
      <3>1. session[w].at # "held"
        BY <2>0
      <3> QED BY <2>3, <3>1, Zenon DEF MInv
    <2>5. ASSUME NEW v \in Workers, session'[v].at # "held"
          PROVE  session'[v].link = "down"
      BY <2>2, <2>4, <2>5, Zenon DEF MInv
    <2>6. ASSUME NEW c \in Calls
          PROVE  Modal(c, calls'[c], worker_id'[inst], generation'[inst])
      <3>1. Modal(c, calls[c], w, g)
        BY <2>1, ModalMoves, Zenon
      <3> QED BY <2>0, <2>1, <3>1, Zenon
    <2>7. InForce(stored', calls', worker_id'[inst], generation'[inst], session', pump')
      <3>1. ~Calm(session'[w], pump'[w])
        BY <2>2, <2>4 DEF Calm
      <3> QED BY <2>1, <3>1, Zenon DEF InForce
    <2> QED BY <2>5, <2>6, <2>7, Zenon DEF MInv
  <1>2. ASSUME NEW w \in Workers, HeartbeatOnce(w) \/ GracefulStop(w) \/ Shutdown(w)
        PROVE  MInv'
    <2>1. /\ UNCHANGED <<worker_id, generation, calls, stored>>
          /\ Stop(w) \/ UNCHANGED <<session, pump>>
      BY <1>2, Zenon DEF HeartbeatOnce, GracefulStop, Shutdown, Heartbeat, leaseVars
    <2>2. CASE Stop(w)
      BY <2>1, <2>2, Gone, WorkerMoves, Zenon DEF Stop
    <2> QED BY <1>0, <2>1, <2>2, Zenon
  <1>3. ASSUME NEW w \in Workers, ReleaseAll(w)
        PROVE  MInv'
    <2>1. UNCHANGED <<stored, session, pump, calls, generation>>
      BY <1>3, Zenon DEF ReleaseAll, Release
    <2>2. worker_id'[inst] \in {worker_id[inst], NoWorker}
      BY <1>3, RoutingAssumption, SMTT(20) DEF ReleaseAll, Release
    <2>3. ASSUME NEW c \in Calls
          PROVE  Modal(c, calls[c], worker_id'[inst], generation[inst])
      BY <2>2, Present, ModalMoves, Zenon
    <2>4. InForce(stored, calls, worker_id'[inst], generation[inst], session, pump)
      BY <2>2, NoWorkerAssumption, Zenon DEF MInv, InForce
    <2> QED BY <2>1, <2>3, <2>4, Zenon DEF MInv
  <1>4. CASE Time
    BY <1>0, <1>4, Zenon DEF Time, Tick, routeVars
  <1> QED BY <1>1, <1>2, <1>3, <1>4, Zenon

\* A worker dies: the requests it served break off, and none becomes due by that.
LEMMA CrashMoves ==
    ASSUME IInv, MInv, NEW w \in Workers, Crash(w)
    PROVE  MInv'
  <1>0. /\ UNCHANGED <<worker_id, generation, stored>>
        /\ session' = [session EXCEPT ![w] = NoSession] /\ pump' = [pump EXCEPT ![w] = NoEvents]
    BY Zenon DEF Crash, Stop, leaseVars
  <1>1. ASSUME NEW c \in Calls
        PROVE  /\ Modal(c, calls'[c], worker_id[inst], generation[inst])
               /\ Due(calls'[c], generation[inst]) => Due(calls[c], generation[inst])
    <2>0. calls[c] \in CallRecords /\ Modal(c, calls[c], worker_id[inst], generation[inst])
      BY TheCall, Zenon DEF MInv
    <2>1. CASE ~(Serving(c) /\ Target(c) = w)
      BY <2>0, <2>1, Zenon DEF Crash
    <2>2. CASE Serving(c) /\ Target(c) = w
      <3> DEFINE r == calls[c]
                 s == [r EXCEPT !.at = "reply", !.code = "UNAVAILABLE", !.failed = TRUE]
      <3>1. calls'[c] = s
        BY <2>2, Zenon DEF Crash
      <3>2. s.at = "reply" /\ s.owner = r.owner /\ s.code = "UNAVAILABLE"
        BY <2>0, Zenon DEF CallRecords
      <3>3. r.at \in Served
        BY <2>2, Zenon DEF Serving, Served
      <3> HIDE DEF r, s
      <3>4. Modal(c, s, worker_id[inst], generation[inst])
        BY <2>0, <3>2, <3>3 DEF Modal, r
      <3>5. Due(s, generation[inst]) => Due(r, generation[inst])
        BY <3>2, <3>3 DEF Due
      <3> QED BY <3>1, <3>4, <3>5, Zenon DEF r
    <2> QED BY <2>1, <2>2, Zenon
  <1>2. session'[w] = NoSession /\ \A v \in Workers : v # w => session'[v] = session[v] /\ pump'[v] = pump[v]
    BY <1>0, Zenon DEF IInv, WorkerTypes
  <1>3. ASSUME NEW v \in Workers, session'[v].at # "held"
        PROVE  session'[v].link = "down"
    BY <1>2, <1>3, Gone, Zenon DEF MInv
  <1>4. InForce(stored, calls', worker_id[inst], generation[inst], session', pump')
    <2> SUFFICES ASSUME stored, \A c \in Setters : Due(calls'[c], generation[inst]),
                        NEW v \in Workers, worker_id[inst] = v, Calm(session'[v], pump'[v])
                 PROVE  session'[v].passive
      BY Zenon DEF InForce
    <2>1. v # w
      BY <1>2, Gone, Zenon
    <2>2. \A c \in Setters : Due(calls[c], generation[inst])
      BY <1>1, Zenon DEF Calls
    <2> QED BY <1>2, <2>1, <2>2, Zenon DEF MInv, InForce
  <1> QED BY <1>0, <1>1, <1>3, <1>4, Zenon DEF MInv

\* However many requests set it at a time, passive mode that is stored and was
\* answered "applied" is in force on the owner's connection once nothing is under
\* way and its last push is not late, however often the lease moved, workers died,
\* connections came and went and answers were lost (ApplySettings,
\* reapplyPassiveMode).
THEOREM PassiveStays == Spec => []PassiveInForce
<1>1. Init => MInv
  <2> SUFFICES ASSUME Init  PROVE  MInv
    OBVIOUS
  <2>1. \A w \in Workers : session[w].link = "down"
    BY Gone, Zenon DEF Init
  <2>2. ASSUME NEW c \in Calls
        PROVE  Modal(c, calls[c], worker_id[inst], generation[inst])
    <3>1. calls[c].at = "idle"
      BY IdleRecord, Zenon DEF Init
    <3> QED BY <3>1 DEF Modal, Served
  <2>3. ~stored
    BY Zenon DEF Init
  <2> QED BY <2>1, <2>2, <2>3, Zenon DEF MInv, InForce
<1>2. IInv /\ MInv /\ [Next]_vars => MInv'
  <2> SUFFICES ASSUME IInv, MInv, [Next]_vars  PROVE  MInv'
    OBVIOUS
  <2>1. ASSUME NEW c \in Calls, CallStep(c)
        PROVE  MInv'
    BY <2>1, ClientMoves, HandlerMoves, SetterBegins, PushMoves, Zenon DEF CallStep
  <2>2. ASSUME NEW w \in Workers, WorkerStep(w)
        PROVE  MInv'
    BY <2>2, ConnectionMoves, HolderMoves, CrashMoves, Zenon DEF WorkerStep
  <2>3. CASE CacheExpires \/ UNCHANGED vars
    BY <2>3, Zenon DEF CacheExpires, vars, routeVars, leaseVars, MInv
  <2> QED BY <2>1, <2>2, <2>3, HolderMoves, Zenon DEF Next
<1>3. MInv => PassiveInForce
  <2> SUFFICES ASSUME MInv, stored, NEW w \in Workers, Quiet(w)
               PROVE  session[w].passive
    BY Zenon DEF PassiveInForce
  <2> QED BY Zenon DEF MInv, InForce, Quiet, Rested, Calm, Due
<1> QED BY <1>1, <1>2, <1>3, Invariant, PTL DEF Spec
=============================================================================

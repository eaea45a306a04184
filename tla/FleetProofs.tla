----------------------------- MODULE FleetProofs -----------------------------
(***************************************************************************)
(* Proofs about SessionFleet, for any number of workers, instances and     *)
(* requests, any capacity, and heartbeats, drops and releases as late as   *)
(* they like.  The parts of the invariant are predicates of the variables  *)
(* they speak of, so that an operation of the supervisor is looked at once,*)
(* whichever goroutine performs it.                                        *)
(***************************************************************************)
EXTENDS SessionFleet, TLAPS

-----------------------------------------------------------------------------
(* The inductive invariant.                                                *)

Gens == 1..MaxGeneration
Inboxes == {q \in Seq(Events) : Len(q) <= InboxSize}
Pairs == Instances \X Gens
SessionRecords ==
    [gen : 0..MaxGeneration, sock : SockStates, dial : 0..2, at : {"loop", "stop"},
     inbox : Inboxes]
PumpRecords ==
    [w : Workers, i : Instances, gen : Gens, at : {"loop", "stop", "desired", "release"},
     inbox : Inboxes, sock : SockStates, orphan : BOOLEAN]
LoopRecords == [at : LoopStates, set : SUBSET Instances, cur : SUBSET Pairs]
SessionOps == {"connect", "disconnect", "settings"}
HandlerRecords ==
    [c : Calls, op : SessionOps \cap Commands, w : Workers, i : Instances, at : {"body", "stop", "wait"},
     gen : 0..MaxGeneration, cur : SUBSET Pairs]
CallStates == {"unmade", "intent", "desired", "call", "poll", "claim", "sent", "serving",
               "direct", "status", "stop", "resume", "done"}
CallRecords ==
    [op : Commands \cup {"none"}, is : SUBSET Instances, at : CallStates,
     owner : SUBSET (Workers \X Gens), back : {"call", "poll"}, retried : BOOLEAN]

\* A lease that has an owner has a generation.
LeasesOK(ds, wid, gen, age) ==
    /\ ds \in [Instances -> DesiredStates] /\ wid \in [Instances -> Workers \cup {NoWorker}]
    /\ gen \in [Instances -> 0..MaxGeneration] /\ age \in [Instances -> 0..(Expiry + 1)]
    /\ \A i \in Instances : wid[i] # NoWorker => gen[i] \in Gens

\* What is not in the map has neither socket, dialler nor pump.
SessionsOK(s) ==
    /\ s \in [Workers -> [Instances -> SessionRecords]]
    /\ \A w \in Workers, i \in Instances : s[w][i].gen = 0 => s[w][i] = NoSession

ClosingOK(c) == c \subseteq PumpRecords
LoopOK(l) == l \in [Workers -> LoopRecords]

\* A relink has read its generation before it stops the session.
HandlersOK(hs) ==
    /\ hs \subseteq HandlerRecords
    /\ \A h \in hs : h.op = "settings" /\ h.at # "body" => h.gen \in Gens

ChannelOK(ch) == ch \in [Workers -> SUBSET Instances]

\* Only a session command reaches the sessionclient.
ClientStates == {"intent", "call", "poll", "claim", "sent", "serving", "direct"}
CallsOK(cs) ==
    /\ cs \in [Calls -> CallRecords]
    /\ \A c \in Calls : cs[c].at \in ClientStates => cs[c].op \in SessionOps

Types ==
    /\ LeasesOK(desired_state, worker_id, generation, heartbeat_age) /\ RowTypeOK
    /\ proc \in [Workers -> ProcStates]
    /\ SessionsOK(sessions) /\ ClosingOK(closing) /\ LoopOK(loop) /\ LoopOK(drain)
    /\ HandlersOK(handlers) /\ ChannelOK(claims) /\ ChannelOK(stops)
    /\ scenario \in ScenarioRecords
    /\ tenant_status \in {"active", "suspended"} /\ CallsOK(calls)

\* Process w has the instance under generation g: in the map or on its way out...
Has(s, c, w, i, g) ==
    s[w][i].gen = g \/ \E p \in c : p.w = w /\ p.i = i /\ p.gen = g

\* ...or also in hand, in its runtime or in a command.
Works(s, c, l, hs, w, i, g) ==
    \/ Has(s, c, w, i, g)
    \/ <<i, g>> \in l[w].cur
    \/ \E h \in hs : h.w = w /\ h.i = i /\ h.gen = g

\* A generation has one process, and was granted.
Apart(s, c, l, hs, gen) ==
    \A i \in Instances, w \in Workers, g \in Gens : Works(s, c, l, hs, w, i, g) =>
        /\ g <= gen[i]
        /\ \A v \in Workers \ {w} : ~Works(s, c, l, hs, v, i, g)

IInv ==
    /\ Types
    /\ Apart(sessions, closing, loop, handlers, generation)
    /\ DrainedOwnsNothing

-----------------------------------------------------------------------------
(* What a step that acquires no lease does to each variable: it keeps its  *)
(* type, and the generations it has were those of the same process before. *)

W(w, i, g) == Works(sessions, closing, loop, handlers, w, i, g)

LeaseGood ==
    /\ LeasesOK(desired_state', worker_id', generation', heartbeat_age')
    /\ generation' = generation
    /\ \A i \in Instances : worker_id'[i] \in {NoWorker, worker_id[i]}
MapGood ==
    /\ SessionsOK(sessions')
    /\ \A w \in Workers, i \in Instances :
          sessions'[w][i].gen \in Gens => W(w, i, sessions'[w][i].gen)
PumpsGood == ClosingOK(closing') /\ \A p \in closing' : W(p.w, p.i, p.gen)
LoopGood ==
    /\ LoopOK(loop')
    /\ \A w \in Workers, i \in Instances, g \in Gens : <<i, g>> \in loop'[w].cur => W(w, i, g)
HandlersGood ==
    /\ HandlersOK(handlers')
    /\ \A h \in handlers' : h.gen \in Gens => W(h.w, h.i, h.gen)
ProcGood ==
    /\ proc' \in [Workers -> ProcStates]
    /\ \A w \in Workers : proc'[w] \in {"drained", "exited"} =>
          proc[w] \in {"drained", "exited"} \/ \A i \in Instances : worker_id'[i] # w
CallsGood == CallsOK(calls') /\ tenant_status' \in {"active", "suspended"}
ScenarioGood ==
    /\ scenario' \in ScenarioRecords
    /\ scenario'.relinks \in {scenario.relinks, scenario.relinks + 1}
RestGood == LoopOK(drain') /\ ChannelOK(claims') /\ ChannelOK(stops') /\ ScenarioGood

Good ==
    /\ LeaseGood /\ RowTypeOK' /\ MapGood /\ PumpsGood /\ LoopGood /\ HandlersGood
    /\ ProcGood /\ CallsGood /\ RestGood

\* No session is added to a map, and none is about to be that was not before.
MapCalm ==
    \A w \in Workers, i \in Instances : sessions'[w][i].gen \in {0, sessions[w][i].gen}
LoopCalm == \A w \in Workers : loop'[w].at = "starting" => loop[w].at = "starting"

\* Good is enough for the invariant.
LEMMA GoodKeeps ==
    ASSUME IInv, Good
    PROVE  IInv'
  <1>1. Types'
    BY Zenon DEF Good, LeaseGood, MapGood, PumpsGood, LoopGood, HandlersGood, ProcGood,
                 CallsGood, RestGood, ScenarioGood, Types
  <1>2. \A w \in Workers, i \in Instances, g \in Gens :
            Works(sessions', closing', loop', handlers', w, i, g) => W(w, i, g)
    BY Zenon DEF Good, MapGood, PumpsGood, LoopGood, HandlersGood, Works, Has
  <1>3. Apart(sessions', closing', loop', handlers', generation')
    BY <1>2, Zenon DEF IInv, Apart, W, Good, LeaseGood
  <1>4. DrainedOwnsNothing'
    BY NoWorkerAssumption, Zenon DEF IInv, DrainedOwnsNothing, Good, ProcGood, LeaseGood
  <1> QED BY <1>1, <1>3, <1>4, Zenon DEF IInv

\* What a step may take from the bounds of the behaviour.
LEMMA ScenarioFacts ==
    ASSUME Types
    PROVE  /\ scenario' = scenario => ScenarioGood
           /\ scenario.events > 0 /\ scenario' = [scenario EXCEPT !.events = @ - 1] => ScenarioGood
           /\ scenario.fails > 0 /\ scenario' = [scenario EXCEPT !.fails = @ - 1] => ScenarioGood
           /\ scenario.crashes > 0 /\ scenario' = [scenario EXCEPT !.crashes = @ - 1] => ScenarioGood
           /\ scenario.drains > 0 /\ scenario' = [scenario EXCEPT !.drains = @ - 1] => ScenarioGood
           /\ scenario' = [scenario EXCEPT !.relinks = @ + 1] =>
                  ScenarioGood /\ scenario'.relinks = scenario.relinks + 1
  <1>0. scenario \in ScenarioRecords
    BY Zenon DEF Types
  <1>1. scenario' = scenario => ScenarioGood
    BY <1>0, Zenon DEF ScenarioGood
  <1>2. scenario.events > 0 /\ scenario' = [scenario EXCEPT !.events = @ - 1] => ScenarioGood
    BY <1>0 DEF ScenarioGood, ScenarioRecords
  <1>3. scenario.fails > 0 /\ scenario' = [scenario EXCEPT !.fails = @ - 1] => ScenarioGood
    BY <1>0 DEF ScenarioGood, ScenarioRecords
  <1>4. scenario.crashes > 0 /\ scenario' = [scenario EXCEPT !.crashes = @ - 1] => ScenarioGood
    BY <1>0 DEF ScenarioGood, ScenarioRecords
  <1>5. scenario.drains > 0 /\ scenario' = [scenario EXCEPT !.drains = @ - 1] => ScenarioGood
    BY <1>0 DEF ScenarioGood, ScenarioRecords
  <1>6. scenario' = [scenario EXCEPT !.relinks = @ + 1] =>
            ScenarioGood /\ scenario'.relinks = scenario.relinks + 1
    BY <1>0 DEF ScenarioGood, ScenarioRecords
  <1> QED BY <1>1, <1>2, <1>3, <1>4, <1>5, <1>6, Zenon

\* What a step leaves alone is good.
LEMMA Still ==
    ASSUME Types
    PROVE  /\ UNCHANGED leaseVars => LeaseGood
           /\ UNCHANGED rowVars => RowTypeOK'
           /\ UNCHANGED sessions => MapGood /\ MapCalm
           /\ UNCHANGED closing => PumpsGood
           /\ UNCHANGED loop => LoopGood /\ LoopCalm
           /\ UNCHANGED handlers => HandlersGood
           /\ UNCHANGED proc => ProcGood
           /\ UNCHANGED <<tenant_status, calls>> => CallsGood
           /\ UNCHANGED <<drain, claims, stops, scenario>> => RestGood
  <1>1. UNCHANGED leaseVars => LeaseGood
    BY Zenon DEF Types, leaseVars, LeaseGood
  <1>2. UNCHANGED rowVars => RowTypeOK'
    BY Zenon DEF Types, rowVars, RowTypeOK
  <1>3. UNCHANGED sessions => MapGood /\ MapCalm
    BY Zenon DEF Types, MapGood, MapCalm, W, Works, Has
  <1>4. UNCHANGED closing => PumpsGood
    BY Zenon DEF Types, PumpsGood, W, Works, Has
  <1>5. UNCHANGED loop => LoopGood /\ LoopCalm
    BY Zenon DEF Types, LoopGood, LoopCalm, W, Works
  <1>6. UNCHANGED handlers => HandlersGood
    BY Zenon DEF Types, HandlersGood, W, Works
  <1>7. UNCHANGED proc => ProcGood
    BY Zenon DEF Types, ProcGood
  <1>8. UNCHANGED <<tenant_status, calls>> => CallsGood
    BY Zenon DEF Types, CallsGood
  <1>9. UNCHANGED <<drain, claims, stops, scenario>> => RestGood
    BY ScenarioFacts, Zenon DEF Types, RestGood
  <1> QED BY <1>1, <1>2, <1>3, <1>4, <1>5, <1>6, <1>7, <1>8, <1>9, Zenon

-----------------------------------------------------------------------------
(* The statements on the lease table and on the instances table.           *)

\* The statements that acquire no lease.
LEMMA LeaseStatements ==
    ASSUME Types
    PROVE  /\ \A i \in Instances : Ensure(i) => LeaseGood
           /\ \A is, d : SetDesired(is, d) /\ d \in {"running", "stopped"} => LeaseGood
           /\ \A w \in Workers : Heartbeat(w) => LeaseGood
           /\ \A w \in Workers : \A is : Release(w, is) => LeaseGood
           /\ \A w \in Workers : Release(w, Instances) =>
                 \A i \in Instances : worker_id'[i] # w
           /\ Tick => LeaseGood
  <1> USE ExpiryAssumption, MaxGenerationAssumption
  <1> USE DEF LeaseGood, LeasesOK
  <1>1. ASSUME NEW i \in Instances, Ensure(i)  PROVE  LeaseGood
    BY <1>1, Zenon DEF Ensure, Types, DesiredStates
  <1>2. ASSUME NEW is, NEW d \in {"running", "stopped"}, SetDesired(is, d)  PROVE  LeaseGood
    BY <1>2, Zenon DEF SetDesired, Types, DesiredStates
  <1>3. ASSUME NEW w \in Workers, Heartbeat(w)  PROVE  LeaseGood
    BY <1>3 DEF Heartbeat, Types
  <1>4. ASSUME NEW w \in Workers, NEW is, Release(w, is)  PROVE  LeaseGood
    BY <1>4 DEF Release, Types
  <1>5. ASSUME NEW w \in Workers, Release(w, Instances)
        PROVE  \A i \in Instances : worker_id'[i] # w
    BY <1>5, NoWorkerAssumption, Zenon DEF Release, Types
  <1>6. ASSUME Tick  PROVE  LeaseGood
    BY <1>6 DEF Tick, Stale, Types
  <1> QED BY <1>1, <1>2, <1>3, <1>4, <1>5, <1>6, Zenon

\* The statements of connection.sql.
LEMMA RowStatements ==
    ASSUME Types, NEW i \in Instances
    PROVE  /\ \A intent \in Intents, clear \in BOOLEAN :
                 SetConnectionIntent(i, intent, clear) => RowTypeOK'
           /\ \A s \in States : SetConnectionState(i, s) => RowTypeOK'
           /\ \A s \in States, r \in Reasons : RecordDisconnect(i, s, r) => RowTypeOK'
           /\ \A e \in Events : HandleRow(i, e) => RowTypeOK'
  <1> USE DEF RowTypeOK, Types
  <1>1. ASSUME NEW intent \in Intents, NEW clear \in BOOLEAN, SetConnectionIntent(i, intent, clear)
        PROVE  RowTypeOK'
    BY <1>1, Zenon DEF SetConnectionIntent, Reasons
  <1>2. ASSUME NEW s \in States, SetConnectionState(i, s)  PROVE  RowTypeOK'
    BY <1>2, Zenon DEF SetConnectionState
  <1>3. ASSUME NEW s \in States, NEW r \in Reasons, RecordDisconnect(i, s, r)  PROVE  RowTypeOK'
    BY <1>3, Zenon DEF RecordDisconnect
  <1>4. ASSUME NEW e \in Events, HandleRow(i, e)  PROVE  RowTypeOK'
    <2>1. "connected" \in States /\ StateAfter(e) \in States
      BY Zenon DEF States, StateAfter
    <2>2. e # "connected" => e \in Reasons
      BY Zenon DEF Events, Reasons
    <2> QED BY <1>2, <1>3, <1>4, <2>1, <2>2, Zenon DEF HandleRow
  <1> QED BY <1>1, <1>2, <1>3, <1>4, Zenon

-----------------------------------------------------------------------------
(* The operations of the supervisor.                                       *)

\* What the records hold.
LEMMA Fields ==
    ASSUME Types
    PROVE  /\ \A w \in Workers, i \in Instances :
                 /\ sessions[w][i] \in SessionRecords
                 /\ sessions[w][i].gen = 0 => sessions[w][i] = NoSession
                 /\ sessions[w][i].gen \in 0..MaxGeneration
                 /\ sessions[w][i].gen # 0 => sessions[w][i].gen \in Gens
           /\ \A p \in closing : p \in PumpRecords
           /\ \A p \in PumpRecords : p.w \in Workers /\ p.i \in Instances /\ p.gen \in Gens
           /\ \A w \in Workers : loop[w] \in LoopRecords /\ drain[w] \in LoopRecords
           /\ \A l \in LoopRecords : l.at \in LoopStates /\ l.set \subseteq Instances /\ l.cur \subseteq Pairs
           /\ \A h \in handlers : h \in HandlerRecords
           /\ \A h \in HandlerRecords :
                 /\ h.w \in Workers /\ h.i \in Instances /\ h.cur \subseteq Pairs
                 /\ h.op \in SessionOps \cap Commands
  <1>1. \A w \in Workers, i \in Instances :
            /\ sessions[w][i] \in SessionRecords
            /\ sessions[w][i].gen = 0 => sessions[w][i] = NoSession
    BY Zenon DEF Types, SessionsOK
  <1>2. \A r \in SessionRecords : r.gen \in 0..MaxGeneration
    BY Zenon DEF SessionRecords
  <1>3. \A n \in 0..MaxGeneration : n # 0 => n \in Gens
    BY MaxGenerationAssumption DEF Gens
  <1>4. /\ \A p \in closing : p \in PumpRecords
        /\ \A p \in PumpRecords : p.w \in Workers /\ p.i \in Instances /\ p.gen \in Gens
    BY Zenon DEF Types, ClosingOK, PumpRecords
  <1>5. /\ \A w \in Workers : loop[w] \in LoopRecords /\ drain[w] \in LoopRecords
        /\ \A l \in LoopRecords : l.at \in LoopStates /\ l.set \subseteq Instances /\ l.cur \subseteq Pairs
    BY Zenon DEF Types, LoopOK, LoopRecords
  <1>6. /\ \A h \in handlers : h \in HandlerRecords
        /\ \A h \in HandlerRecords :
              /\ h.w \in Workers /\ h.i \in Instances /\ h.cur \subseteq Pairs
              /\ h.op \in SessionOps \cap Commands
    BY Zenon DEF Types, HandlersOK, HandlerRecords
  <1> QED BY <1>1, <1>2, <1>3, <1>4, <1>5, <1>6, Zenon

\* A session that is not there is a session record.
LEMMA Nothing == NoSession \in SessionRecords /\ NoSession.gen = 0
  <1>1. <<>> \in Inboxes
    BY WorkerAssumption DEF Inboxes
  <1> QED BY <1>1, MaxGenerationAssumption DEF NoSession, SessionRecords, SockStates

\* A session with a dial pending, an event unread, a socket that is not closed
\* or a pump that is stopping is in the map.
LEMMA Something ==
    ASSUME Types, NEW w \in Workers, NEW i \in Instances,
           \/ sessions[w][i].dial > 0 \/ sessions[w][i].inbox # <<>>
           \/ sessions[w][i].at = "stop" \/ sessions[w][i].sock \in {"dialing", "open"}
    PROVE  sessions[w][i].gen # 0
  <1>1. /\ NoSession.dial = 0 /\ NoSession.inbox = <<>>
        /\ NoSession.at # "stop" /\ NoSession.sock \notin {"dialing", "open"}
    BY DEF NoSession
  <1>2. ~ (0 > 0)
    OBVIOUS
  <1>3. sessions[w][i] # NoSession
    BY <1>1, <1>2, Zenon
  <1> QED BY <1>3, Fields, Zenon

\* An entry of the map replaced by one of a generation the process works under.
LEMMA PutSession ==
    ASSUME Types, NEW w \in Workers, NEW i \in Instances, NEW r \in SessionRecords,
           sessions' = [sessions EXCEPT ![w][i] = r],
           r.gen = 0 => r = NoSession, r.gen \in Gens => W(w, i, r.gen)
    PROVE  /\ MapGood
           /\ r.gen \in {0, sessions[w][i].gen} => MapCalm
  <1>1. /\ sessions' \in [Workers -> [Instances -> SessionRecords]]
        /\ \A v \in Workers, j \in Instances :
              sessions'[v][j] = IF v = w /\ j = i THEN r ELSE sessions[v][j]
    BY Zenon DEF Types, SessionsOK
  <1>2. SessionsOK(sessions')
    BY <1>1, Fields, Zenon DEF SessionsOK
  <1>3. \A v \in Workers, j \in Instances :
            sessions'[v][j].gen \in Gens => W(v, j, sessions'[v][j].gen)
    BY <1>1, Zenon DEF W, Works, Has
  <1>4. r.gen \in {0, sessions[w][i].gen} => MapCalm
    BY <1>1, Zenon DEF MapCalm
  <1> QED BY <1>2, <1>3, <1>4, Zenon DEF MapGood

\* A session that is in the map changes in anything but its generation (reconnect,
\* the socket, the pump, Connect and Disconnect).
LEMMA TouchSession ==
    ASSUME Types, NEW w \in Workers, NEW i \in Instances, NEW r \in SessionRecords,
           sessions' = [sessions EXCEPT ![w][i] = r],
           r.gen = sessions[w][i].gen, sessions[w][i].gen # 0
    PROVE  MapGood /\ MapCalm
  <1>1. W(w, i, r.gen)
    BY Zenon DEF W, Works, Has
  <1> QED BY <1>1, PutSession, Zenon

\* A session that is in the map is there under a generation.
LEMMA HeldFacts ==
    ASSUME Types, NEW w \in Workers, NEW i \in Instances
    PROVE  i \in Held(w) <=> sessions[w][i].gen # 0
  <1>1. sessions[w][i].gen \in 0..MaxGeneration
    BY Fields, Zenon
  <1> QED BY <1>1, MaxGenerationAssumption DEF Held

\* What a session leaves behind when it is taken out of the map.
LEMMA LeavingFacts ==
    ASSUME Types, NEW w \in Workers, NEW i \in Instances, sessions[w][i].gen # 0
    PROVE  /\ Leaving(w, i) \in PumpRecords
           /\ Leaving(w, i).w = w /\ Leaving(w, i).i = i
           /\ Leaving(w, i).gen = sessions[w][i].gen
           /\ W(w, i, sessions[w][i].gen) /\ sessions[w][i].gen \in Gens
  <1>1. sessions[w][i] \in SessionRecords /\ sessions[w][i].gen \in Gens
    BY Fields, Zenon
  <1>2. /\ sessions[w][i].at \in {"loop", "stop", "desired", "release"}
        /\ sessions[w][i].inbox \in Inboxes
    BY <1>1, Zenon DEF SessionRecords
  <1>3. "closed" \in SockStates
    BY Zenon DEF SockStates
  <1>4. Leaving(w, i) \in PumpRecords
    BY <1>1, <1>2, <1>3, Zenon DEF Leaving, PumpRecords
  <1>5. W(w, i, sessions[w][i].gen)
    BY Zenon DEF W, Works, Has
  <1> QED BY <1>1, <1>4, <1>5, Zenon DEF Leaving

\* What a stop takes out of the map (stop, stopFromPump).
LEMMA Taken ==
    ASSUME Types, NEW w \in Workers, NEW i \in Instances
    PROVE  /\ \A p \in Unfinished({Leaving(w, j) : j \in {i} \cap Held(w)}) :
                 p \in PumpRecords /\ W(p.w, p.i, p.gen)
           /\ InMap(w, {i}) \subseteq Pairs
           /\ \A j \in Instances, g \in Gens : <<j, g>> \in InMap(w, {i}) => W(w, j, g)
  <1>1. \A p \in Unfinished({Leaving(w, j) : j \in {i} \cap Held(w)}) :
            p = Leaving(w, i) /\ sessions[w][i].gen # 0
    BY HeldFacts, Zenon DEF Unfinished
  <1>2. ASSUME NEW p \in Unfinished({Leaving(w, j) : j \in {i} \cap Held(w)})
        PROVE  p \in PumpRecords /\ W(p.w, p.i, p.gen)
    <2>1. p = Leaving(w, i) /\ sessions[w][i].gen # 0
      BY <1>1, Zenon
    <2>2. p \in PumpRecords /\ p.w = w /\ p.i = i /\ p.gen = sessions[w][i].gen
      BY <2>1, LeavingFacts, Zenon
    <2>3. W(w, i, sessions[w][i].gen)
      BY <2>1, LeavingFacts, Zenon
    <2> QED BY <2>2, <2>3, Zenon
  <1>3. \A x \in InMap(w, {i}) : x = <<i, sessions[w][i].gen>> /\ sessions[w][i].gen # 0
    BY HeldFacts, Zenon DEF InMap
  <1>4. InMap(w, {i}) \subseteq Pairs
    <2>1. sessions[w][i].gen # 0 => sessions[w][i].gen \in Gens
      BY LeavingFacts, Zenon
    <2> QED BY <1>3, <2>1 DEF Pairs
  <1>5. ASSUME NEW j \in Instances, NEW g \in Gens, <<j, g>> \in InMap(w, {i})  PROVE  W(w, j, g)
    <2>1. j = i /\ g = sessions[w][i].gen /\ sessions[w][i].gen # 0
      BY <1>3, <1>5, Zenon
    <2> QED BY <2>1, LeavingFacts, Zenon
  <1> QED BY <1>2, <1>4, <1>5, Zenon

\* What is on its way out, its process works under.
LEMMA PumpsWork ==
    ASSUME Types
    PROVE  \A p \in closing : p \in PumpRecords /\ W(p.w, p.i, p.gen)
  BY Zenon DEF Types, ClosingOK, W, Works, Has

\* stop: the session leaves the map and its pump may outlive it.
LEMMA StopFacts ==
    ASSUME Types, NEW w \in Workers, NEW i \in Instances
    PROVE  /\ sessions' = [sessions EXCEPT ![w][i] = NoSession] => MapGood /\ MapCalm
           /\ Stop(w, i) => MapGood /\ MapCalm /\ PumpsGood
  <1>1. sessions' = [sessions EXCEPT ![w][i] = NoSession] => MapGood /\ MapCalm
    <2>1. NoSession.gen \notin Gens
      BY Nothing DEF Gens
    <2> QED BY <2>1, Nothing, PutSession, Zenon
  <1>2. Stop(w, i) => PumpsGood
    BY PumpsWork, Taken, Zenon DEF Stop, PumpsGood, ClosingOK
  <1> QED BY <1>1, <1>2, Zenon DEF Stop

\* start, under a generation the process works under; what it overwrites lives on.
LEMMA StartFacts ==
    ASSUME Types, NEW w \in Workers, NEW i \in Instances, NEW g \in Gens, NEW d \in 0..1,
           W(w, i, g), Start(w, i, g, d)
    PROVE  MapGood /\ PumpsGood
  <1> DEFINE r == [NoSession EXCEPT !.gen = g,
                      !.dial = d + (IF connection_intent[i] = "active" THEN 1 ELSE 0)]
             o == [Leaving(w, i) EXCEPT !.orphan = TRUE,
                      !.sock = IF sessions[w][i].sock = "closed" /\ sessions[w][i].dial > 0
                               THEN "dialing" ELSE sessions[w][i].sock]
  <1>1. r \in SessionRecords /\ r.gen = g
    <2>1. d + (IF connection_intent[i] = "active" THEN 1 ELSE 0) \in 0..2
      OBVIOUS
    <2>2. g \in 0..MaxGeneration
      BY MaxGenerationAssumption DEF Gens
    <2> QED BY <2>1, <2>2, Nothing, Zenon DEF SessionRecords, NoSession
  <1>2. g # 0
    BY DEF Gens
  <1>3. MapGood
    <2>1. sessions' = [sessions EXCEPT ![w][i] = r]
      BY Zenon DEF Start
    <2> HIDE DEF r
    <2> QED BY <1>1, <1>2, <2>1, PutSession, Zenon
  <1>4. sessions[w][i].gen # 0 => /\ o \in PumpRecords
                                  /\ o.w = w /\ o.i = i /\ o.gen = sessions[w][i].gen
    <2> SUFFICES ASSUME sessions[w][i].gen # 0
                 PROVE  o \in PumpRecords /\ o.w = w /\ o.i = i /\ o.gen = sessions[w][i].gen
      OBVIOUS
    <2>1. sessions[w][i].sock \in SockStates /\ "dialing" \in SockStates
      BY Fields, Zenon DEF SessionRecords, SockStates
    <2>2. Leaving(w, i) \in PumpRecords /\ Leaving(w, i).w = w /\ Leaving(w, i).i = i
          /\ Leaving(w, i).gen = sessions[w][i].gen
      BY LeavingFacts, Zenon
    <2> QED BY <2>1, <2>2, Zenon DEF PumpRecords
  <1>5. \A p \in Overwritten(w, i) : p = o /\ sessions[w][i].gen # 0
    BY HeldFacts, Zenon DEF Overwritten
  <1> HIDE DEF o
  <1>6. \A p \in Overwritten(w, i) : p \in PumpRecords /\ W(p.w, p.i, p.gen)
    <2> TAKE p \in Overwritten(w, i)
    <2>1. p \in PumpRecords /\ p.w = w /\ p.i = i /\ p.gen = sessions[w][i].gen
      BY <1>4, <1>5, Zenon
    <2>2. W(w, i, sessions[w][i].gen)
      BY Zenon DEF W, Works, Has
    <2> QED BY <2>1, <2>2, Zenon
  <1>7. PumpsGood
    BY <1>6, PumpsWork, Zenon DEF Start, PumpsGood, ClosingOK
  <1> QED BY <1>3, <1>7, Zenon

\* A pump that is on its way out moves on, or returns.
LEMMA AdvanceFacts ==
    ASSUME Types, NEW p \in closing, NEW q \in PumpRecords,
           q.w = p.w, q.i = p.i, q.gen = p.gen, closing' \subseteq closing \cup {q}
    PROVE  PumpsGood
  <1>1. W(q.w, q.i, q.gen)
    BY PumpsWork, Zenon
  <1> QED BY <1>1, PumpsWork, Zenon DEF PumpsGood, ClosingOK

\* The runtime goes on with something the process works under in its hand.
LEMMA GotoFacts ==
    ASSUME Types, NEW w \in Workers, NEW at \in LoopStates, NEW set \in SUBSET Instances,
           NEW cur \in SUBSET Pairs, Goto(w, at, set, cur),
           \A i \in Instances, g \in Gens : <<i, g>> \in cur => W(w, i, g)
    PROVE  LoopGood /\ (at # "starting" => LoopCalm)
  <1> DEFINE l == IF set = {} /\ cur = {} THEN Idle ELSE [at |-> at, set |-> set, cur |-> cur]
  <1>1. l \in LoopRecords /\ l.cur = cur /\ (l.at = "starting" => at = "starting")
    <2>1. "select" \in LoopStates
      BY Zenon DEF LoopStates
    <2>2. CASE set = {} /\ cur = {}
      BY <2>1, <2>2, Zenon DEF LoopRecords, Idle
    <2>3. CASE ~(set = {} /\ cur = {})
      BY <2>3, Zenon DEF LoopRecords
    <2> QED BY <2>2, <2>3, Zenon
  <1>2. loop' = [loop EXCEPT ![w] = l]
    BY Zenon DEF Goto
  <1> HIDE DEF l
  <1>3. /\ loop' \in [Workers -> LoopRecords]
        /\ \A v \in Workers : loop'[v] = IF v = w THEN l ELSE loop[v]
    BY <1>1, <1>2, Zenon DEF Types, LoopOK
  <1>4. LoopGood
    <2>1. \A v \in Workers, i \in Instances, g \in Gens : <<i, g>> \in loop[v].cur => W(v, i, g)
      BY Zenon DEF W, Works
    <2>2. \A v \in Workers, i \in Instances, g \in Gens : <<i, g>> \in loop'[v].cur => W(v, i, g)
      <3> TAKE v \in Workers, i \in Instances, g \in Gens
      <3>1. CASE v = w
        BY <1>1, <1>3, <3>1, Zenon
      <3>2. CASE v # w
        BY <1>3, <2>1, <3>2, Zenon
      <3> QED BY <3>1, <3>2, Zenon
    <2> QED BY <1>3, <2>2, Zenon DEF LoopGood, LoopOK
  <1>5. at # "starting" => LoopCalm
    BY <1>1, <1>3, Zenon DEF LoopCalm
  <1> QED BY <1>4, <1>5, Zenon

\* A command moves on, or is answered.
LEMMA CommandFacts ==
    ASSUME Types, NEW h \in handlers
    PROVE  /\ Finish(h) => HandlersGood
           /\ \A g \in HandlerRecords :
                 /\ Step(h, g)
                 /\ g.op = "settings" /\ g.at # "body" => g.gen \in Gens
                 /\ g.gen \in Gens => W(g.w, g.i, g.gen)
                 => HandlersGood
  <1>1. \A x \in handlers : /\ x \in HandlerRecords /\ (x.gen \in Gens => W(x.w, x.i, x.gen))
                            /\ (x.op = "settings" /\ x.at # "body" => x.gen \in Gens)
    BY Zenon DEF Types, HandlersOK, W, Works
  <1> QED BY <1>1, Zenon DEF Finish, Step, HandlersGood, HandlersOK

-----------------------------------------------------------------------------
(* The socket and the pump.                                                *)

Calm == MapCalm /\ LoopCalm

\* Events come and go within the inbox.
LEMMA InboxFacts ==
    /\ \A q \in Inboxes, e \in Events : Buffered(q, e) \in Inboxes
    /\ \A q \in Inboxes : q # <<>> => Tail(q) \in Inboxes /\ Head(q) \in Events
  <1> USE WorkerAssumption
  <1>1. ASSUME NEW q \in Inboxes, NEW e \in Events  PROVE  Buffered(q, e) \in Inboxes
    BY <1>1 DEF Inboxes, Buffered
  <1>2. ASSUME NEW q \in Inboxes, q # <<>>
        PROVE  Tail(q) \in Inboxes /\ Head(q) \in Events
    BY <1>2 DEF Inboxes
  <1> QED BY <1>1, <1>2, Zenon

\* An event of the socket reaches the inbox of its session.
LEMMA EmitFacts ==
    ASSUME Types, NEW w \in Workers, NEW i \in Instances, NEW sock \in SockStates,
           NEW e \in Events, sessions[w][i].sock \in {"dialing", "open"}, Emit(w, i, sock, e)
    PROVE  MapGood /\ MapCalm
  <1> DEFINE r == [sessions[w][i] EXCEPT !.sock = sock, !.inbox = Buffered(@, e)]
  <1>1. sessions[w][i] \in SessionRecords /\ sessions[w][i].gen # 0
    BY Fields, Something, Zenon
  <1>2. r \in SessionRecords /\ r.gen = sessions[w][i].gen
    <2>1. sessions[w][i].inbox \in Inboxes
      BY <1>1, Zenon DEF SessionRecords
    <2>2. Buffered(sessions[w][i].inbox, e) \in Inboxes
      BY <2>1, InboxFacts, Zenon DEF Emit
    <2> QED BY <1>1, <2>2, Zenon DEF SessionRecords
  <1>3. sessions' = [sessions EXCEPT ![w][i] = r]
    BY Zenon DEF Emit, Types, SessionsOK, SessionRecords
  <1> HIDE DEF r
  <1> QED BY <1>1, <1>2, <1>3, TouchSession, Zenon

\* The events of the sockets.
LEMMA SocketStep ==
    ASSUME Types, SocketNext, UNCHANGED <<tenant_status, calls>>
    PROVE  Good /\ Calm
  <1>e. {"dialing", "open", "closed"} \subseteq SockStates
        /\ {"connected", "network", "temporary_ban", "connect_failure"} \subseteq Events
    BY Zenon DEF SockStates, Events, TransientReasons, PermanentReasons
  <1>1. ASSUME NEW w \in Workers, NEW i \in Instances, NEW sock \in SockStates, NEW e \in Events,
               sessions[w][i].sock \in {"dialing", "open"}, Emit(w, i, sock, e),
               ScenarioGood
        PROVE  Good /\ Calm
    <2>1. MapGood /\ MapCalm
      BY <1>1, EmitFacts, Zenon
    <2> QED BY <1>1, <2>1, Still, Zenon DEF Emit, Good, Calm, RestGood, Types
  <1>2. ASSUME NEW p \in closing, OverwrittenUp(p)  PROVE  Good /\ Calm
    <2> DEFINE q == [p EXCEPT !.sock = "open", !.inbox = Buffered(@, "connected")]
    <2>1. p \in PumpRecords
      BY Fields, Zenon
    <2>2. Buffered(p.inbox, "connected") \in Inboxes
      <3>1. p.inbox \in Inboxes
        BY <2>1, Zenon DEF PumpRecords
      <3> QED BY <1>2, <1>e, <3>1, InboxFacts, Zenon DEF OverwrittenUp
    <2>3. q \in PumpRecords /\ q.w = p.w /\ q.i = p.i /\ q.gen = p.gen
      BY <1>e, <2>1, <2>2, Zenon DEF PumpRecords
    <2>4. closing' \subseteq closing \cup {q}
      BY <1>2, Zenon DEF OverwrittenUp
    <2> HIDE DEF q
    <2>5. PumpsGood
      BY <2>3, <2>4, AdvanceFacts, Zenon
    <2> QED BY <1>2, <2>5, Still, Zenon DEF OverwrittenUp, Good, Calm
  <1>3. ASSUME NEW w \in Workers, NEW i \in Instances, SocketUp(w, i)  PROVE  Good /\ Calm
    BY <1>1, <1>3, <1>e, ScenarioFacts, Zenon DEF SocketUp
  <1>4. ASSUME NEW w \in Workers, NEW i \in Instances, SocketLost(w, i)  PROVE  Good /\ Calm
    BY <1>1, <1>4, <1>e, ScenarioFacts, Zenon DEF SocketLost
  <1>5. ASSUME NEW w \in Workers, NEW i \in Instances,
               NEW reason \in {"temporary_ban", "connect_failure"}, SocketRefused(w, i, reason)
        PROVE  Good /\ Calm
    BY <1>1, <1>5, <1>e, ScenarioFacts, Zenon DEF SocketRefused
  <1> QED BY <1>2, <1>3, <1>4, <1>5, Zenon DEF SocketNext

\* The reconnect goroutine and the pump of a session that is in the map.
LEMMA PumpStep ==
    ASSUME Types, NEW w \in Workers, NEW i \in Instances,
           Reconnect(w, i) \/ PumpHandle(w, i) \/ PumpStop(w, i),
           UNCHANGED <<tenant_status, calls>>
    PROVE  Good /\ Calm
  <1>a. sessions[w][i] \in SessionRecords
    BY Fields, Zenon
  <1>1. CASE Reconnect(w, i)
    <2> DEFINE r == [sessions[w][i] EXCEPT !.dial = @ - 1,
                                           !.sock = IF @ = "closed" THEN "dialing" ELSE @]
    <2>1. sessions[w][i].gen # 0
      BY <1>1, Something, Zenon DEF Reconnect
    <2>2. r \in SessionRecords /\ r.gen = sessions[w][i].gen
      <3>1. /\ sessions[w][i].dial \in 0..2 /\ sessions[w][i].dial > 0
            /\ sessions[w][i].sock \in SockStates
        BY <1>1, <1>a, Zenon DEF Reconnect, SessionRecords
      <3>2. /\ sessions[w][i].dial - 1 \in 0..2
            /\ (IF sessions[w][i].sock = "closed" THEN "dialing" ELSE sessions[w][i].sock) \in SockStates
        BY <3>1 DEF SockStates
      <3> QED BY <1>a, <3>2, Zenon DEF SessionRecords
    <2>3. sessions' = [sessions EXCEPT ![w][i] = r]
      BY <1>1, Zenon DEF Reconnect, Types, SessionsOK, SessionRecords
    <2> HIDE DEF r
    <2>4. MapGood /\ MapCalm
      BY <2>1, <2>2, <2>3, TouchSession, Zenon
    <2>5. RowTypeOK'
      <3>1. "connecting" \in States
        BY Zenon DEF States
      <3> QED BY <1>1, <3>1, RowStatements, Zenon DEF Reconnect
    <2> QED BY <1>1, <2>4, <2>5, Still, Zenon DEF Reconnect, Good, Calm
  <1>2. CASE PumpHandle(w, i)
    <2> DEFINE e == Head(sessions[w][i].inbox)
               r == [sessions[w][i] EXCEPT !.inbox = Tail(@), !.at = AfterRow(e)]
    <2>1. sessions[w][i].gen # 0
      BY <1>2, Something, Zenon DEF PumpHandle
    <2>2. e \in Events /\ Tail(sessions[w][i].inbox) \in Inboxes
      <3>1. sessions[w][i].inbox \in Inboxes
        BY <1>a, Zenon DEF SessionRecords
      <3> QED BY <1>2, <3>1, InboxFacts, Zenon DEF PumpHandle
    <2>3. r \in SessionRecords /\ r.gen = sessions[w][i].gen
      <3>1. AfterRow(e) \in {"loop", "stop"}
        BY Zenon DEF AfterRow
      <3> QED BY <1>a, <2>2, <3>1, Zenon DEF SessionRecords
    <2>4. sessions' = [sessions EXCEPT ![w][i] = r]
      BY <1>2, Zenon DEF PumpHandle, Types, SessionsOK, SessionRecords
    <2>5. RowTypeOK'
      BY <1>2, <2>2, RowStatements, Zenon DEF PumpHandle
    <2> HIDE DEF r
    <2>6. MapGood /\ MapCalm
      BY <2>1, <2>3, <2>4, TouchSession, Zenon
    <2> QED BY <1>2, <2>5, <2>6, Still, Zenon DEF PumpHandle, Good, Calm
  <1>3. CASE PumpStop(w, i)
    <2> DEFINE q == [Leaving(w, i) EXCEPT !.at = "desired"]
    <2>1. sessions[w][i].gen # 0
      BY <1>3, Something, Zenon DEF PumpStop
    <2>2. MapGood /\ MapCalm
      BY <1>3, StopFacts, Zenon DEF PumpStop
    <2>3. q \in PumpRecords /\ q.w = w /\ q.i = i /\ q.gen = sessions[w][i].gen
      <3>1. /\ Leaving(w, i) \in PumpRecords /\ Leaving(w, i).w = w /\ Leaving(w, i).i = i
            /\ Leaving(w, i).gen = sessions[w][i].gen
        BY <2>1, LeavingFacts, Zenon
      <3> QED BY <3>1, Zenon DEF PumpRecords
    <2>4. closing' = closing \cup {q}
      BY <1>3, Zenon DEF PumpStop
    <2> HIDE DEF q
    <2>5. W(q.w, q.i, q.gen)
      <3>1. W(w, i, sessions[w][i].gen)
        BY <2>1, LeavingFacts, Zenon
      <3> QED BY <2>3, <3>1, Zenon
    <2>6. PumpsGood
      BY <2>3, <2>4, <2>5, PumpsWork, Zenon DEF PumpsGood, ClosingOK
    <2> QED BY <1>3, <2>2, <2>6, Still, Zenon DEF PumpStop, Good, Calm
  <1> QED BY <1>1, <1>2, <1>3, Zenon

\* The pump of a session that is out of the map.
LEMMA ClosingPumpStep ==
    ASSUME Types, NEW p \in closing,
           \/ ClosingHandle(p) \/ ClosingReturn(p) \/ ClosingStop(p)
           \/ ClosingDesired(p) \/ ClosingRelease(p),
           UNCHANGED <<tenant_status, calls>>
    PROVE  Good /\ Calm
  <1>a. p \in PumpRecords /\ p.w \in Workers /\ p.i \in Instances
    BY Fields, Zenon
  <1>b. \A at \in {"loop", "stop", "desired", "release"} :
            /\ [p EXCEPT !.at = at] \in PumpRecords /\ [p EXCEPT !.at = at].w = p.w
            /\ [p EXCEPT !.at = at].i = p.i /\ [p EXCEPT !.at = at].gen = p.gen
    BY <1>a, Zenon DEF PumpRecords
  <1>c. \A q : Advance(p, q) => closing' \subseteq closing \cup {q}
    BY Zenon DEF Advance, Unfinished
  <1>1. CASE ClosingHandle(p)
    <2> DEFINE e == Head(p.inbox)
               q == [p EXCEPT !.inbox = Tail(@), !.at = AfterRow(e)]
    <2>1. e \in Events /\ Tail(p.inbox) \in Inboxes
      <3>1. p.inbox \in Inboxes
        BY <1>a, Zenon DEF PumpRecords
      <3> QED BY <1>1, <3>1, InboxFacts, Zenon DEF ClosingHandle
    <2>2. q \in PumpRecords /\ q.w = p.w /\ q.i = p.i /\ q.gen = p.gen
      <3>1. AfterRow(e) \in {"loop", "stop", "desired", "release"}
        BY Zenon DEF AfterRow
      <3> QED BY <1>a, <2>1, <3>1, Zenon DEF PumpRecords
    <2>3. RowTypeOK'
      BY <1>1, <1>a, <2>1, RowStatements, Zenon DEF ClosingHandle
    <2>4. closing' \subseteq closing \cup {q}
      BY <1>1, <1>c, Zenon DEF ClosingHandle
    <2> HIDE DEF q
    <2>5. PumpsGood
      BY <2>2, <2>4, AdvanceFacts, Zenon
    <2> QED BY <1>1, <2>3, <2>5, Still, Zenon DEF ClosingHandle, Good, Calm
  <1>2. CASE ClosingReturn(p)
    <2>1. PumpsGood
      BY <1>2, PumpsWork, Zenon DEF ClosingReturn, PumpsGood, ClosingOK
    <2> QED BY <1>2, <2>1, Still, Zenon DEF ClosingReturn, Good, Calm
  <1>3. CASE ClosingStop(p)
    <2>1. MapGood /\ MapCalm
      BY <1>3, <1>a, StopFacts, Zenon DEF ClosingStop
    <2>2. \A x \in Unfinished({Leaving(p.w, j) : j \in {p.i} \cap Held(p.w)}) :
              x \in PumpRecords /\ W(x.w, x.i, x.gen)
      BY <1>a, Taken, Zenon
    <2>3. /\ [p EXCEPT !.at = "desired"] \in PumpRecords
          /\ W([p EXCEPT !.at = "desired"].w, [p EXCEPT !.at = "desired"].i,
               [p EXCEPT !.at = "desired"].gen)
      BY <1>b, PumpsWork, Zenon
    <2>4. PumpsGood
      BY <1>3, <2>2, <2>3, PumpsWork, Zenon DEF ClosingStop, PumpsGood, ClosingOK
    <2> QED BY <1>3, <2>1, <2>4, Still, Zenon DEF ClosingStop, Good, Calm
  <1>4. CASE ClosingDesired(p)
    <2>1. PumpsGood
      BY <1>4, <1>b, <1>c, AdvanceFacts, Zenon DEF ClosingDesired
    <2>2. LeaseGood
      BY <1>4, LeaseStatements, Zenon DEF ClosingDesired
    <2> QED BY <1>4, <2>1, <2>2, Still, Zenon DEF ClosingDesired, Good, Calm
  <1>5. CASE ClosingRelease(p)
    <2>1. PumpsGood
      BY <1>5, <1>b, <1>c, AdvanceFacts, Zenon DEF ClosingRelease
    <2>2. LeaseGood
      BY <1>5, <1>a, LeaseStatements, Zenon DEF ClosingRelease
    <2> QED BY <1>5, <2>1, <2>2, Still, Zenon DEF ClosingRelease, Good, Calm
  <1> QED BY <1>1, <1>2, <1>3, <1>4, <1>5, Zenon

-----------------------------------------------------------------------------
(* The runtime.                                                            *)

\* The runtime goes on with nothing in its hand.
LEMMA EmptyHanded ==
    ASSUME Types, NEW w \in Workers, NEW at \in LoopStates \ {"starting"},
           NEW set \in SUBSET Instances, Goto(w, at, set, {})
    PROVE  LoopGood /\ LoopCalm
  <1>1. /\ {} \in SUBSET Pairs /\ at \in LoopStates /\ at # "starting"
        /\ \A i \in Instances, g \in Gens : <<i, g>> \in {} => W(w, i, g)
    BY Zenon
  <1> QED BY <1>1, GotoFacts, Zenon

\* What the runtime does between two selects, an adoption apart.
LEMMA RuntimeCalm ==
    ASSUME Types, NEW w \in Workers,
           \/ HeartbeatOnce(w) \/ ReconcileOnce(w) \/ GiveBack(w) \/ StopTeardown(w)
           \/ StopRelease(w) \/ DropsDone(w)
           \/ \E i \in Instances : Drop(w, i) \/ AdoptNothing(w, i) \/ Claim(w, i) \/ StopRequest(w, i),
           UNCHANGED <<tenant_status, calls>>
    PROVE  Good /\ Calm
  <1>a. LoopStates = {"select", "dropping", "adopting", "starting", "giveback", "stopping", "stopped"}
    BY Zenon DEF LoopStates
  <1>b. loop[w].set \subseteq Instances /\ loop[w].cur \subseteq Pairs
    BY Fields, Zenon
  <1>1. CASE HeartbeatOnce(w)
    <2>1. LoopGood /\ LoopCalm
      BY <1>1, <1>a, EmptyHanded, Zenon DEF HeartbeatOnce, Held
    <2>2. LeaseGood
      BY <1>1, LeaseStatements, Zenon DEF HeartbeatOnce
    <2> QED BY <1>1, <2>1, <2>2, Still, Zenon DEF HeartbeatOnce, Good, Calm
  <1>2. CASE ReconcileOnce(w)
    <2>1. LoopGood /\ LoopCalm
      BY <1>2, <1>a, EmptyHanded, Zenon DEF ReconcileOnce, Adoptable
    <2> QED BY <1>2, <2>1, Still, Zenon DEF ReconcileOnce, Good, Calm
  <1>3. CASE GiveBack(w)
    <2>1. LoopGood /\ LoopCalm
      BY <1>3, <1>a, <1>b, EmptyHanded, Zenon DEF GiveBack
    <2>2. LeaseGood
      BY <1>3, LeaseStatements, Zenon DEF GiveBack
    <2> QED BY <1>3, <2>1, <2>2, Still, Zenon DEF GiveBack, Good, Calm
  <1>4. CASE StopTeardown(w)
    <2> PICK i \in loop[w].set : Stop(w, i) /\ Goto(w, "stopped", {i}, InMap(w, {i}))
      BY <1>4, Zenon DEF StopTeardown
    <2>1. i \in Instances
      BY <1>b, Zenon
    <2>2. MapGood /\ MapCalm /\ PumpsGood
      BY <2>1, StopFacts, Zenon
    <2>3. LoopGood /\ LoopCalm
      BY <1>a, <2>1, Taken, GotoFacts, Zenon
    <2> QED BY <1>4, <2>2, <2>3, Still, Zenon DEF StopTeardown, Good, Calm
  <1>5. CASE StopRelease(w)
    <2>1. LoopGood /\ LoopCalm
      <3>1. Goto(w, "select", {}, {}) /\ {} \in SUBSET Instances
        BY <1>5, Zenon DEF StopRelease
      <3> QED BY <1>a, <3>1, EmptyHanded, Zenon
    <2>2. LeaseGood
      BY <1>5, LeaseStatements, Zenon DEF StopRelease
    <2> QED BY <1>5, <2>1, <2>2, Still, Zenon DEF StopRelease, Good, Calm
  <1>6. CASE DropsDone(w)
    <2>1. LoopGood /\ LoopCalm
      BY <1>6, <1>a, EmptyHanded, Zenon DEF DropsDone
    <2> QED BY <1>6, <2>1, Still, Zenon DEF DropsDone, Good, Calm
  <1>7. ASSUME NEW i \in Instances, Drop(w, i)  PROVE  Good /\ Calm
    <2>1. MapGood /\ MapCalm /\ PumpsGood
      BY <1>7, StopFacts, Zenon DEF Drop
    <2>2. LoopGood /\ LoopCalm
      <3>1. loop[w].set \ {i} \in SUBSET Instances
        BY <1>b, Zenon
      <3> QED BY <1>7, <1>a, <3>1, Taken, GotoFacts, Zenon DEF Drop
    <2> QED BY <1>7, <2>1, <2>2, Still, Zenon DEF Drop, Good, Calm
  <1>8. ASSUME NEW i \in Instances, AdoptNothing(w, i)  PROVE  Good /\ Calm
    <2>1. LoopGood /\ LoopCalm
      <3>1. (IF HasCapacity(w) THEN loop[w].set \ {i} ELSE {}) \in SUBSET Instances
        BY <1>b, Zenon
      <3> QED BY <1>8, <1>a, <3>1, EmptyHanded, Zenon DEF AdoptNothing
    <2> QED BY <1>8, <2>1, Still, Zenon DEF AdoptNothing, Good, Calm
  <1>9. ASSUME NEW i \in Instances, Claim(w, i)  PROVE  Good /\ Calm
    <2>1. LoopGood /\ LoopCalm
      <3>1. (IF HasCapacity(w) THEN {i} ELSE {}) \in SUBSET Instances
        OBVIOUS
      <3> QED BY <1>9, <1>a, <3>1, EmptyHanded, Zenon DEF Claim
    <2>2. ChannelOK(claims')
      BY <1>9, Zenon DEF Claim, Types, ChannelOK
    <2>3. RestGood
      BY <1>9, <2>2, ScenarioFacts, Zenon DEF Claim, RestGood, Types
    <2> QED BY <1>9, <2>1, <2>3, Still, Zenon DEF Claim, Good, Calm
  <1>10. ASSUME NEW i \in Instances, StopRequest(w, i)  PROVE  Good /\ Calm
    <2>1. ChannelOK(stops')
      BY <1>10, Zenon DEF StopRequest, Types, ChannelOK
    <2>2. RestGood
      BY <1>10, <2>1, ScenarioFacts, Zenon DEF StopRequest, RestGood, Types
    <2>3. CASE i \notin Held(w) /\ UNCHANGED <<rowVars, sessions, loop>>
      BY <1>10, <2>2, <2>3, Still, Zenon DEF StopRequest, Good, Calm
    <2>4. CASE /\ i \in Held(w)
               /\ sessions' = [sessions EXCEPT ![w][i].sock = "closed"]
               /\ RecordDisconnect(i, "disconnected", "tenant_suspended")
               /\ Goto(w, "stopping", {i}, {})
      <3> DEFINE r == [sessions[w][i] EXCEPT !.sock = "closed"]
      <3>1. sessions[w][i].gen # 0 /\ sessions[w][i] \in SessionRecords
        BY <2>4, HeldFacts, Fields, Zenon
      <3>2. r \in SessionRecords /\ r.gen = sessions[w][i].gen
        BY <3>1, Zenon DEF SessionRecords, SockStates
      <3>3. sessions' = [sessions EXCEPT ![w][i] = r]
        BY <2>4, Zenon DEF Types, SessionsOK, SessionRecords
      <3> HIDE DEF r
      <3>4. MapGood /\ MapCalm
        BY <3>1, <3>2, <3>3, TouchSession, Zenon
      <3>5. RowTypeOK'
        <4>1. "disconnected" \in States /\ "tenant_suspended" \in Reasons
          BY Zenon DEF States, Reasons, PermanentReasons
        <4> QED BY <2>4, <4>1, RowStatements, Zenon
      <3>6. LoopGood /\ LoopCalm
        BY <1>a, <2>4, EmptyHanded, Zenon
      <3> QED BY <1>10, <2>2, <3>4, <3>5, <3>6, Still, Zenon DEF StopRequest, Good, Calm
    <2> QED BY <1>10, <2>3, <2>4, Zenon DEF StopRequest
  <1> QED BY <1>1, <1>2, <1>3, <1>4, <1>5, <1>6, <1>7, <1>8, <1>9, <1>10, Zenon

\* start after an acquisition: what was in hand is now in the map, or is to be
\* given back.
LEMMA AdoptStartStep ==
    ASSUME Types, NEW w \in Workers, AdoptStart(w), UNCHANGED <<tenant_status, calls>>
    PROVE  /\ Good
           /\ \/ Calm
              \/ /\ loop[w].at = "starting" /\ LoopCalm /\ loop'[w].at # "starting"
                 /\ \E i \in Instances : /\ Held(w)' \subseteq Held(w) \cup {i}
                                         /\ \A v \in Workers \ {w} : Held(v)' \subseteq Held(v)
  <1>a. LoopStates = {"select", "dropping", "adopting", "starting", "giveback", "stopping", "stopped"}
    BY Zenon DEF LoopStates
  <1>b. loop[w].set \subseteq Instances /\ loop[w].cur \subseteq Pairs
    BY Fields, Zenon
  <1>c. \A i \in Instances, g \in Gens : <<i, g>> \in loop[w].cur => W(w, i, g)
    BY Zenon DEF W, Works
  <1>1. PICK c \in loop[w].cur :
           \/ Start(w, c[1], c[2], 0) /\ Goto(w, "adopting", loop[w].set, {}) /\ UNCHANGED scenario
           \/ StartFails /\ Goto(w, "giveback", loop[w].set, loop[w].cur)
    BY Zenon DEF AdoptStart
  <1>2. /\ c[1] \in Instances /\ c[2] \in Gens /\ c = <<c[1], c[2]>>
    BY <1>b DEF Pairs
  <1>3. CASE Start(w, c[1], c[2], 0) /\ Goto(w, "adopting", loop[w].set, {}) /\ UNCHANGED scenario
    <2>1. W(w, c[1], c[2])
      BY <1>c, <1>2, Zenon
    <2>2. MapGood /\ PumpsGood
      <3>1. 0 \in 0..1
        OBVIOUS
      <3> QED BY <1>2, <1>3, <2>1, <3>1, StartFacts, Zenon
    <2>3. LoopGood /\ LoopCalm
      BY <1>3, <1>a, <1>b, EmptyHanded, Zenon
    <2>4. Good
      BY <1>3, <2>2, <2>3, Still, Zenon DEF AdoptStart, Good
    <2>5. loop'[w].at # "starting"
      BY <1>3, Zenon DEF Goto, Idle, Types, LoopOK
    <2>6. \A v \in Workers, j \in Instances :
              ~(v = w /\ j = c[1]) => sessions'[v][j] = sessions[v][j]
      BY <1>3, Zenon DEF Start, Types, SessionsOK
    <2>7. /\ Held(w)' \subseteq Held(w) \cup {c[1]}
          /\ \A v \in Workers \ {w} : Held(v)' \subseteq Held(v)
      BY <2>6, Zenon DEF Held
    <2> QED BY <1>2, <2>3, <2>4, <2>5, <2>7, Zenon DEF AdoptStart
  <1>4. CASE StartFails /\ Goto(w, "giveback", loop[w].set, loop[w].cur)
    <2>1. LoopGood /\ LoopCalm
      BY <1>4, <1>a, <1>b, <1>c, GotoFacts, Zenon
    <2>2. ScenarioGood
      BY <1>4, ScenarioFacts, Zenon DEF StartFails
    <2>3. RestGood
      BY <2>2, Zenon DEF AdoptStart, RestGood, Types
    <2> QED BY <1>4, <2>1, <2>3, Still, Zenon DEF AdoptStart, StartFails, Good, Calm
  <1> QED BY <1>1, <1>3, <1>4, Zenon

\* An acquisition: the generation it brings is one nobody has worked under.
LEMMA AdoptStep ==
    ASSUME IInv, NEW w \in Workers, NEW i \in Instances, Adopt(w, i),
           UNCHANGED <<tenant_status, calls>>
    PROVE  IInv'
  <1> DEFINE g == generation[i] + 1
  <1>0. Types
    BY Zenon DEF IInv
  <1>1. /\ g \in Gens /\ generation[i] \in Nat /\ generation' = [generation EXCEPT ![i] = g]
        /\ worker_id' = [worker_id EXCEPT ![i] = w]
        /\ desired_state' = desired_state /\ heartbeat_age' = [heartbeat_age EXCEPT ![i] = 0]
    BY <1>0, MaxGenerationAssumption DEF Adopt, Acquire, Types, LeasesOK, Gens
  <1>2. LeasesOK(desired_state', worker_id', generation', heartbeat_age')
    <2>1. g \in 0..MaxGeneration /\ 0 \in 0..(Expiry + 1)
      BY <1>1, MaxGenerationAssumption, ExpiryAssumption DEF Gens
    <2> HIDE DEF g
    <2> QED BY <1>0, <1>1, <2>1, Zenon DEF Types, LeasesOK
  <1>3. /\ LoopOK(loop')
        /\ \A v \in Workers : loop'[v].cur = IF v = w THEN {<<i, g>>} ELSE loop[v].cur
    <2> DEFINE l == [at |-> "starting", set |-> loop[w].set \ {i}, cur |-> {<<i, g>>}]
    <2>1. loop' = [loop EXCEPT ![w] = l]
      BY Zenon DEF Adopt, Goto
    <2>2. "starting" \in LoopStates /\ loop[w].set \ {i} \in SUBSET Instances
          /\ {<<i, g>>} \in SUBSET Pairs
      <3>1. loop[w].set \subseteq Instances
        BY <1>0, Fields, Zenon
      <3>2. "starting" \in LoopStates
        BY Zenon DEF LoopStates
      <3> HIDE DEF g
      <3> QED BY <1>1, <3>1, <3>2 DEF Pairs
    <2>3. l \in LoopRecords /\ l.cur = {<<i, g>>}
      BY <2>2, Zenon DEF LoopRecords
    <2> HIDE DEF l, g
    <2> QED BY <1>0, <2>1, <2>3, Zenon DEF Types, LoopOK
  <1>4. Types'
    BY <1>0, <1>2, <1>3, Zenon DEF Types, Adopt, RowTypeOK, rowVars
  <1>5. \A v \in Workers, j \in Instances, h \in Gens :
            Works(sessions', closing', loop', handlers', v, j, h) =>
                W(v, j, h) \/ (v = w /\ j = i /\ h = g)
    <2>1. \A v \in Workers, j \in Instances, h \in Gens : <<j, h>> \in loop'[v].cur =>
              <<j, h>> \in loop[v].cur \/ (v = w /\ j = i /\ h = g)
      <3> HIDE DEF g
      <3> QED BY <1>3
    <2> HIDE DEF g
    <2> QED BY <2>1, Zenon DEF Adopt, W, Works, Has
  <1>6. \A j \in Instances, h \in Gens :
            /\ generation'[j] = IF j = i THEN g ELSE generation[j]
            /\ h <= generation[j] => h <= generation'[j] /\ (j = i => h # g)
    BY <1>0, <1>1, MaxGenerationAssumption DEF Types, LeasesOK, Gens
  <1>7. Apart(sessions', closing', loop', handlers', generation')
    <2>1. g <= g
      BY <1>1
    <2> HIDE DEF g
    <2>2. \A j \in Instances, v \in Workers, h \in Gens : W(v, j, h) =>
              /\ h <= generation[j] /\ \A u \in Workers \ {v} : ~W(u, j, h)
      BY Zenon DEF IInv, Apart, W
    <2>3. ASSUME NEW j \in Instances, NEW v \in Workers, NEW h \in Gens,
                 Works(sessions', closing', loop', handlers', v, j, h)
          PROVE  /\ h <= generation'[j]
                 /\ \A u \in Workers \ {v} : ~Works(sessions', closing', loop', handlers', u, j, h)
      <3>1. CASE W(v, j, h)
        BY <1>5, <1>6, <2>2, <3>1, Zenon
      <3>2. CASE v = w /\ j = i /\ h = g
        BY <1>5, <1>6, <2>1, <2>2, <3>2, Zenon
      <3> QED BY <1>5, <2>3, <3>1, <3>2, Zenon
    <2> QED BY <2>3, Zenon DEF Apart
  <1>8. DrainedOwnsNothing'
    <2>1. \A j \in Instances : worker_id'[j] \in {w, worker_id[j]}
      BY <1>0, <1>1, Zenon DEF Types, LeasesOK
    <2>2. proc' = proc /\ proc[w] = "up"
      BY Zenon DEF Adopt
    <2> QED BY <2>1, <2>2, Zenon DEF IInv, DrainedOwnsNothing
  <1> QED BY <1>4, <1>7, <1>8, Zenon DEF IInv

-----------------------------------------------------------------------------
(* The commands of the gRPC server.                                        *)

\* A command, a relink that starts the session again apart.
LEMMA HandlerCalm ==
    ASSUME Types, NEW h \in handlers,
           \/ NotHere(h) \/ ConnectBody(h) \/ DisconnectBody(h) \/ SettingsBody(h)
           \/ HandlerStop(h) \/ DisconnectRelease(h),
           UNCHANGED <<tenant_status, calls>>
    PROVE  Good /\ Calm
  <1>a. /\ h \in HandlerRecords /\ h.w \in Workers /\ h.i \in Instances
        /\ (h.gen \in Gens => W(h.w, h.i, h.gen))
        /\ (h.op = "settings" /\ h.at # "body" => h.gen \in Gens)
    BY Fields, Zenon DEF Types, HandlersOK, W, Works
  <1>b. sessions[h.w][h.i] \in SessionRecords
    BY <1>a, Fields, Zenon
  <1>c. \A sock \in SockStates :
            /\ h.i \in Held(h.w)
            /\ sessions' = [sessions EXCEPT ![h.w][h.i].sock = sock]
            => MapGood /\ MapCalm
    <2> SUFFICES ASSUME NEW sock \in SockStates, h.i \in Held(h.w),
                        sessions' = [sessions EXCEPT ![h.w][h.i].sock = sock]
                 PROVE  MapGood /\ MapCalm
      BY Zenon
    <2> DEFINE r == [sessions[h.w][h.i] EXCEPT !.sock = sock]
    <2>1. r \in SessionRecords /\ r.gen = sessions[h.w][h.i].gen
      BY <1>b, Zenon DEF SessionRecords
    <2>2. sessions' = [sessions EXCEPT ![h.w][h.i] = r]
      BY <1>a, Zenon DEF Types, SessionsOK, SessionRecords
    <2>3. sessions[h.w][h.i].gen # 0
      BY <1>a, HeldFacts, Zenon
    <2> HIDE DEF r
    <2> QED BY <1>a, <2>1, <2>2, <2>3, TouchSession, Zenon
  <1>1. CASE NotHere(h)
    BY <1>1, CommandFacts, Still, Zenon DEF NotHere, Good, Calm
  <1>2. CASE ConnectBody(h)
    <2> DEFINE sock == IF sessions[h.w][h.i].sock = "closed" THEN "dialing"
                       ELSE sessions[h.w][h.i].sock
    <2>1. sock \in SockStates
      BY <1>b, Zenon DEF SessionRecords, SockStates
    <2>2. sessions' = [sessions EXCEPT ![h.w][h.i].sock = sock]
      BY <1>2, <1>a, Zenon DEF ConnectBody, Types, SessionsOK, SessionRecords
    <2> HIDE DEF sock
    <2>3. MapGood /\ MapCalm
      BY <1>2, <1>c, <2>1, <2>2, Zenon DEF ConnectBody
    <2>4. HandlersGood
      BY <1>2, CommandFacts, Zenon DEF ConnectBody
    <2> QED BY <1>2, <2>3, <2>4, Still, Zenon DEF ConnectBody, Good, Calm
  <1>3. CASE DisconnectBody(h)
    <2> DEFINE x == [h EXCEPT !.at = "stop"]
    <2>1. "closed" \in SockStates /\ "disconnected" \in States /\ "user_requested" \in Reasons
      BY Zenon DEF SockStates, States, Reasons, PermanentReasons
    <2>2. MapGood /\ MapCalm
      BY <1>3, <1>c, <2>1, Zenon DEF DisconnectBody
    <2>3. RowTypeOK'
      BY <1>3, <1>a, <2>1, RowStatements, Zenon DEF DisconnectBody
    <2>4. /\ x \in HandlerRecords /\ x.op = h.op /\ x.gen = h.gen /\ x.w = h.w /\ x.i = h.i
          /\ h.op = "disconnect"
      BY <1>3, <1>a, Zenon DEF HandlerRecords, DisconnectBody
    <2>5. Step(h, x)
      BY <1>3, Zenon DEF DisconnectBody
    <2> HIDE DEF x
    <2>6. HandlersGood
      <3>1. x.op # "settings" /\ (x.gen \in Gens => W(x.w, x.i, x.gen))
        BY <1>a, <2>4, Zenon
      <3> QED BY <2>4, <2>5, <3>1, CommandFacts, Zenon
    <2> QED BY <1>3, <2>2, <2>3, <2>6, Still, Zenon DEF DisconnectBody, Good, Calm
  <1>4. CASE SettingsBody(h)
    <2> DEFINE gen == sessions[h.w][h.i].gen
               x == [h EXCEPT !.at = "stop", !.gen = gen]
    <2>1. "connecting" \in States /\ "proxy_updated" \in Reasons
      BY Zenon DEF States, Reasons, TransientReasons
    <2>2. RowTypeOK'
      BY <1>4, <1>a, <2>1, RowStatements, Zenon DEF SettingsBody
    <2>3. gen \in Gens /\ gen \in 0..MaxGeneration /\ W(h.w, h.i, gen)
      <3>1. gen # 0
        BY <1>4, <1>a, HeldFacts, Zenon DEF SettingsBody
      <3>2. gen \in 0..MaxGeneration
        BY <1>a, Fields, Zenon
      <3> QED BY <1>a, <3>1, <3>2, LeavingFacts, Zenon
    <2>4. x \in HandlerRecords /\ x.gen = gen /\ x.w = h.w /\ x.i = h.i
      BY <1>a, <2>3, Zenon DEF HandlerRecords
    <2>5. Step(h, x)
      BY <1>4, Zenon DEF SettingsBody
    <2> HIDE DEF gen, x
    <2>6. HandlersGood
      BY <2>3, <2>4, <2>5, CommandFacts, Zenon
    <2> QED BY <1>4, <2>2, <2>6, Still, Zenon DEF SettingsBody, Good, Calm
  <1>5. CASE HandlerStop(h)
    <2> DEFINE x == [h EXCEPT !.at = "wait", !.cur = InMap(h.w, {h.i})]
    <2>1. MapGood /\ MapCalm /\ PumpsGood
      BY <1>5, <1>a, StopFacts, Zenon DEF HandlerStop
    <2>2. InMap(h.w, {h.i}) \in SUBSET Pairs
      BY <1>a, Taken, Zenon
    <2>3. x \in HandlerRecords /\ x.op = h.op /\ x.gen = h.gen /\ x.w = h.w /\ x.i = h.i
      BY <1>a, <2>2, Zenon DEF HandlerRecords
    <2>4. Step(h, x) /\ h.at = "stop"
      BY <1>5, Zenon DEF HandlerStop
    <2> HIDE DEF x
    <2>5. HandlersGood
      <3>1. (x.op = "settings" => x.gen \in Gens) /\ (x.gen \in Gens => W(x.w, x.i, x.gen))
        BY <1>a, <2>3, <2>4, Zenon
      <3> QED BY <2>3, <2>4, <3>1, CommandFacts, Zenon
    <2> QED BY <1>5, <2>1, <2>5, Still, Zenon DEF HandlerStop, Good, Calm
  <1>6. CASE DisconnectRelease(h)
    <2>1. LeaseGood /\ HandlersGood
      BY <1>6, <1>a, LeaseStatements, CommandFacts, Zenon DEF DisconnectRelease
    <2> QED BY <1>6, <2>1, Still, Zenon DEF DisconnectRelease, Good, Calm
  <1> QED BY <1>1, <1>2, <1>3, <1>4, <1>5, <1>6, Zenon

\* relink starts the session again under the generation the command read.
LEMMA RelinkStartStep ==
    ASSUME Types, NEW h \in handlers, RelinkStart(h), UNCHANGED <<tenant_status, calls>>
    PROVE  /\ Good
           /\ \/ Calm
              \/ /\ LoopCalm /\ scenario'.relinks = scenario.relinks + 1
                 /\ \E w \in Workers, i \in Instances :
                       /\ Held(w)' \subseteq Held(w) \cup {i}
                       /\ \A v \in Workers \ {w} : Held(v)' \subseteq Held(v)
  <1>a. /\ h \in HandlerRecords /\ h.w \in Workers /\ h.i \in Instances
        /\ h.gen \in Gens /\ W(h.w, h.i, h.gen)
    BY Fields, Zenon DEF Types, HandlersOK, W, Works, RelinkStart
  <1>b. HandlersGood
    BY CommandFacts, Zenon DEF RelinkStart
  <1>1. CASE /\ Start(h.w, h.i, h.gen, 1)
             /\ scenario' = [scenario EXCEPT !.relinks = @ + 1]
    <2>1. MapGood /\ PumpsGood
      <3>1. 1 \in 0..1
        OBVIOUS
      <3> QED BY <1>1, <1>a, <3>1, StartFacts, Zenon
    <2>2. RestGood /\ scenario'.relinks = scenario.relinks + 1
      BY <1>1, ScenarioFacts, Zenon DEF RelinkStart, RestGood, Types
    <2>3. \A v \in Workers, j \in Instances :
              ~(v = h.w /\ j = h.i) => sessions'[v][j] = sessions[v][j]
      BY <1>1, Zenon DEF Start, Types, SessionsOK
    <2>4. /\ Held(h.w)' \subseteq Held(h.w) \cup {h.i}
          /\ \A v \in Workers \ {h.w} : Held(v)' \subseteq Held(v)
      BY <1>a, <2>3, Zenon DEF Held
    <2>5. Good
      BY <1>1, <1>a, <1>b, <2>1, <2>2, Still, Zenon DEF RelinkStart, Good
    <2> QED BY <1>a, <2>2, <2>4, <2>5, Still, Zenon DEF RelinkStart
  <1>2. CASE StartFails
    <2>1. ScenarioGood
      BY <1>2, ScenarioFacts, Zenon DEF StartFails
    <2>2. RestGood
      BY <2>1, Zenon DEF RelinkStart, RestGood, Types
    <2> QED BY <1>2, <1>a, <1>b, <2>2, Still, Zenon DEF RelinkStart, StartFails, Good, Calm
  <1> QED BY <1>1, <1>2, Zenon DEF RelinkStart

-----------------------------------------------------------------------------
(* The process and the clock.                                              *)

\* A process that is gone works under nothing.
LEMMA GoneFacts ==
    ASSUME Types, NEW w \in Workers, NEW how, Gone(w, how)
    PROVE  /\ LeaseGood /\ RowTypeOK' /\ MapGood /\ MapCalm /\ PumpsGood
           /\ LoopGood /\ LoopCalm /\ HandlersGood
           /\ LoopOK(drain') /\ ChannelOK(claims') /\ ChannelOK(stops')
  <1>a. LoopOK(loop) /\ LoopOK(drain) /\ ChannelOK(claims) /\ ChannelOK(stops) /\ SessionsOK(sessions)
    BY Zenon DEF Types
  <1>1. LeaseGood /\ RowTypeOK'
    BY Still, Zenon DEF Gone
  <1>2. MapGood /\ MapCalm
    <2> DEFINE f == [i \in Instances |-> NoSession]
    <2>1. f \in [Instances -> SessionRecords] /\ \A i \in Instances : f[i] = NoSession
      BY Nothing, Zenon
    <2>2. sessions' = [sessions EXCEPT ![w] = f]
      BY Zenon DEF Gone
    <2> HIDE DEF f
    <2>3. /\ sessions' \in [Workers -> [Instances -> SessionRecords]]
          /\ \A v \in Workers, i \in Instances :
                sessions'[v][i] = IF v = w THEN NoSession ELSE sessions[v][i]
      BY <1>a, <2>1, <2>2, Zenon DEF SessionsOK
    <2>4. NoSession.gen = 0 /\ 0 \notin Gens
      BY Nothing DEF Gens
    <2>5. MapCalm
      BY <2>3, <2>4, Zenon DEF MapCalm
    <2>6. SessionsOK(sessions')
      <3>1. ASSUME NEW v \in Workers, NEW i \in Instances, sessions'[v][i].gen = 0
            PROVE  sessions'[v][i] = NoSession
        <4>1. CASE v = w
          BY <2>3, <4>1, Zenon
        <4>2. CASE v # w
          BY <1>a, <2>3, <3>1, <4>2, Zenon DEF SessionsOK
        <4> QED BY <4>1, <4>2, Zenon
      <3> QED BY <2>3, <3>1, Zenon DEF SessionsOK
    <2>7. \A v \in Workers, i \in Instances :
              sessions'[v][i].gen \in Gens => W(v, i, sessions'[v][i].gen)
      <3> SUFFICES ASSUME NEW v \in Workers, NEW i \in Instances, sessions'[v][i].gen \in Gens
                   PROVE  W(v, i, sessions'[v][i].gen)
        BY Zenon
      <3>1. sessions'[v][i] = sessions[v][i]
        BY <2>3, <2>4, Zenon
      <3> QED BY <3>1, Zenon DEF W, Works, Has
    <2> QED BY <2>5, <2>6, <2>7, Zenon DEF MapGood
  <1>3. PumpsGood
    BY PumpsWork, Zenon DEF Gone, PumpsGood, ClosingOK
  <1>4. Idle \in LoopRecords /\ Idle.cur = {} /\ Idle.at = "select"
    <2>1. "select" \in LoopStates
      BY Zenon DEF LoopStates
    <2> QED BY <2>1, Zenon DEF Idle, LoopRecords
  <1>5. LoopOK(drain') /\ ChannelOK(claims') /\ ChannelOK(stops')
    BY <1>a, <1>4, Zenon DEF Gone, LoopOK, ChannelOK
  <1>6. LoopGood /\ LoopCalm
    <2>1. Goto(w, "select", {}, {}) /\ {} \in SUBSET Instances
          /\ "select" \in LoopStates \ {"starting"}
      BY Zenon DEF Gone, Goto, LoopStates
    <2> QED BY <2>1, EmptyHanded, Zenon
  <1>7. HandlersGood
    BY Still, Zenon DEF Gone, Types, HandlersGood, HandlersOK, W, Works
  <1> QED BY <1>1, <1>2, <1>3, <1>5, <1>6, <1>7, Zenon

\* SIGTERM, Shutdown, exit and crash.
LEMMA ProcessStep ==
    ASSUME Types, NEW w \in Workers, Sigterm(w) \/ Crash(w) \/ ShutdownNext(w),
           UNCHANGED <<tenant_status, calls>>
    PROVE  Good /\ Calm
  <1>a. \A v \in Workers, how \in ProcStates : proc' = [proc EXCEPT ![v] = how] =>
            /\ proc' \in [Workers -> ProcStates]
            /\ \A u \in Workers : proc'[u] = IF u = v THEN how ELSE proc[u]
    BY Zenon DEF Types
  <1>b. ProcStates = {"up", "sigterm", "draining", "drained", "exited", "crashed"}
    BY Zenon DEF ProcStates
  <1>c. LoopOK(drain) /\ ChannelOK(claims) /\ ChannelOK(stops) /\ scenario \in ScenarioRecords
    BY Zenon DEF Types
  <1>1. CASE Sigterm(w)
    <2>1. ProcGood
      BY <1>1, <1>a, <1>b, Zenon DEF Sigterm, ProcGood
    <2>2. ScenarioGood
      BY <1>1, ScenarioFacts, Zenon DEF Sigterm
    <2>3. RestGood
      BY <1>1, <1>c, <2>2, Zenon DEF Sigterm, RestGood
    <2> QED BY <1>1, <2>1, <2>3, Still, Zenon DEF Sigterm, Good, Calm
  <1>2. CASE Crash(w)
    <2>1. ProcGood
      BY <1>2, <1>a, <1>b, Zenon DEF Crash, Gone, ProcGood
    <2>2. ScenarioGood
      BY <1>2, ScenarioFacts, Zenon DEF Crash
    <2> QED BY <1>2, <2>1, <2>2, GoneFacts, Still, Zenon DEF Crash, Good, Calm, RestGood
  <1>3. CASE ShutdownBegin(w)
    <2>1. ProcGood
      BY <1>3, <1>a, <1>b, Zenon DEF ShutdownBegin, ProcGood
    <2>2. LoopOK(drain')
      BY <1>3, <1>c, Zenon DEF ShutdownBegin, LoopOK, LoopRecords, Held
    <2>3. RestGood
      BY <1>3, <1>c, <2>2, ScenarioFacts, Zenon DEF ShutdownBegin, RestGood
    <2> QED BY <1>3, <2>1, <2>3, Still, Zenon DEF ShutdownBegin, Good, Calm
  <1>4. CASE ShutdownRelease(w)
    <2>1. ProcGood
      <3>1. \A i \in Instances : worker_id'[i] # w
        BY <1>4, LeaseStatements, Zenon DEF ShutdownRelease
      <3> QED BY <1>4, <1>a, <1>b, <3>1, Zenon DEF ShutdownRelease, ProcGood
    <2>2. LeaseGood
      BY <1>4, LeaseStatements, Zenon DEF ShutdownRelease
    <2> QED BY <1>4, <2>1, <2>2, Still, Zenon DEF ShutdownRelease, Good, Calm
  <1>5. CASE Exit(w)
    <2>1. ProcGood
      BY <1>5, <1>a, <1>b, Zenon DEF Exit, Gone, ProcGood
    <2> QED BY <1>5, <1>c, <2>1, GoneFacts, Still, ScenarioFacts, Zenon DEF Exit, Good, Calm, RestGood
  <1>6. ASSUME NEW i \in Instances, ShutdownStop(w, i)  PROVE  Good /\ Calm
    <2>1. MapGood /\ MapCalm /\ PumpsGood
      BY <1>6, StopFacts, Zenon DEF ShutdownStop
    <2>2. LoopOK(drain')
      <3> DEFINE l == [drain[w] EXCEPT !.set = @ \ {i}, !.cur = InMap(w, {i})]
      <3>1. drain[w] \in LoopRecords /\ InMap(w, {i}) \in SUBSET Pairs
        BY Fields, Taken, Zenon
      <3>2. l \in LoopRecords
        BY <3>1, Zenon DEF LoopRecords
      <3>3. drain' = [drain EXCEPT ![w] = l]
        BY <1>6, <1>c, Zenon DEF ShutdownStop, LoopOK, LoopRecords
      <3> HIDE DEF l
      <3> QED BY <1>c, <3>2, <3>3, Zenon DEF LoopOK
    <2>3. RestGood
      BY <1>6, <1>c, <2>2, ScenarioFacts, Zenon DEF ShutdownStop, RestGood
    <2> QED BY <1>6, <2>1, <2>3, Still, Zenon DEF ShutdownStop, Good, Calm
  <1> QED BY <1>1, <1>2, <1>3, <1>4, <1>5, <1>6, Zenon DEF ShutdownNext

\* Time passes.
LEMMA ClockStep ==
    ASSUME Types, Clock, UNCHANGED <<tenant_status, calls>>
    PROVE  Good /\ Calm
  BY LeaseStatements, Still, Zenon DEF Clock, workerVars, Good, Calm

-----------------------------------------------------------------------------
(* Requests.                                                               *)

\* A request moves on.
LEMMA PutCall ==
    ASSUME Types, NEW c \in Calls, NEW r \in CallRecords, calls' = [calls EXCEPT ![c] = r],
           r.at \in ClientStates => r.op \in SessionOps
    PROVE  CallsOK(calls')
  <1>1. /\ calls' \in [Calls -> CallRecords]
        /\ \A d \in Calls : calls'[d] = IF d = c THEN r ELSE calls[d]
    BY Zenon DEF Types, CallsOK
  <1> QED BY <1>1, Zenon DEF Types, CallsOK

\* What a request holds.
LEMMA CallFields ==
    ASSUME Types, NEW c \in Calls
    PROVE  /\ calls[c] \in CallRecords
           /\ calls[c].op \in Commands \cup {"none"} /\ calls[c].is \subseteq Instances
           /\ calls[c].owner \subseteq Workers \X Gens /\ calls[c].back \in {"call", "poll"}
           /\ calls[c].retried \in BOOLEAN /\ calls[c].at \in CallStates
           /\ (calls[c].at \in ClientStates => calls[c].op \in SessionOps)
  <1>1. calls[c] \in CallRecords
    BY Zenon DEF Types, CallsOK
  <1> QED BY <1>1, Zenon DEF Types, CallsOK, CallRecords

\* A request that is over.
LEMMA Over == /\ [Unmade EXCEPT !.at = "done"] \in CallRecords
              /\ [Unmade EXCEPT !.at = "done"].at \notin ClientStates
  <1>1. "done" \in CallStates /\ "unmade" \in CallStates /\ "done" \notin ClientStates
    BY Zenon DEF CallStates, ClientStates
  <1>2. Unmade \in CallRecords
    BY <1>1, Zenon DEF Unmade, CallRecords
  <1>3. [Unmade EXCEPT !.at = "done"].at = "done"
    BY <1>2, Zenon DEF CallRecords
  <1> QED BY <1>1, <1>2, <1>3, Zenon DEF CallRecords

\* A request goes to its next step, or tries again.
LEMMA GoFacts ==
    ASSUME Types, NEW c \in Calls
    PROVE  /\ \A at \in CallStates :
                 Go(c, at) /\ (at \in ClientStates => calls[c].op \in SessionOps) => CallsOK(calls')
           /\ Retry(c) /\ calls[c].op \in SessionOps => CallsOK(calls')
  <1>1. ASSUME NEW at \in CallStates, Go(c, at), at \in ClientStates => calls[c].op \in SessionOps
        PROVE  CallsOK(calls')
    <2>1. CASE at = "done"
      BY <1>1, <2>1, Over, PutCall, Zenon DEF Go
    <2>2. CASE at # "done"
      <3> DEFINE r == [calls[c] EXCEPT !.at = at]
      <3>1. r \in CallRecords /\ r.at = at /\ r.op = calls[c].op
        BY CallFields, Zenon DEF CallRecords
      <3>2. calls' = [calls EXCEPT ![c] = r]
        BY <1>1, <2>2, Zenon DEF Go
      <3> HIDE DEF r
      <3> QED BY <1>1, <3>1, <3>2, PutCall, Zenon
    <2> QED BY <2>1, <2>2, Zenon
  <1>2. ASSUME Retry(c), calls[c].op \in SessionOps  PROVE  CallsOK(calls')
    <2>1. CASE calls[c].retried
      BY <1>2, <2>1, Over, PutCall, Zenon DEF Retry
    <2>2. CASE ~calls[c].retried
      <3> DEFINE r == [calls[c] EXCEPT !.at = calls[c].back, !.retried = TRUE]
      <3>1. calls[c].back \in CallStates
        BY CallFields, Zenon DEF CallStates
      <3>2. r \in CallRecords /\ r.op = calls[c].op
        BY <3>1, CallFields, Zenon DEF CallRecords
      <3>3. calls' = [calls EXCEPT ![c] = r]
        BY <1>2, <2>2, Zenon DEF Retry
      <3> HIDE DEF r
      <3> QED BY <1>2, <3>2, <3>3, PutCall, Zenon
    <2> QED BY <2>1, <2>2, Zenon
  <1> QED BY <1>1, <1>2, Zenon

\* A message reaches some channels.
LEMMA PublishFacts ==
    ASSUME Types, NEW is \in SUBSET Instances
    PROVE  /\ Publish(claims, is) => ChannelOK(claims')
           /\ Publish(stops, is) => ChannelOK(stops')
  BY Zenon DEF Publish, Types, ChannelOK

\* The middleware, and the statements of Connect, Disconnect and of a change of
\* status.
LEMMA StatementStep ==
    ASSUME Types, NEW c \in Calls,
           \/ RecordIntent(c) \/ RecordDesired(c) \/ WriteDisconnected(c) \/ RecordStatus(c)
           \/ StopTenant(c) \/ BroadcastStop(c) \/ ListActive(c) \/ ResumeOne(c) \/ Resumed(c)
           \/ \E op \in Commands, i \in Instances : Request(c, op, i)
    PROVE  Good /\ Calm
  <1>a. {"desired", "call", "done", "stop", "resume", "intent", "status", "sent"} \subseteq CallStates
        /\ {"desired", "done", "stop", "resume", "status"} \cap ClientStates = {}
    BY Zenon DEF CallStates, ClientStates
  <1>b. /\ calls[c] \in CallRecords /\ calls[c].is \subseteq Instances
        /\ (calls[c].at \in ClientStates => calls[c].op \in SessionOps)
    BY CallFields, Zenon
  <1>t. tenant_status \in {"active", "suspended"}
    BY Zenon DEF Types
  <1>d. LoopOK(drain) /\ ChannelOK(claims) /\ ChannelOK(stops) /\ scenario \in ScenarioRecords
    BY Zenon DEF Types
  <1>1. CASE RecordIntent(c)
    <2>1. CallsOK(calls')
      BY <1>1, <1>a, GoFacts, Zenon DEF RecordIntent
    <2> PICK i \in calls[c].is :
             /\ Ensure(i)
             /\ \/ SetConnectionIntent(i, "active", TRUE)
                \/ SetConnectionIntent(i, "stopped", FALSE)
      BY <1>1, Zenon DEF RecordIntent
    <2>2. i \in Instances /\ "active" \in Intents /\ "stopped" \in Intents
      BY <1>b, Zenon DEF Intents
    <2>3. LeaseGood /\ RowTypeOK'
      BY <2>2, LeaseStatements, RowStatements, Zenon
    <2> QED BY <1>1, <1>t, <2>1, <2>3, Still, Zenon DEF RecordIntent, workerVars, CallsGood, Good, Calm
  <1>2. CASE RecordDesired(c)
    <2>1. CallsOK(calls')
      <3>1. calls[c].op \in SessionOps
        BY <1>2, Zenon DEF RecordDesired, SessionOps
      <3> QED BY <1>2, <1>a, <3>1, GoFacts, Zenon DEF RecordDesired
    <2>2. LeaseGood
      BY <1>2, LeaseStatements, Zenon DEF RecordDesired
    <2> QED BY <1>2, <1>t, <2>1, <2>2, Still, Zenon DEF RecordDesired, workerVars, CallsGood, Good, Calm
  <1>3. CASE WriteDisconnected(c)
    <2>1. CallsOK(calls')
      BY <1>3, <1>a, GoFacts, Zenon DEF WriteDisconnected
    <2>2. RowTypeOK'
      <3>1. "disconnected" \in States
        BY Zenon DEF States
      <3> QED BY <1>3, <1>b, <3>1, RowStatements, Zenon DEF WriteDisconnected
    <2> QED BY <1>3, <1>t, <2>1, <2>2, Still, Zenon
            DEF WriteDisconnected, workerVars, CallsGood, Good, Calm
  <1>4. CASE RecordStatus(c)
    <2>1. CallsOK(calls') /\ tenant_status' \in {"active", "suspended"}
      BY <1>4, <1>a, GoFacts, Zenon DEF RecordStatus
    <2> QED BY <1>4, <2>1, Still, Zenon DEF RecordStatus, workerVars, CallsGood, Good, Calm
  <1>5. CASE StopTenant(c)
    <2>1. CallsOK(calls')
      BY <1>5, <1>a, GoFacts, Zenon DEF StopTenant
    <2>2. LeaseGood
      BY <1>5, LeaseStatements, Zenon DEF StopTenant
    <2> QED BY <1>5, <1>t, <2>1, <2>2, Still, Zenon DEF StopTenant, workerVars, CallsGood, Good, Calm
  <1>6. CASE BroadcastStop(c)
    <2>1. CallsOK(calls')
      BY <1>6, <1>a, GoFacts, Zenon DEF BroadcastStop
    <2>2. RestGood
      BY <1>6, <1>d, PublishFacts, ScenarioFacts, Zenon DEF BroadcastStop, RestGood
    <2> QED BY <1>6, <1>t, <2>1, <2>2, Still, Zenon DEF BroadcastStop, CallsGood, Good, Calm
  <1>7. CASE ListActive(c)
    <2> DEFINE r == [calls[c] EXCEPT !.at = "resume",
                        !.is = {i \in Instances : connection_intent[i] = "active"}]
    <2>1. r \in CallRecords /\ r.at = "resume"
      BY <1>a, <1>b, Zenon DEF CallRecords
    <2>2. calls' = [calls EXCEPT ![c] = r]
      BY <1>7, Zenon DEF ListActive
    <2> HIDE DEF r
    <2>3. CallsOK(calls')
      BY <1>a, <2>1, <2>2, PutCall, Zenon
    <2> QED BY <1>7, <1>t, <2>3, Still, Zenon DEF ListActive, workerVars, CallsGood, Good, Calm
  <1>8. CASE ResumeOne(c)
    <2> PICK i \in calls[c].is :
             /\ SetDesired({i}, "running") /\ Publish(claims, {i})
             /\ calls' = [calls EXCEPT ![c].is = @ \ {i}]
      BY <1>8, Zenon DEF ResumeOne
    <2> DEFINE r == [calls[c] EXCEPT !.is = @ \ {i}]
    <2>1. r \in CallRecords /\ r.at = calls[c].at /\ r.op = calls[c].op
      BY <1>b, Zenon DEF CallRecords
    <2>2. calls' = [calls EXCEPT ![c] = r]
      BY Zenon
    <2> HIDE DEF r
    <2>3. CallsOK(calls')
      BY <1>b, <2>1, <2>2, PutCall, Zenon
    <2>4. LeaseGood
      BY LeaseStatements, Zenon
    <2>5. {i} \in SUBSET Instances
      BY <1>b, Zenon
    <2>6. RestGood
      BY <1>8, <1>d, <2>5, PublishFacts, ScenarioFacts, Zenon DEF ResumeOne, RestGood
    <2> QED BY <1>8, <1>t, <2>3, <2>4, <2>6, Still, Zenon DEF ResumeOne, CallsGood, Good, Calm
  <1>9. CASE Resumed(c)
    <2>1. CallsOK(calls')
      BY <1>9, <1>a, GoFacts, Zenon DEF Resumed
    <2> QED BY <1>9, <1>t, <2>1, Still, Zenon DEF Resumed, workerVars, CallsGood, Good, Calm
  <1>10. ASSUME NEW op \in Commands, NEW i \in Instances, Request(c, op, i)  PROVE  Good /\ Calm
    <2> DEFINE at == CASE op \in {"connect", "disconnect"} -> "intent"
                       [] op = "settings" -> "call"
                       [] OTHER -> "status"
               r == [calls[c] EXCEPT !.op = op, !.is = {i}, !.at = at]
    <2>1. at \in CallStates /\ (at \in ClientStates => op \in SessionOps)
      BY <1>a, Zenon DEF SessionOps
    <2>2. calls' = [calls EXCEPT ![c] = r]
      BY <1>10, Zenon DEF Request
    <2> HIDE DEF at
    <2>3. r \in CallRecords /\ r.at = at /\ r.op = op
      BY <1>b, <2>1, Zenon DEF CallRecords
    <2> HIDE DEF r
    <2>4. CallsOK(calls')
      BY <2>1, <2>2, <2>3, PutCall, Zenon
    <2> QED BY <1>10, <1>t, <2>4, Still, Zenon DEF Request, workerVars, CallsGood, Good, Calm
  <1> QED BY <1>1, <1>2, <1>3, <1>4, <1>5, <1>6, <1>7, <1>8, <1>9, <1>10, Zenon

\* The sessionclient.
LEMMA ClientStep ==
    ASSUME Types, NEW c \in Calls,
           \/ Resolve(c) \/ NoOwner(c) \/ PollTimeout(c) \/ Deliver(c) \/ Refused(c)
           \/ Answered(c) \/ ClaimFleet(c)
    PROVE  Good /\ Calm
  <1>a. /\ {"call", "poll", "claim", "sent", "serving", "direct", "done"} \subseteq CallStates
        /\ {"call", "poll", "claim", "sent", "serving", "direct"} \subseteq ClientStates
        /\ "done" \notin ClientStates
    BY Zenon DEF CallStates, ClientStates
  <1>b. /\ calls[c] \in CallRecords /\ calls[c].is \subseteq Instances
        /\ calls[c].op \in Commands \cup {"none"} /\ calls[c].owner \subseteq Workers \X Gens
        /\ (calls[c].at \in ClientStates => calls[c].op \in SessionOps)
    BY CallFields, Zenon
  <1>c. calls[c].op \in SessionOps
    BY <1>a, <1>b, Zenon DEF Resolve, NoOwner, PollTimeout, Deliver, Refused, Answered, ClaimFleet
  <1>t. tenant_status \in {"active", "suspended"}
    BY Zenon DEF Types
  <1>d. LoopOK(drain) /\ ChannelOK(claims) /\ ChannelOK(stops) /\ scenario \in ScenarioRecords
    BY Zenon DEF Types
  <1>1. CASE Resolve(c)
    <2> PICK i \in calls[c].is :
             /\ worker_id[i] # NoWorker
             /\ calls' = [calls EXCEPT ![c] = [@ EXCEPT !.owner = {<<worker_id[i], generation[i]>>},
                                                        !.at = "sent", !.back = calls[c].at]]
      BY <1>1, Zenon DEF Resolve
    <2> DEFINE o == {<<worker_id[i], generation[i]>>}
               r == [calls[c] EXCEPT !.owner = o, !.at = "sent", !.back = calls[c].at]
    <2>1. worker_id[i] \in Workers /\ generation[i] \in Gens
      <3>1. LeasesOK(desired_state, worker_id, generation, heartbeat_age) /\ i \in Instances
        BY <1>b, Zenon DEF Types
      <3> QED BY <3>1, Zenon DEF LeasesOK
    <2>2. o \in SUBSET (Workers \X Gens) /\ calls[c].at \in {"call", "poll"}
      <3>1. calls[c].at \in {"call", "poll"}
        BY <1>1, Zenon DEF Resolve
      <3>2. <<worker_id[i], generation[i]>> \in Workers \X Gens
        BY <2>1, Zenon
      <3> QED BY <3>1, <3>2, Zenon
    <2>3. calls' = [calls EXCEPT ![c] = r]
      BY Zenon
    <2> HIDE DEF o
    <2>4. r \in CallRecords /\ r.op = calls[c].op
      BY <1>a, <1>b, <2>2, Zenon DEF CallRecords
    <2> HIDE DEF r
    <2>5. CallsOK(calls')
      BY <1>c, <2>3, <2>4, PutCall, Zenon
    <2> QED BY <1>1, <1>t, <2>5, Still, Zenon DEF Resolve, workerVars, CallsGood, Good, Calm
  <1>2. CASE NoOwner(c)
    <2> DEFINE at == CASE calls[c].op = "connect" -> "claim"
                       [] calls[c].op = "disconnect" -> "direct"
                       [] OTHER -> "done"
    <2>1. at \in CallStates
      BY <1>a, Zenon
    <2>2. Go(c, at)
      BY <1>2, Zenon DEF NoOwner
    <2> HIDE DEF at
    <2>3. CallsOK(calls')
      BY <1>c, <2>1, <2>2, GoFacts, Zenon
    <2> QED BY <1>2, <1>t, <2>3, Still, Zenon DEF NoOwner, workerVars, CallsGood, Good, Calm
  <1>3. CASE PollTimeout(c)
    <2>1. ASSUME calls' = [calls EXCEPT ![c].retried = FALSE]  PROVE  CallsOK(calls')
      <3> DEFINE r == [calls[c] EXCEPT !.retried = FALSE]
      <3>1. r \in CallRecords /\ r.op = calls[c].op
        BY <1>b, Zenon DEF CallRecords
      <3>2. calls' = [calls EXCEPT ![c] = r]
        BY <2>1, Zenon
      <3> HIDE DEF r
      <3> QED BY <1>c, <3>1, <3>2, PutCall, Zenon
    <2>2. CallsOK(calls')
      BY <1>3, <1>a, <1>c, <2>1, GoFacts, Zenon DEF PollTimeout
    <2> QED BY <1>3, <1>t, <2>2, Still, Zenon DEF PollTimeout, workerVars, CallsGood, Good, Calm
  <1>4. CASE Deliver(c)
    <2>1. CallsOK(calls')
      BY <1>4, <1>a, <1>c, GoFacts, Zenon DEF Deliver
    <2> PICK i \in calls[c].is, o \in calls[c].owner :
             handlers' = handlers \cup {Handler(c, calls[c].op, o[1], i)}
      BY <1>4, Zenon DEF Deliver
    <2> DEFINE h == Handler(c, calls[c].op, o[1], i)
    <2>2. i \in Instances /\ o[1] \in Workers /\ calls[c].op \in SessionOps \cap Commands
      BY <1>b, <1>c, Zenon DEF SessionOps
    <2>3. 0 \in 0..MaxGeneration /\ 0 \notin Gens
      BY MaxGenerationAssumption DEF Gens
    <2>4. h \in HandlerRecords /\ h.at = "body" /\ h.gen = 0
      BY <2>2, <2>3, Zenon DEF Handler, HandlerRecords
    <2>5. handlers' = handlers \cup {h}
      OBVIOUS
    <2> HIDE DEF h
    <2>6. HandlersGood
      BY <2>3, <2>4, <2>5, Zenon DEF HandlersGood, HandlersOK, Types, W, Works
    <2> QED BY <1>4, <1>t, <2>1, <2>6, Still, Zenon DEF Deliver, CallsGood, Good, Calm
  <1>5. CASE Refused(c)
    <2>1. CallsOK(calls')
      BY <1>5, <1>c, GoFacts, Zenon DEF Refused
    <2> QED BY <1>5, <1>t, <2>1, Still, Zenon DEF Refused, workerVars, CallsGood, Good, Calm
  <1>6. CASE Answered(c)
    <2>1. CallsOK(calls')
      BY <1>6, <1>a, <1>c, GoFacts, Zenon DEF Answered
    <2> QED BY <1>6, <1>t, <2>1, Still, Zenon DEF Answered, workerVars, CallsGood, Good, Calm
  <1>7. CASE ClaimFleet(c)
    <2> DEFINE r == [calls[c] EXCEPT !.at = "poll", !.retried = FALSE]
    <2>1. r \in CallRecords /\ r.op = calls[c].op
      BY <1>a, <1>b, Zenon DEF CallRecords
    <2>2. calls' = [calls EXCEPT ![c] = r]
      BY <1>7, Zenon DEF ClaimFleet, Types, CallsOK, CallRecords
    <2> HIDE DEF r
    <2>3. CallsOK(calls')
      BY <1>c, <2>1, <2>2, PutCall, Zenon
    <2>4. RestGood
      BY <1>7, <1>b, <1>d, PublishFacts, ScenarioFacts, Zenon DEF ClaimFleet, RestGood
    <2> QED BY <1>7, <1>t, <2>3, <2>4, Still, Zenon DEF ClaimFleet, CallsGood, Good, Calm
  <1> QED BY <1>1, <1>2, <1>3, <1>4, <1>5, <1>6, <1>7, Zenon

-----------------------------------------------------------------------------
(* The invariant.                                                          *)

\* The fleet starts with nothing in hand.
LEMMA InvariantInit == Init => IInv
  <1> SUFFICES ASSUME Init  PROVE  IInv
    OBVIOUS
  <1>1. Idle \in LoopRecords /\ Idle.cur = {}
    <2>1. "select" \in LoopStates
      BY Zenon DEF LoopStates
    <2> QED BY <2>1, Zenon DEF Idle, LoopRecords
  <1>2. SessionsOK(sessions) /\ \A w \in Workers, i \in Instances : sessions[w][i].gen = 0
    BY Nothing, Zenon DEF Init, WorkerInit, SessionsOK
  <1>3. /\ ClosingOK(closing) /\ HandlersOK(handlers) /\ closing = {} /\ handlers = {}
        /\ ChannelOK(claims) /\ ChannelOK(stops)
    BY Zenon DEF Init, WorkerInit, ClosingOK, HandlersOK, ChannelOK
  <1>4. LoopOK(loop) /\ LoopOK(drain) /\ \A w \in Workers : loop[w].cur = {}
    BY <1>1, Zenon DEF Init, WorkerInit, LoopOK
  <1>5. scenario \in ScenarioRecords
    BY WorkerAssumption, Zenon DEF Init, WorkerInit
  <1>6. proc \in [Workers -> ProcStates] /\ \A w \in Workers : proc[w] = "up"
    BY Zenon DEF Init, WorkerInit, ProcStates
  <1>7. LeasesOK(desired_state, worker_id, generation, heartbeat_age) /\ RowTypeOK
    <2>1. 0 \in 0..MaxGeneration /\ 0 \in 0..(Expiry + 1)
      BY MaxGenerationAssumption, ExpiryAssumption
    <2>2. desired_state \in [Instances -> DesiredStates] /\ RowTypeOK
      BY Zenon DEF Init, DesiredStates, RowTypeOK, Intents, Reasons, States, PermanentReasons
    <2> QED BY <2>1, <2>2, Zenon DEF Init, LeasesOK
  <1>8. CallsOK(calls) /\ tenant_status \in {"active", "suspended"}
    <2>1. "unmade" \in CallStates /\ "unmade" \notin ClientStates
      BY Zenon DEF CallStates, ClientStates
    <2>2. Unmade \in CallRecords /\ Unmade.at = "unmade"
      BY <2>1, Zenon DEF Unmade, CallRecords
    <2> QED BY <2>1, <2>2, Zenon DEF Init, CallsOK
  <1>9. Types
    BY <1>2, <1>3, <1>4, <1>5, <1>6, <1>7, <1>8, Zenon DEF Types
  <1>10. Apart(sessions, closing, loop, handlers, generation)
    <2>1. 0 \notin Gens
      BY DEF Gens
    <2> QED BY <1>2, <1>3, <1>4, <2>1, Zenon DEF Apart, Works, Has
  <1>11. DrainedOwnsNothing
    BY <1>6, Zenon DEF DrainedOwnsNothing
  <1> QED BY <1>9, <1>10, <1>11, Zenon DEF IInv

\* A step acquires a lease, starts a session, or is calm.
LEMMA StepKinds ==
    ASSUME IInv, Next
    PROVE  \/ \E w \in Workers, i \in Instances : Adopt(w, i) /\ UNCHANGED <<tenant_status, calls>>
           \/ \E w \in Workers : AdoptStart(w) /\ UNCHANGED <<tenant_status, calls>>
           \/ \E h \in handlers : RelinkStart(h) /\ UNCHANGED <<tenant_status, calls>>
           \/ Good /\ Calm
  <1>0. Types
    BY Zenon DEF IInv
  <1>1. CASE \E c \in Calls : CallStep(c)
    BY <1>0, <1>1, StatementStep, ClientStep, Zenon DEF CallStep
  <1>2. CASE \E c \in Calls, op \in Commands, i \in Instances : Request(c, op, i)
    BY <1>0, <1>2, StatementStep, Zenon
  <1>3. CASE RuntimeNext /\ UNCHANGED <<tenant_status, calls>>
    BY <1>0, <1>3, RuntimeCalm, Zenon DEF RuntimeNext, RuntimeStep
  <1>4. CASE PumpNext /\ UNCHANGED <<tenant_status, calls>>
    BY <1>0, <1>4, PumpStep, ClosingPumpStep, Zenon DEF PumpNext
  <1>5. CASE (SocketNext \/ ProcessNext \/ Clock) /\ UNCHANGED <<tenant_status, calls>>
    BY <1>0, <1>5, SocketStep, ProcessStep, ClockStep, Zenon DEF ProcessNext
  <1>6. CASE (\E h \in handlers : HandlerStep(h)) /\ UNCHANGED <<tenant_status, calls>>
    BY <1>0, <1>6, HandlerCalm, Zenon DEF HandlerStep
  <1> QED BY <1>1, <1>2, <1>3, <1>4, <1>5, <1>6, Zenon DEF Next, WorkerNext

\* The invariant is inductive.
LEMMA InvariantNext == IInv /\ [Next]_vars => IInv'
  <1> SUFFICES ASSUME IInv, [Next]_vars  PROVE  IInv'
    OBVIOUS
  <1>0. Types
    BY Zenon DEF IInv
  <1>1. CASE Next
    BY <1>0, <1>1, StepKinds, GoodKeeps, AdoptStep, AdoptStartStep, RelinkStartStep, Zenon
  <1>2. CASE UNCHANGED vars
    <2>1. Good
      BY <1>0, <1>2, Still, Zenon DEF vars, workerVars, Good
    <2> QED BY <2>1, GoodKeeps, Zenon
  <1> QED BY <1>1, <1>2, Zenon

\* Every reachable state of the fleet satisfies the invariant.
THEOREM Invariant == Spec => []IInv
  BY InvariantInit, InvariantNext, PTL DEF Spec

\* No counter passes its bound and no record leaves its shape, in any order of
\* the goroutines of the workers and of the requests of the API: a session that
\* is not in the map has no socket, a relink has a generation.
THEOREM TypeCorrect == Spec => []TypeOK
  <1>1. IInv => TypeOK
    <2> SUFFICES ASSUME Types  PROVE  TypeOK
      BY Zenon DEF IInv
    <2>1. LeaseTypeOK
      <3>1. \A n \in 0..MaxGeneration : n \in Nat
        BY MaxGenerationAssumption
      <3> QED BY <3>1, Zenon DEF Types, LeasesOK, LeaseTypeOK
    <2>2. Inboxes \subseteq UNION {[1..n -> Events] : n \in 0..InboxSize}
      <3> SUFFICES ASSUME NEW q \in Inboxes
                   PROVE  q \in UNION {[1..n -> Events] : n \in 0..InboxSize}
        BY Zenon
      <3>1. q \in Seq(Events) /\ Len(q) <= InboxSize /\ InboxSize \in Nat
        BY WorkerAssumption, Zenon DEF Inboxes
      <3>2. q \in [1..Len(q) -> Events]
        BY <3>1
      <3>3. Len(q) \in 0..InboxSize
        BY <3>1
      <3> QED BY <3>2, <3>3, Zenon
    <2>3. \A w \in Workers, i \in Instances :
              sessions[w][i] \in [gen : 0..MaxGeneration, sock : SockStates, dial : 0..2,
                                  at : {"loop", "stop"},
                                  inbox : UNION {[1..n -> Events] : n \in 0..InboxSize}]
      <3> TAKE w \in Workers, i \in Instances
      <3>1. sessions[w][i] \in SessionRecords
        BY Fields, Zenon
      <3> QED BY <2>2, <3>1, Zenon DEF SessionRecords
    <2>4. WorkerTypeOK
      BY <2>3, Fields, Zenon DEF WorkerTypeOK, Types, PumpRecords, LoopRecords, HandlerRecords,
                                 SessionOps, Gens, Pairs, ChannelOK
    <2>5. CallTypeOK
      BY CallFields, Zenon DEF CallTypeOK, CallStates, Gens
    <2> QED BY <2>1, <2>4, <2>5, Zenon DEF TypeOK, Types
  <1> QED BY <1>1, Invariant, PTL

\* What fencing rests on: two processes never work on an instance under the same
\* generation, nor under one that was not granted, however late heartbeats, drops
\* and releases are (Supervisor.Adopt, relink, AcquireLease).
THEOREM OneProcessPerGeneration == Spec => []GenerationsDisjoint
  <1>1. IInv => GenerationsDisjoint
    <2> SUFFICES ASSUME IInv  PROVE  GenerationsDisjoint
      OBVIOUS
    <2>0. Types
      BY Zenon DEF IInv
    <2>1. ASSUME NEW w \in Workers, NEW i \in Instances, NEW g \in Generations(w, i)
          PROVE  g \in Gens /\ W(w, i, g)
      <3>1. CASE g = sessions[w][i].gen
        BY <2>0, <2>1, <3>1, LeavingFacts, Zenon DEF Generations
      <3>2. CASE \E p \in closing : p.w = w /\ p.i = i /\ p.gen = g
        BY <2>0, <3>2, PumpsWork, Fields, Zenon
      <3>3. CASE \E c \in loop[w].cur : c[1] = i /\ c[2] = g
        <4> PICK c \in loop[w].cur : c[1] = i /\ c[2] = g
          BY <3>3, Zenon
        <4>1. c \in Pairs
          BY <2>0, Fields, Zenon
        <4>2. g \in Gens /\ c = <<i, g>>
          BY <4>1 DEF Pairs
        <4> QED BY <4>2, Zenon DEF W, Works
      <3>4. CASE \E h \in handlers : h.w = w /\ h.i = i /\ h.gen = g
        <4>1. g # 0 /\ g \in 0..MaxGeneration
          BY <2>0, <2>1, <3>4, Fields, Zenon DEF Generations, HandlerRecords
        <4>2. g \in Gens
          BY <4>1, MaxGenerationAssumption DEF Gens
        <4> QED BY <3>4, <4>2, Zenon DEF W, Works
      <3> QED BY <2>1, <3>1, <3>2, <3>3, <3>4, Zenon DEF Generations
    <2> QED BY <2>1, Zenon DEF IInv, Apart, W, GenerationsDisjoint
  <1> QED BY <1>1, Invariant, PTL

\* A process that drained and exited owns no row, whatever its runtime had in
\* hand at SIGTERM (Shutdown, ReleaseWorkerLeases).
THEOREM DrainedIsClean == Spec => []DrainedOwnsNothing
  <1>1. IInv => DrainedOwnsNothing
    BY Zenon DEF IInv
  <1> QED BY <1>1, Invariant, PTL

-----------------------------------------------------------------------------
(* The capacity of a worker.                                               *)

INSTANCE FiniteSetTheorems

\* What a worker has room for, when every relink may have taken the place of one
\* session.
Limit == MaxSessions + scenario.relinks

\* Relinks apart the runtime is alone in adding sessions, and it has room for the
\* one in its hand.
Room ==
    \A w \in Workers : /\ Cardinality(Held(w)) <= Limit
                       /\ loop[w].at = "starting" => Cardinality(Held(w)) < Limit

\* Counting sessions.
LEMMA Counting ==
    ASSUME IsFiniteSet(Instances), NEW A \in SUBSET Instances, NEW B \in SUBSET Instances
    PROVE  /\ Cardinality(A) \in Nat /\ Cardinality(B) \in Nat
           /\ B \subseteq A => Cardinality(B) <= Cardinality(A)
           /\ \A i \in Instances : B \subseteq A \cup {i} => Cardinality(B) <= Cardinality(A) + 1
  <1>1. IsFiniteSet(A) /\ IsFiniteSet(B)
    BY FS_Subset, Zenon
  <1>2. Cardinality(A) \in Nat /\ Cardinality(B) \in Nat
    BY <1>1, FS_CardinalityType, Zenon
  <1>3. B \subseteq A => Cardinality(B) <= Cardinality(A)
    BY <1>1, FS_Subset, Zenon
  <1>4. ASSUME NEW i \in Instances, B \subseteq A \cup {i}
        PROVE  Cardinality(B) <= Cardinality(A) + 1
    <2>1. /\ IsFiniteSet(A \cup {i})
          /\ Cardinality(A \cup {i}) \in {Cardinality(A), Cardinality(A) + 1}
      BY <1>1, FS_AddElement, Zenon
    <2>2. Cardinality(B) <= Cardinality(A \cup {i})
      BY <1>4, <2>1, FS_Subset, Zenon
    <2> QED BY <1>2, <2>1, <2>2
  <1> QED BY <1>2, <1>3, <1>4, Zenon

\* A step keeps the room the runtime counts on.
LEMMA RoomNext ==
    ASSUME IsFiniteSet(Instances), IInv, Room, [Next]_vars
    PROVE  Room'
  <1>0. Types
    BY Zenon DEF IInv
  <1>a. \A w \in Workers : Held(w) \in SUBSET Instances /\ Held(w)' \in SUBSET Instances
    BY Zenon DEF Held
  <1>b. MaxSessions \in Nat /\ scenario.relinks \in Nat
    BY <1>0, WorkerAssumption, Zenon DEF Types, ScenarioRecords
  <1>c. ASSUME ScenarioGood
        PROVE  /\ \A n, m \in Nat : n <= m /\ m <= Limit => n <= Limit'
               /\ \A n, m \in Nat : n <= m /\ m < Limit => n < Limit'
               /\ \A n, m \in Nat : n <= m + 1 /\ m < Limit => n <= Limit'
    <2>1. scenario'.relinks \in {scenario.relinks, scenario.relinks + 1}
      BY <1>c, Zenon DEF ScenarioGood
    <2> QED BY <1>b, <2>1 DEF Limit
  <1>d. ASSUME scenario'.relinks = scenario.relinks + 1
        PROVE  /\ \A n, m \in Nat : n <= m + 1 /\ m <= Limit => n <= Limit'
               /\ \A n, m \in Nat : n <= m + 1 /\ m < Limit => n < Limit'
    BY <1>b, <1>d DEF Limit
  <1>1. ASSUME \A w \in Workers : Held(w)' \subseteq Held(w), LoopCalm, ScenarioGood  PROVE  Room'
    <2> SUFFICES ASSUME NEW w \in Workers
                 PROVE  /\ Cardinality(Held(w)') <= Limit'
                        /\ loop'[w].at = "starting" => Cardinality(Held(w)') < Limit'
      BY Zenon DEF Room
    <2>1. /\ Cardinality(Held(w)) \in Nat /\ Cardinality(Held(w)') \in Nat
          /\ Cardinality(Held(w)') <= Cardinality(Held(w))
      BY <1>1, <1>a, Counting, Zenon
    <2> QED BY <1>1, <1>c, <2>1, Zenon DEF Room, LoopCalm
  <1>2. ASSUME Calm, ScenarioGood  PROVE  Room'
    <2>1. \A w \in Workers : Held(w)' \subseteq Held(w)
      <3>1. ~(0 > 0)
        OBVIOUS
      <3> QED BY <1>2, <3>1, Zenon DEF Calm, MapCalm, Held
    <2> QED BY <1>1, <1>2, <2>1, Zenon DEF Calm
  <1>3. ASSUME NEW w \in Workers, NEW i \in Instances, Adopt(w, i)  PROVE  Room'
    <2>1. (\A v \in Workers : Held(v)' = Held(v)) /\ Limit' = Limit
      BY <1>3, Zenon DEF Adopt, Held, Limit
    <2>2. \A v \in Workers : loop'[v].at = "starting" => v = w \/ loop[v].at = "starting"
      BY <1>0, <1>3, Zenon DEF Adopt, Goto, Types, LoopOK
    <2>3. Cardinality(Held(w)) < Limit
      <3>1. Cardinality(Held(w)) < MaxSessions
        BY <1>3, Zenon DEF Adopt, HasCapacity
      <3>2. Cardinality(Held(w)) \in Nat
        BY <1>a, Counting, Zenon
      <3> QED BY <1>b, <3>1, <3>2 DEF Limit
    <2> QED BY <2>1, <2>2, <2>3, Zenon DEF Room
  <1>4. ASSUME NEW w \in Workers, AdoptStart(w), UNCHANGED <<tenant_status, calls>>  PROVE  Room'
    <2>0. ScenarioGood
      BY <1>0, <1>4, AdoptStartStep, Zenon DEF Good, RestGood
    <2>1. CASE Calm
      BY <1>2, <2>0, <2>1, Zenon
    <2>2. CASE /\ loop[w].at = "starting" /\ LoopCalm /\ loop'[w].at # "starting"
               /\ \E i \in Instances : /\ Held(w)' \subseteq Held(w) \cup {i}
                                       /\ \A v \in Workers \ {w} : Held(v)' \subseteq Held(v)
      <3> SUFFICES ASSUME NEW v \in Workers
                   PROVE  /\ Cardinality(Held(v)') <= Limit'
                          /\ loop'[v].at = "starting" => Cardinality(Held(v)') < Limit'
        BY Zenon DEF Room
      <3>1. Cardinality(Held(v)) \in Nat /\ Cardinality(Held(v)') \in Nat
        BY <1>a, Counting, Zenon
      <3>2. CASE v = w
        <4>1. Cardinality(Held(w)') <= Cardinality(Held(w)) + 1
          BY <1>a, <2>2, Counting, Zenon
        <4> QED BY <1>c, <2>0, <2>2, <3>1, <3>2, <4>1, Zenon DEF Room
      <3>3. CASE v # w
        <4>1. Cardinality(Held(v)') <= Cardinality(Held(v))
          BY <1>a, <2>2, <3>3, Counting, Zenon
        <4> QED BY <1>c, <2>0, <2>2, <3>1, <4>1, Zenon DEF Room, LoopCalm
      <3> QED BY <3>2, <3>3, Zenon
    <2> QED BY <1>0, <1>4, <2>1, <2>2, AdoptStartStep, Zenon
  <1>5. ASSUME NEW h \in handlers, RelinkStart(h), UNCHANGED <<tenant_status, calls>>  PROVE  Room'
    <2>0. ScenarioGood
      BY <1>0, <1>5, RelinkStartStep, Zenon DEF Good, RestGood
    <2>1. CASE Calm
      BY <1>2, <2>0, <2>1, Zenon
    <2>2. ASSUME LoopCalm, scenario'.relinks = scenario.relinks + 1, NEW w \in Workers,
                 NEW i \in Instances, Held(w)' \subseteq Held(w) \cup {i},
                 \A v \in Workers \ {w} : Held(v)' \subseteq Held(v)
          PROVE  Room'
      <3> SUFFICES ASSUME NEW v \in Workers
                   PROVE  /\ Cardinality(Held(v)') <= Limit'
                          /\ loop'[v].at = "starting" => Cardinality(Held(v)') < Limit'
        BY Zenon DEF Room
      <3>1. Cardinality(Held(v)) \in Nat /\ Cardinality(Held(v)') \in Nat
        BY <1>a, Counting, Zenon
      <3>2. Held(v)' \subseteq Held(v) \cup {i}
        BY <2>2, Zenon
      <3>3. Cardinality(Held(v)') <= Cardinality(Held(v)) + 1
        BY <1>a, <3>2, Counting, Zenon
      <3> QED BY <1>d, <2>2, <3>1, <3>3, Zenon DEF Room, LoopCalm
    <2> QED BY <1>0, <1>5, <2>1, <2>2, RelinkStartStep, Zenon
  <1>6. CASE UNCHANGED vars
    BY <1>0, <1>2, <1>6, Still, ScenarioFacts, Zenon DEF vars, workerVars, Calm
  <1>7. CASE Next
    BY <1>2, <1>3, <1>4, <1>5, <1>7, StepKinds, Zenon DEF Good, RestGood
  <1> QED BY <1>6, <1>7, Zenon

\* A worker runs at most one session more than it was given room for per relink
\* it has executed, although HasCapacity is asked well before start puts the
\* session in the map and relink does not ask: relinks apart the runtime, one
\* goroutine, is alone in adding sessions (HasCapacity, Adopt, start, relink).
THEOREM CapacityKept ==
    ASSUME IsFiniteSet(Instances)
    PROVE  Spec => []WithinCapacity
  <1>1. Init => Room
    <2> SUFFICES ASSUME Init  PROVE  Room
      OBVIOUS
    <2>1. \A w \in Workers : Held(w) = {}
      BY Nothing DEF Init, WorkerInit, Held
    <2>2. scenario.relinks \in Nat /\ MaxSessions \in Nat
      BY WorkerAssumption, Zenon DEF Init, WorkerInit, ScenarioRecords
    <2>3. Cardinality({}) <= Limit
      BY <2>2, FS_EmptySet DEF Limit
    <2>4. \A w \in Workers : loop[w].at # "starting"
      BY Zenon DEF Init, WorkerInit, Idle
    <2> QED BY <2>1, <2>3, <2>4, Zenon DEF Room
  <1>2. IInv /\ Room /\ [Next]_vars => Room'
    BY RoomNext, Zenon
  <1>3. Room => WithinCapacity
    BY Zenon DEF Room, WithinCapacity, Limit
  <1> QED BY <1>1, <1>2, <1>3, Invariant, PTL DEF Spec
=============================================================================

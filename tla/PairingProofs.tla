---------------------------- MODULE PairingProofs ----------------------------
(***************************************************************************)
(* Proofs about Pairing, for any number of commands, numbers, pairings and *)
(* attempts, any capacity of the channels and any pairing window.          *)
(***************************************************************************)
EXTENDS Pairing, TLAPS

-----------------------------------------------------------------------------
(* The inductive invariant.                                                *)

RowRecords == [jid : 0..MaxPairings, phone : Numbers \cup {NoNumber}, state : States]
TrailRecords == [phone : Numbers, changed : BOOLEAN]
ManagedRecords == [live : BOOLEAN, pairing : 0..MaxAttempts, session : Nat]
AttemptRecords ==
    [method : {"none", "qr", "phone"}, ctx : {"open", "cancelled", "elapsed"}, lib : BOOLEAN,
     code : {"none", "sent", "published"}, fwd : {"idle", "on", "over"}]
PumpRecords ==
    [at : {"loop", "identity", "ensure", "connected", "material", "stop", "done"},
     dev : 0..MaxPairings, prev : Numbers \cup {NoNumber}]
Ops == {"connect", "pair_phone", "disconnect", "logout", "drain", "none"}
CallSteps == {"waiting", "enter", "dial", "state", "forward", "code", "command", "clear", "record", "stop",
              "wait", "return", "returned"}
CallRecords == [op : Ops, at : CallSteps, session : Nat, att : 0..MaxAttempts]

\* No socket is bound to the context of an attempt.
Sockets == {Closed, SessionCtx, Background} \cup {Ctx("command", c) : c \in Calls}
ClientRecords == [dev : 0..MaxPairings, sock : Sockets, auth : BOOLEAN]

\* A success names a device that was linked, a code its attempt; n devices were.
\* A QR channel does not carry the events of the socket.
CodeKinds == Kinds \ {"connected", "logged_out"}
EventRecords(ks, n) ==
    {e \in [kind : ks, dev : Nat] : /\ e.kind = "succeeded" => e.dev \in 1..n
                                    /\ e.kind = "code" => e.dev \in Attempts}

StoreOK(l, m) == l \in Seq(Numbers) /\ Len(l) <= MaxPairings /\ m \subseteq 1..Len(l)
ClientOK(cl, n) == cl \in ClientRecords /\ cl.dev <= n
ChannelOK(q, ks, n) == q \in Seq(EventRecords(ks, n)) /\ Len(q) <= Buffer
CodesOK(cs, n) == DOMAIN cs = Attempts /\ \A a \in Attempts : ChannelOK(cs[a], CodeKinds, n)
PumpOK(p, n) ==
    /\ p \in PumpRecords /\ p.dev <= n
    /\ p.at = "identity" => p.dev # 0

Types ==
    /\ row \in RowRecords /\ trail \in Seq(TrailRecords)
    /\ managed \in ManagedRecords /\ attempts \in [Attempts -> AttemptRecords]
    /\ calls \in [Calls -> CallRecords]
    /\ StoreOK(linked, material)
    /\ ClientOK(client, Len(linked)) /\ PumpOK(pump, Len(linked))
    /\ ChannelOK(events, Kinds, Len(linked)) /\ CodesOK(codes, Len(linked))
    /\ dialler \in {"none", "state", "dial"} /\ lost \in BOOLEAN /\ unlinked \in 0..MaxLogouts

\* The library has given up every attempt.
NoneOpen(as) == \A a \in Attempts : ~as[a].lib

\* A device ends all attempts; a pump that returned leaves none, and the
\* session is out of the map; out of the map there is no socket.
Settled(cl, as, m, p) ==
    /\ cl.dev # 0 => NoneOpen(as)
    /\ p.at = "done" => ~m.live /\ NoneOpen(as)
    /\ ~m.live => cl.sock = Closed

IInv == Types /\ Settled(client, attempts, managed, pump)

\* What a step that links no device does to each variable.
RowGood == row' \in RowRecords
TrailGood == trail' \in Seq(TrailRecords)
ManagedGood == managed' \in ManagedRecords
AttemptsGood == attempts' \in [Attempts -> AttemptRecords]
CallsGood == calls' \in [Calls -> CallRecords]
StoreGood == linked' = linked /\ material' \subseteq 1..Len(linked)
ClientGood == ClientOK(client', Len(linked))
PumpGood == PumpOK(pump', Len(linked))
EventsGood == ChannelOK(events', Kinds, Len(linked)) /\ lost' \in BOOLEAN
CodesGood == CodesOK(codes', Len(linked))
RestGood == dialler' \in {"none", "state", "dial"} /\ unlinked' \in 0..MaxLogouts

Typed ==
    /\ RowGood /\ TrailGood /\ ManagedGood /\ AttemptsGood /\ CallsGood /\ StoreGood
    /\ ClientGood /\ PumpGood /\ EventsGood /\ CodesGood /\ RestGood

\* No device comes, no attempt opens, no session starts, no pump returns.
ClientCalm == client'.dev \in {client.dev, 0}
AttemptsCalm == \A a \in Attempts : attempts'[a].lib => attempts[a].lib
ManagedCalm == managed'.live => managed.live
PumpCalm == pump'.at = "done" => pump.at = "done"
SocketCalm == ~managed'.live => client'.sock = Closed

Calm == ClientCalm /\ AttemptsCalm /\ ManagedCalm /\ PumpCalm /\ SocketCalm

\* PairedSocketSurvives, of one step.
Survives ==
    client.dev # 0 /\ client.sock[1] \notin {"closed", "command"} /\ client'.sock # client.sock
         => \/ client'.dev = 0
            \/ ~managed'.live
            \/ \E c \in Calls : calls[c].op = "disconnect" /\ calls'[c].at = "record"

Kept == IInv' /\ Survives

-----------------------------------------------------------------------------
(* What the steps are made of.                                             *)

\* The constants and the values the variables start with.
LEMMA Values ==
    /\ Unused \in AttemptRecords /\ ~Unused.lib
    /\ Closed \in Sockets /\ SessionCtx \in Sockets /\ Background \in Sockets
    /\ \A c \in Calls : Ctx("command", c) \in Sockets
    /\ 0 \in 0..MaxPairings /\ 0 \in 0..MaxAttempts
    /\ AtLoop \in PumpRecords /\ AtLoop.dev = 0 /\ AtLoop.at = "loop" /\ AtLoop.prev = NoNumber
    /\ Waiting \in CallRecords
  <1>1. 0 \in 0..MaxPairings /\ 0 \in 0..MaxAttempts
    BY PairingAssumption
  <1>2. Unused \in AttemptRecords /\ ~Unused.lib
    BY DEF Unused, AttemptRecords
  <1>3. /\ Closed \in Sockets /\ SessionCtx \in Sockets /\ Background \in Sockets
        /\ \A c \in Calls : Ctx("command", c) \in Sockets
    BY Zenon DEF Sockets
  <1>4. AtLoop \in PumpRecords /\ AtLoop.dev = 0 /\ AtLoop.at = "loop" /\ AtLoop.prev = NoNumber
    BY <1>1 DEF AtLoop, PumpRecords
  <1>5. Waiting \in CallRecords
    BY <1>1 DEF Waiting, CallRecords, Ops, CallSteps
  <1> QED BY <1>1, <1>2, <1>3, <1>4, <1>5, Zenon

\* A socket is closed, or a context other than an attempt's holds it.
LEMMA SocketFacts ==
    ASSUME NEW s \in Sockets, NEW a
    PROVE  /\ s # Ctx("attempt", a)
           /\ \A c : s = Ctx("command", c) => s[1] = "command"
           /\ s = Closed => s[1] = "closed"
  BY DEF Sockets, Ctx, Closed, SessionCtx, Background

\* cancelPairing leaves the library and the socket alone.
LEMMA CancelFacts ==
    ASSUME Types, NEW a \in 0..MaxAttempts
    PROVE  /\ Cancelled(a) \in [Attempts -> AttemptRecords]
           /\ \A b \in Attempts : Cancelled(a)[b].lib = attempts[b].lib
           /\ Unbound(Ctx("attempt", a)) = client
  <1>1. attempts \in [Attempts -> AttemptRecords] /\ client \in ClientRecords
    BY Zenon DEF Types, ClientOK
  <1>2. client.sock \in Sockets
    BY <1>1, Zenon DEF ClientRecords
  <1>3. Unbound(Ctx("attempt", a)) = client
    BY <1>2, SocketFacts, Zenon DEF Unbound
  <1>4. CASE a = 0 \/ attempts[a].method = "phone"
    BY <1>1, <1>3, <1>4, Zenon DEF Cancelled
  <1>5. CASE ~(a = 0 \/ attempts[a].method = "phone")
    <2> DEFINE r == [attempts[a] EXCEPT !.ctx = IF @ = "open" THEN "cancelled" ELSE @]
    <2>1. a \in Attempts
      BY <1>5 DEF Attempts
    <2>2. attempts[a] \in AttemptRecords
      BY <1>1, <2>1, Zenon
    <2>3. r \in AttemptRecords /\ r.lib = attempts[a].lib
      BY <2>2, Zenon DEF AttemptRecords
    <2>4. Cancelled(a) = [attempts EXCEPT ![a] = r]
      BY <1>5, Zenon DEF Cancelled
    <2> HIDE DEF r
    <2> QED BY <1>1, <1>3, <2>1, <2>3, <2>4, Zenon
  <1> QED BY <1>4, <1>5, Zenon


\* The parts are enough.
LEMMA CalmKeeps ==
    ASSUME IInv, Typed, Calm, Survives
    PROVE  Kept
  <1>1. Types'
    BY Zenon DEF IInv, Types, Typed, RowGood, TrailGood, ManagedGood, AttemptsGood, CallsGood,
        StoreGood, StoreOK, ClientGood, PumpGood, EventsGood, CodesGood, RestGood
  <1>2. Settled(client', attempts', managed', pump')
    BY Zenon DEF IInv, Settled, NoneOpen, Calm, ClientCalm, AttemptsCalm, ManagedCalm, PumpCalm,
        SocketCalm
  <1> QED BY <1>1, <1>2, Zenon DEF IInv, Kept

LEMMA TypedKeeps ==
    ASSUME IInv, Typed, Settled(client', attempts', managed', pump'), Survives
    PROVE  Kept
  <1>1. Types'
    BY Zenon DEF IInv, Types, Typed, RowGood, TrailGood, ManagedGood, AttemptsGood, CallsGood,
        StoreGood, StoreOK, ClientGood, PumpGood, EventsGood, CodesGood, RestGood
  <1> QED BY <1>1, Zenon DEF IInv, Kept

\* What stands still.
LEMMA Still ==
    ASSUME IInv
    PROVE  /\ row' = row => RowGood
           /\ trail' = trail => TrailGood
           /\ managed' = managed => ManagedGood /\ ManagedCalm
           /\ attempts' = attempts => AttemptsGood /\ AttemptsCalm
           /\ calls' = calls => CallsGood
           /\ linked' = linked /\ material' = material => StoreGood
           /\ client' = client => ClientGood /\ ClientCalm /\ Survives
           /\ client' = client /\ managed' = managed => SocketCalm
           /\ pump' = pump => PumpGood /\ PumpCalm
           /\ events' = events /\ lost' = lost => EventsGood
           /\ codes' = codes => CodesGood
           /\ dialler' = dialler /\ unlinked' = unlinked => RestGood
  BY Zenon DEF IInv, Types, Settled, RowGood, TrailGood, ManagedGood, AttemptsGood, CallsGood,
        StoreGood, StoreOK, ClientGood, PumpGood, EventsGood, CodesGood, RestGood,
        ManagedCalm, AttemptsCalm, ClientCalm, PumpCalm, SocketCalm, Survives

\* The fields of the records.
LEMMA Fields ==
    ASSUME IInv
    PROVE  /\ row \in RowRecords /\ managed \in ManagedRecords /\ client \in ClientRecords
           /\ pump \in PumpRecords
           /\ managed.pairing \in 0..MaxAttempts /\ managed.session \in Nat
           /\ client.dev \in 0..Len(linked) /\ client.sock \in Sockets
           /\ pump.dev \in 0..Len(linked)
           /\ Len(linked) \in 0..MaxPairings /\ Len(linked) \in Nat
           /\ 0..Len(linked) \subseteq 0..MaxPairings
           /\ \A a \in Attempts : attempts[a] \in AttemptRecords
           /\ \A c \in Calls : calls[c] \in CallRecords
  <1>1. /\ row \in RowRecords /\ managed \in ManagedRecords /\ client \in ClientRecords
        /\ pump \in PumpRecords /\ client.dev <= Len(linked) /\ pump.dev <= Len(linked)
        /\ linked \in Seq(Numbers) /\ Len(linked) <= MaxPairings
        /\ \A a \in Attempts : attempts[a] \in AttemptRecords
        /\ \A c \in Calls : calls[c] \in CallRecords
    BY Zenon DEF IInv, Types, ClientOK, PumpOK, StoreOK
  <1>2. managed.pairing \in 0..MaxAttempts /\ managed.session \in Nat
    BY <1>1, Zenon DEF ManagedRecords
  <1>3. client.dev \in 0..MaxPairings /\ client.sock \in Sockets
    BY <1>1, Zenon DEF ClientRecords
  <1>4. pump.dev \in 0..MaxPairings
    BY <1>1, Zenon DEF PumpRecords
  <1>5. Len(linked) \in Nat
    BY <1>1
  <1>6. /\ client.dev \in 0..Len(linked) /\ pump.dev \in 0..Len(linked)
        /\ Len(linked) \in 0..MaxPairings /\ 0..Len(linked) \subseteq 0..MaxPairings
    BY <1>1, <1>3, <1>4, <1>5, PairingAssumption
  <1> QED BY <1>1, <1>2, <1>3, <1>5, <1>6, Zenon

\* A command goes to its next step.
LEMMA GotoFacts ==
    ASSUME IInv, NEW c \in Calls
    PROVE  /\ \A step \in CallSteps : Goto(c, step) => CallsGood /\ calls'[c].at = step
           /\ \A r \in CallRecords : calls' = [calls EXCEPT ![c] = r] => CallsGood /\ calls'[c] = r
  <1>1. calls \in [Calls -> CallRecords]
    BY Zenon DEF IInv, Types
  <1>2. ASSUME NEW r \in CallRecords, calls' = [calls EXCEPT ![c] = r]
        PROVE  CallsGood /\ calls'[c] = r
    BY <1>1, <1>2, Zenon DEF CallsGood
  <1>3. ASSUME NEW step \in CallSteps, Goto(c, step)
        PROVE  CallsGood /\ calls'[c].at = step
    <2> DEFINE r == [calls[c] EXCEPT !.at = step]
    <2>1. r \in CallRecords /\ r.at = step
      BY <1>1, Zenon DEF CallRecords
    <2>2. calls' = [calls EXCEPT ![c] = r]
      BY <1>3, Zenon DEF Goto
    <2> HIDE DEF r
    <2> QED BY <1>2, <2>1, <2>2, Zenon
  <1> QED BY <1>2, <1>3, Zenon

\* The state written on the row.
LEMMA RowFacts ==
    ASSUME IInv
    PROVE  /\ \A s \in States : row' = [row EXCEPT !.state = s] => RowGood
           /\ \A d \in 0..MaxPairings : row' = [row EXCEPT !.jid = d] => RowGood
           /\ \A d \in 0..MaxPairings, n \in Numbers \cup {NoNumber} :
                 row' = [row EXCEPT !.jid = d, !.phone = n] => RowGood
           /\ \A s \in States :
                 row' = [jid |-> 0, phone |-> NoNumber, state |-> s] => RowGood
  <1>1. row \in RowRecords /\ 0 \in 0..MaxPairings
    BY Fields, Values, Zenon
  <1>2. \A s \in States : [row EXCEPT !.state = s] \in RowRecords
    BY <1>1, Zenon DEF RowRecords
  <1>3. \A d \in 0..MaxPairings : [row EXCEPT !.jid = d] \in RowRecords
    BY <1>1, Zenon DEF RowRecords
  <1>4. \A d \in 0..MaxPairings, n \in Numbers \cup {NoNumber} :
            [row EXCEPT !.jid = d, !.phone = n] \in RowRecords
    BY <1>1, Zenon DEF RowRecords
  <1>5. \A s \in States : [jid |-> 0, phone |-> NoNumber, state |-> s] \in RowRecords
    BY <1>1, Zenon DEF RowRecords
  <1> QED BY <1>2, <1>3, <1>4, <1>5, Zenon DEF RowGood


\* A channel takes an event that fits, and drops one that does not.
LEMMA ChannelFacts ==
    ASSUME NEW n \in Nat, NEW ks, NEW q, ChannelOK(q, ks, n)
    PROVE  /\ \A e \in EventRecords(ks, n) : Len(q) < Buffer => ChannelOK(Append(q, e), ks, n)
           /\ q # <<>> => Head(q) \in EventRecords(ks, n) /\ ChannelOK(Tail(q), ks, n)
           /\ \A k \in 0..Len(q) : ChannelOK(SubSeq(q, 1, k), ks, n)
           /\ ChannelOK(<<>>, ks, n)
  <1>1. q \in Seq(EventRecords(ks, n)) /\ Len(q) <= Buffer /\ Len(q) \in Nat /\ Buffer \in Nat
    BY PairingAssumption DEF ChannelOK
  <1>2. \A e \in EventRecords(ks, n) : Len(q) < Buffer => ChannelOK(Append(q, e), ks, n)
    BY <1>1 DEF ChannelOK
  <1>3. q # <<>> => Head(q) \in EventRecords(ks, n) /\ ChannelOK(Tail(q), ks, n)
    BY <1>1 DEF ChannelOK
  <1>4. \A k \in 0..Len(q) : ChannelOK(SubSeq(q, 1, k), ks, n)
    BY <1>1 DEF ChannelOK
  <1>5. ChannelOK(<<>>, ks, n)
    BY <1>1 DEF ChannelOK
  <1> QED BY <1>2, <1>3, <1>4, <1>5, Zenon

\* emit and pumpQR.
LEMMA EmitFacts ==
    ASSUME NEW n \in Nat, ChannelOK(events, Kinds, n), CodesOK(codes, n), NEW e
    PROVE  /\ e \in EventRecords(Kinds, n) /\ Emit(e) => ChannelOK(events', Kinds, n) /\ lost' \in BOOLEAN
           /\ \A as : e \in EventRecords(CodeKinds, n) /\ EmitCode(as, e) => CodesOK(codes', n)
  <1>1. ASSUME e \in EventRecords(Kinds, n), Emit(e)  PROVE  ChannelOK(events', Kinds, n) /\ lost' \in BOOLEAN
    <2>1. ChannelOK(events', Kinds, n)
      BY <1>1, ChannelFacts, Zenon DEF Emit
    <2>2. lost' \in BOOLEAN
      BY <1>1, Zenon DEF Emit
    <2> QED BY <2>1, <2>2, Zenon
  <1>2. ASSUME NEW as, e \in EventRecords(CodeKinds, n), EmitCode(as, e)  PROVE  CodesOK(codes', n)
    <2>1. DOMAIN codes' = Attempts
      BY <1>2, Zenon DEF EmitCode
    <2>2. ASSUME NEW a \in Attempts  PROVE  ChannelOK(codes'[a], CodeKinds, n)
      <3>1. ChannelOK(codes[a], CodeKinds, n)
        BY <2>2, Zenon DEF CodesOK
      <3>2. codes'[a] = IF a \in as /\ attempts[a].fwd # "over" /\ Len(codes[a]) < Buffer
                        THEN Append(codes[a], e) ELSE codes[a]
        BY <1>2, <2>2, Zenon DEF EmitCode
      <3> QED BY <1>2, <3>1, <3>2, ChannelFacts, Zenon
    <2> QED BY <2>1, <2>2, Zenon DEF CodesOK
  <1> QED BY <1>1, <1>2, Zenon

\* The events there are.
LEMMA EventFacts ==
    ASSUME NEW n \in Nat, NEW ks \in {Kinds, CodeKinds}
    PROVE  /\ \A a \in Attempts : Event("code", a) \in EventRecords(ks, n)
           /\ \A d \in 1..n : Event("succeeded", d) \in EventRecords(ks, n)
           /\ \A k \in ks \ {"code", "succeeded"} : Event(k, 0) \in EventRecords(ks, n)
  <1>1. Attempts \subseteq Nat /\ 1..n \subseteq Nat /\ 0 \in Nat
    BY PairingAssumption DEF Attempts
  <1>2. \A k, d : Event(k, d).kind = k /\ Event(k, d).dev = d
    BY Zenon DEF Event
  <1>3. \A k \in ks, d \in Nat : Event(k, d) \in [kind : ks, dev : Nat]
    BY DEF Event
  <1>4. "code" \in ks /\ "succeeded" \in ks /\ "code" # "succeeded"
    BY DEF Kinds, CodeKinds
  <1>5. ASSUME NEW a \in Attempts  PROVE  Event("code", a) \in EventRecords(ks, n)
    <2>1. /\ Event("code", a) \in [kind : ks, dev : Nat]
          /\ Event("code", a).kind = "code" /\ Event("code", a).dev = a
      BY <1>1, <1>2, <1>3, <1>4, Zenon
    <2> QED BY <1>4, <2>1, Zenon DEF EventRecords
  <1>6. ASSUME NEW d \in 1..n  PROVE  Event("succeeded", d) \in EventRecords(ks, n)
    <2>1. /\ Event("succeeded", d) \in [kind : ks, dev : Nat]
          /\ Event("succeeded", d).kind = "succeeded" /\ Event("succeeded", d).dev = d
      BY <1>1, <1>2, <1>3, <1>4, Zenon
    <2> QED BY <1>4, <2>1, Zenon DEF EventRecords
  <1>7. ASSUME NEW k \in ks \ {"code", "succeeded"}  PROVE  Event(k, 0) \in EventRecords(ks, n)
    BY <1>1, <1>2, <1>3, Zenon DEF EventRecords
  <1> QED BY <1>5, <1>6, <1>7, Zenon

\* The channels, in a step that links no device.
LEMMA Channels ==
    ASSUME IInv
    PROVE  /\ ChannelOK(events, Kinds, Len(linked)) /\ CodesOK(codes, Len(linked))
           /\ \A e \in EventRecords(Kinds, Len(linked)) : Emit(e) => EventsGood
           /\ \A e \in EventRecords(CodeKinds, Len(linked)) : \A as : EmitCode(as, e) => CodesGood
  <1>1. ChannelOK(events, Kinds, Len(linked)) /\ CodesOK(codes, Len(linked)) /\ Len(linked) \in Nat
    BY Fields, Zenon DEF IInv, Types
  <1> QED BY <1>1, EmitFacts, Zenon DEF EventsGood, CodesGood

\* CloseLib only closes.
LEMMA CloseFacts ==
    ASSUME IInv, NEW as
    PROVE  /\ CloseLib(as) \in [Attempts -> AttemptRecords]
           /\ \A a \in Attempts : CloseLib(as)[a].lib => attempts[a].lib
           /\ \A a \in Attempts \cap as : ~CloseLib(as)[a].lib
  <1> DEFINE r(a) == [attempts[a] EXCEPT !.lib = FALSE]
  <1>1. \A a \in Attempts : attempts[a] \in AttemptRecords
    BY Fields, Zenon
  <1>2. \A a \in Attempts : r(a) \in AttemptRecords /\ ~r(a).lib
    BY <1>1, Zenon DEF AttemptRecords
  <1>3. CloseLib(as) = [a \in Attempts |-> IF a \in as THEN r(a) ELSE attempts[a]]
    BY Zenon DEF CloseLib
  <1> HIDE DEF r
  <1> QED BY <1>1, <1>2, <1>3, Zenon


\* The client: its socket, the device it loses.
LEMMA ClientFacts ==
    ASSUME IInv
    PROVE  /\ \A s \in Sockets :
                 client' = [client EXCEPT !.sock = s] =>
                     ClientGood /\ ClientCalm /\ client'.sock = s /\ client'.dev = client.dev
           /\ client' = [client EXCEPT !.sock = Closed, !.auth = FALSE] =>
                 ClientGood /\ ClientCalm /\ SocketCalm
                    /\ client'.sock = Closed /\ client'.dev = client.dev
           /\ client' = [client EXCEPT !.auth = TRUE] =>
                 ClientGood /\ ClientCalm /\ client'.sock = client.sock
           /\ client' = [dev |-> 0, sock |-> Closed, auth |-> FALSE] =>
                 ClientGood /\ ClientCalm /\ SocketCalm /\ client'.dev = 0
  <1>1. client \in ClientRecords /\ client.dev \in 0..Len(linked)
    BY Fields, Zenon
  <1>2. Closed \in Sockets /\ 0 \in 0..MaxPairings /\ client.dev <= Len(linked) /\ 0 <= Len(linked)
    BY <1>1, Values, Fields
  <1>3. \A s \in Sockets : /\ [client EXCEPT !.sock = s] \in ClientRecords
                           /\ [client EXCEPT !.sock = s].dev = client.dev
                           /\ [client EXCEPT !.sock = s].sock = s
    BY <1>1, Zenon DEF ClientRecords
  <1>4. /\ [client EXCEPT !.sock = Closed, !.auth = FALSE] \in ClientRecords
        /\ [client EXCEPT !.sock = Closed, !.auth = FALSE].dev = client.dev
        /\ [client EXCEPT !.sock = Closed, !.auth = FALSE].sock = Closed
    BY <1>1, <1>2, Zenon DEF ClientRecords
  <1>5. /\ [client EXCEPT !.auth = TRUE] \in ClientRecords
        /\ [client EXCEPT !.auth = TRUE].dev = client.dev
        /\ [client EXCEPT !.auth = TRUE].sock = client.sock
    BY <1>1, Zenon DEF ClientRecords
  <1>6. /\ [dev |-> 0, sock |-> Closed, auth |-> FALSE] \in ClientRecords
        /\ [dev |-> 0, sock |-> Closed, auth |-> FALSE].dev = 0
        /\ [dev |-> 0, sock |-> Closed, auth |-> FALSE].sock = Closed
    BY <1>2, Zenon DEF ClientRecords
  <1>a. ASSUME NEW s \in Sockets, client' = [client EXCEPT !.sock = s]
        PROVE  ClientGood /\ ClientCalm /\ client'.sock = s /\ client'.dev = client.dev
    BY <1>2, <1>3, <1>a, Zenon DEF ClientGood, ClientOK, ClientCalm
  <1>b. ASSUME client' = [client EXCEPT !.sock = Closed, !.auth = FALSE]
        PROVE  ClientGood /\ ClientCalm /\ SocketCalm
                 /\ client'.sock = Closed /\ client'.dev = client.dev
    BY <1>2, <1>4, <1>b, Zenon DEF ClientGood, ClientOK, ClientCalm, SocketCalm
  <1>c. ASSUME client' = [client EXCEPT !.auth = TRUE]
        PROVE  ClientGood /\ ClientCalm /\ client'.sock = client.sock
    BY <1>2, <1>5, <1>c, Zenon DEF ClientGood, ClientOK, ClientCalm
  <1>d. ASSUME client' = [dev |-> 0, sock |-> Closed, auth |-> FALSE]
        PROVE  ClientGood /\ ClientCalm /\ SocketCalm /\ client'.dev = 0
    BY <1>2, <1>6, <1>d, Zenon DEF ClientGood, ClientOK, ClientCalm, SocketCalm
  <1> QED BY <1>a, <1>b, <1>c, <1>d, Zenon

\* The entry of the sessions map.
LEMMA ManagedFacts ==
    ASSUME IInv
    PROVE  /\ \A a \in 0..MaxAttempts :
                 managed' = [managed EXCEPT !.pairing = a] =>
                     ManagedGood /\ ManagedCalm /\ managed'.live = managed.live
           /\ managed' = [managed EXCEPT !.pairing = 0, !.live = FALSE] =>
                 ManagedGood /\ ManagedCalm /\ ~managed'.live
  <1>1. managed \in ManagedRecords /\ 0 \in 0..MaxAttempts
    BY Fields, Values, Zenon
  <1>2. \A a \in 0..MaxAttempts : /\ [managed EXCEPT !.pairing = a] \in ManagedRecords
                                  /\ [managed EXCEPT !.pairing = a].live = managed.live
    BY <1>1, Zenon DEF ManagedRecords
  <1>3. /\ [managed EXCEPT !.pairing = 0, !.live = FALSE] \in ManagedRecords
        /\ ~[managed EXCEPT !.pairing = 0, !.live = FALSE].live
    BY <1>1, Zenon DEF ManagedRecords
  <1>a. ASSUME NEW a \in 0..MaxAttempts, managed' = [managed EXCEPT !.pairing = a]
        PROVE  ManagedGood /\ ManagedCalm /\ managed'.live = managed.live
    BY <1>2, <1>a, Zenon DEF ManagedGood, ManagedCalm
  <1>b. ASSUME managed' = [managed EXCEPT !.pairing = 0, !.live = FALSE]
        PROVE  ManagedGood /\ ManagedCalm /\ ~managed'.live
    BY <1>3, <1>b, Zenon DEF ManagedGood, ManagedCalm
  <1> QED BY <1>a, <1>b, Zenon

\* An attempt cancelled, and with it the session stopped (cancelPairing, stop).
LEMMA CancelStep ==
    ASSUME IInv
    PROVE  /\ attempts' = Cancelled(managed.pairing) => AttemptsGood /\ AttemptsCalm
           /\ CancelPairing => /\ AttemptsGood /\ AttemptsCalm /\ ManagedGood /\ ManagedCalm
                               /\ client' = client /\ SocketCalm
           /\ Stop => /\ AttemptsGood /\ AttemptsCalm /\ ManagedGood /\ ManagedCalm
                      /\ ClientGood /\ ClientCalm /\ SocketCalm /\ Survives
  <1>0. managed.pairing \in 0..MaxAttempts /\ 0 \in 0..MaxAttempts /\ Types
    BY Fields, Values, Zenon DEF IInv
  <1>1. ASSUME attempts' = Cancelled(managed.pairing)  PROVE  AttemptsGood /\ AttemptsCalm
    BY <1>0, <1>1, CancelFacts, Zenon DEF AttemptsGood, AttemptsCalm
  <1>2. ASSUME CancelPairing
        PROVE  /\ AttemptsGood /\ AttemptsCalm /\ ManagedGood /\ ManagedCalm
               /\ client' = client /\ SocketCalm
    <2>1. ManagedGood /\ ManagedCalm /\ managed'.live = managed.live
      BY <1>0, <1>2, ManagedFacts, Zenon DEF CancelPairing
    <2>2. client' = client
      BY <1>0, <1>2, CancelFacts, Zenon DEF CancelPairing
    <2>3. SocketCalm
      BY <2>1, <2>2, Zenon DEF IInv, Settled, SocketCalm
    <2> QED BY <1>1, <1>2, <2>1, <2>2, <2>3, Zenon DEF CancelPairing
  <1>3. ASSUME Stop
        PROVE  /\ AttemptsGood /\ AttemptsCalm /\ ManagedGood /\ ManagedCalm
               /\ ClientGood /\ ClientCalm /\ SocketCalm /\ Survives
    <2>1. ManagedGood /\ ManagedCalm /\ ~managed'.live
      BY <1>3, ManagedFacts, Zenon DEF Stop
    <2>2. ClientGood /\ ClientCalm /\ SocketCalm
      BY <1>3, ClientFacts, Zenon DEF Stop
    <2> QED BY <1>1, <1>3, <2>1, <2>2, Zenon DEF Stop, Survives
  <1> QED BY <1>1, <1>2, <1>3, Zenon


\* An attempt changed in what does not concern the library's side.
LEMMA AttemptFacts ==
    ASSUME IInv, NEW a, NEW r, attempts' = [attempts EXCEPT ![a] = r],
           a \in Attempts => r \in AttemptRecords /\ (r.lib => attempts[a].lib)
    PROVE  AttemptsGood /\ AttemptsCalm
  <1>1. attempts \in [Attempts -> AttemptRecords]
    BY Zenon DEF IInv, Types
  <1>2. CASE a \in Attempts
    BY <1>1, <1>2, Zenon DEF AttemptsGood, AttemptsCalm
  <1>3. CASE a \notin Attempts
    <2>1. attempts' = attempts
      BY <1>1, <1>3, Zenon
    <2> QED BY <2>1, Still, Zenon
  <1> QED BY <1>2, <1>3, Zenon

-----------------------------------------------------------------------------
(* The library, the phone and the passing of time.                         *)

\* A step that leaves the socket alone and the session where it is.
LEMMA SocketStays ==
    ASSUME IInv, client'.sock = client.sock, managed'.live = managed.live
    PROVE  SocketCalm /\ Survives
  BY Zenon DEF IInv, Settled, SocketCalm, Survives

\* The items of a QR channel, and an attempt the library gives up.
LEMMA AttemptStep ==
    ASSUME IInv, NEW a \in Attempts,
           \/ ShowCode(a) \/ RunOut(a) \/ Abandon(a) \/ WindowElapses(a) \/ StopForward(a)
    PROVE  Kept
  <1>n. Len(linked) \in Nat /\ attempts[a] \in AttemptRecords
    BY Fields, Zenon
  <1>1. CASE ShowCode(a)
    <2> DEFINE r == [attempts[a] EXCEPT !.code = "sent"]
    <2>1. r \in AttemptRecords /\ r.lib = attempts[a].lib
      BY <1>n, Zenon DEF AttemptRecords
    <2>2. attempts' = [attempts EXCEPT ![a] = r]
      BY <1>1, Zenon DEF ShowCode
    <2> HIDE DEF r
    <2>3. AttemptsGood /\ AttemptsCalm
      BY <2>1, <2>2, AttemptFacts, Zenon
    <2>4. CodesGood
      BY <1>1, <1>n, EventFacts, Channels, Zenon DEF ShowCode
    <2> QED BY <1>1, <2>3, <2>4, Still, CalmKeeps, Zenon DEF ShowCode, Typed, Calm
  <1>2. CASE RunOut(a)
    <2>1. CodesGood
      <3>1. "expired" \in CodeKinds \ {"code", "succeeded"}
        BY DEF Kinds, CodeKinds
      <3>2. Event("expired", 0) \in EventRecords(CodeKinds, Len(linked))
        BY <1>n, <3>1, EventFacts, Zenon
      <3> QED BY <1>2, <3>2, Channels, Zenon DEF RunOut
    <2>2. AttemptsGood /\ AttemptsCalm
      BY <1>2, CloseFacts, Zenon DEF RunOut, AttemptsGood, AttemptsCalm
    <2>3. ClientGood /\ ClientCalm /\ SocketCalm
      BY <1>2, ClientFacts, Zenon DEF RunOut
    <2>4. Survives
      BY <1>2, Zenon DEF RunOut, Survives
    <2> QED BY <1>2, <2>1, <2>2, <2>3, <2>4, Still, CalmKeeps, Zenon DEF RunOut, Typed, Calm
  <1>3. CASE Abandon(a)
    <2>1. AttemptsGood /\ AttemptsCalm
      BY <1>3, CloseFacts, Zenon DEF Abandon, AttemptsGood, AttemptsCalm
    <2>2. ClientGood /\ ClientCalm /\ SocketCalm
      BY <1>3, Still, ClientFacts, Zenon DEF Abandon
    <2>3. Survives
      BY <1>3, Zenon DEF Abandon, OpenQR, IInv, Settled, NoneOpen, Survives
    <2> QED BY <1>3, <2>1, <2>2, <2>3, Still, CalmKeeps, Zenon DEF Abandon, Typed, Calm
  <1>4. CASE WindowElapses(a)
    <2> DEFINE r == [attempts[a] EXCEPT !.ctx = "elapsed"]
    <2>1. r \in AttemptRecords /\ r.lib = attempts[a].lib
      BY <1>n, Zenon DEF AttemptRecords
    <2>2. attempts' = [attempts EXCEPT ![a] = r]
      BY <1>4, Zenon DEF WindowElapses
    <2> HIDE DEF r
    <2>3. AttemptsGood /\ AttemptsCalm
      BY <2>1, <2>2, AttemptFacts, Zenon
    <2>4. client' = client
      <3>1. client.sock # Ctx("attempt", a)
        BY Fields, SocketFacts, Zenon
      <3> QED BY <1>4, <3>1, Zenon DEF WindowElapses, Unbound
    <2> QED BY <1>4, <2>3, <2>4, Still, CalmKeeps, Zenon DEF WindowElapses, Typed, Calm
  <1>5. CASE StopForward(a)
    <2> DEFINE r == [attempts[a] EXCEPT !.fwd = "over"]
    <2>1. r \in AttemptRecords /\ r.lib = attempts[a].lib
      BY <1>n, Zenon DEF AttemptRecords
    <2>2. attempts' = [attempts EXCEPT ![a] = r]
      BY <1>5, Zenon DEF StopForward
    <2> HIDE DEF r
    <2>3. AttemptsGood /\ AttemptsCalm
      BY <2>1, <2>2, AttemptFacts, Zenon
    <2>4. CodesGood
      <3>1. PICK k \in 0..Len(codes[a]) : codes' = [codes EXCEPT ![a] = SubSeq(@, 1, k)]
        BY <1>5, Zenon DEF StopForward
      <3>2. CodesOK(codes, Len(linked))
        BY Channels, Zenon
      <3>3. ChannelOK(SubSeq(codes[a], 1, k), CodeKinds, Len(linked))
        BY <1>n, <3>2, ChannelFacts, Zenon DEF CodesOK
      <3> QED BY <3>1, <3>2, <3>3, Zenon DEF CodesOK, CodesGood
    <2> QED BY <1>5, <2>3, <2>4, Still, CalmKeeps, Zenon DEF StopForward, Typed, Calm
  <1> QED BY <1>1, <1>2, <1>3, <1>4, <1>5, Zenon


\* What grows with the devices linked.
LEMMA Grows ==
    ASSUME NEW n \in Nat
    PROVE  /\ \A q, ks : ChannelOK(q, ks, n) => ChannelOK(q, ks, n + 1)
           /\ \A cs : CodesOK(cs, n) => CodesOK(cs, n + 1)
           /\ \A p : PumpOK(p, n) => PumpOK(p, n + 1)
  <1>1. \A ks : EventRecords(ks, n) \subseteq EventRecords(ks, n + 1)
    <2>1. 1..n \subseteq 1..(n + 1)
      OBVIOUS
    <2> QED BY <2>1, Zenon DEF EventRecords
  <1>2. ASSUME NEW q, NEW ks, ChannelOK(q, ks, n)  PROVE  ChannelOK(q, ks, n + 1)
    <2>1. q \in Seq(EventRecords(ks, n + 1))
      BY <1>1, <1>2 DEF ChannelOK
    <2> QED BY <1>2, <2>1, Zenon DEF ChannelOK
  <1>3. ASSUME NEW p, PumpOK(p, n)  PROVE  PumpOK(p, n + 1)
    <2>1. p.dev \in 0..MaxPairings /\ p.dev <= n
      BY <1>3, Zenon DEF PumpOK, PumpRecords
    <2>2. p.dev <= n + 1
      BY <2>1
    <2> QED BY <1>3, <2>2, Zenon DEF PumpOK
  <1> QED BY <1>2, <1>3, Zenon DEF CodesOK

\* A device is linked: the library has given up every attempt.
LEMMA LinkStep ==
    ASSUME IInv, NEW n \in Numbers, Link(n)
    PROVE  Kept
  <1> DEFINE dev == Len(linked) + 1
  <1>1. /\ Len(linked) \in Nat /\ Len(linked) < MaxPairings /\ linked \in Seq(Numbers)
        /\ material \subseteq 1..Len(linked) /\ linked' = Append(linked, n)
        /\ material' = material \cup {dev}
    BY Fields, Zenon DEF Link, IInv, Types, StoreOK
  <1>2. /\ dev \in Nat /\ dev # 0 /\ dev \in 0..MaxPairings /\ dev \in 1..dev
        /\ Len(linked') = dev /\ linked' \in Seq(Numbers)
        /\ dev <= MaxPairings /\ material' \subseteq 1..dev /\ dev <= dev
    <2>1. Len(linked') = dev /\ linked' \in Seq(Numbers)
      BY <1>1
    <2>2. MaxPairings \in Nat
      BY PairingAssumption, Zenon
    <2>3. /\ dev \in Nat /\ dev # 0 /\ dev \in 0..MaxPairings /\ dev \in 1..dev
          /\ dev <= MaxPairings /\ dev <= dev /\ 1..Len(linked) \subseteq 1..dev
      BY <1>1, <2>2
    <2> HIDE DEF dev
    <2>4. material' \subseteq 1..dev
      BY <1>1, <2>3, Zenon
    <2> QED BY <2>1, <2>3, <2>4, Zenon
  <1>3. StoreOK(linked', material')
    BY <1>2, Zenon DEF StoreOK
  <1>4. /\ ChannelOK(events, Kinds, dev) /\ CodesOK(codes, dev) /\ PumpOK(pump, dev)
    BY <1>1, Channels, Grows, Zenon DEF IInv, Types
  <1>5. \A ks \in {Kinds, CodeKinds} : Event("succeeded", dev) \in EventRecords(ks, dev)
    BY <1>2, EventFacts, Zenon
  <1>6. ChannelOK(events', Kinds, dev) /\ CodesOK(codes', dev) /\ lost' \in BOOLEAN
    BY <1>2, <1>4, <1>5, EmitFacts, Zenon DEF Link
  <1>7. attempts' \in [Attempts -> AttemptRecords] /\ NoneOpen(attempts')
    BY CloseFacts, Zenon DEF Link, NoneOpen
  <1>8. client' \in ClientRecords /\ client'.dev = dev /\ client'.sock = client.sock
    <2>1. client \in ClientRecords
      BY Fields, Zenon
    <2>2. client' = [client EXCEPT !.dev = dev]
      BY Zenon DEF Link
    <2> HIDE DEF dev
    <2> QED BY <1>2, <2>1, <2>2, Zenon DEF ClientRecords
  <1> HIDE DEF dev
  <1>9. Types'
    BY <1>2, <1>3, <1>4, <1>6, <1>7, <1>8, Zenon DEF IInv, Types, Link, ClientOK
  <1>10. Settled(client', attempts', managed', pump')
    BY <1>7, <1>8, Zenon DEF IInv, Settled, Link
  <1>11. Survives
    BY <1>8, Zenon DEF Survives
  <1> QED BY <1>9, <1>10, <1>11, Zenon DEF IInv, Kept

\* The other things the library does.
LEMMA LibraryStep ==
    ASSUME IInv, Refuse \/ Authenticate \/ Unlink
    PROVE  Kept
  <1>1. /\ Event("failed", 0) \in EventRecords(CodeKinds, Len(linked))
        /\ Event("failed", 0) \in EventRecords(Kinds, Len(linked))
        /\ Event("connected", 0) \in EventRecords(Kinds, Len(linked))
        /\ Event("logged_out", 0) \in EventRecords(Kinds, Len(linked))
    <2>1. /\ {"failed", "connected", "logged_out"} \subseteq Kinds \ {"code", "succeeded"}
          /\ "failed" \in CodeKinds \ {"code", "succeeded"}
      BY DEF Kinds, CodeKinds
    <2> QED BY <2>1, Fields, EventFacts, Zenon
  <1>2. CASE Refuse
    <2>1. EventsGood /\ CodesGood
      BY <1>1, <1>2, Channels, Zenon DEF Refuse
    <2>2. AttemptsGood /\ AttemptsCalm
      BY <1>2, CloseFacts, Zenon DEF Refuse, AttemptsGood, AttemptsCalm
    <2> QED BY <1>2, <2>1, <2>2, Still, CalmKeeps, Zenon DEF Refuse, Typed, Calm
  <1>3. CASE Authenticate
    <2>1. EventsGood
      BY <1>1, <1>3, Channels, Zenon DEF Authenticate
    <2>2. ClientGood /\ ClientCalm /\ client'.sock = client.sock
      BY <1>3, ClientFacts, Zenon DEF Authenticate
    <2>3. SocketCalm /\ Survives
      BY <1>3, <2>2, SocketStays, Zenon DEF Authenticate
    <2> QED BY <1>3, <2>1, <2>2, <2>3, Still, CalmKeeps, Zenon DEF Authenticate, Typed, Calm
  <1>4. CASE Unlink
    <2>1. EventsGood
      BY <1>1, <1>4, Channels, Zenon DEF Unlink
    <2>2. ClientGood /\ ClientCalm /\ SocketCalm /\ Survives
      BY <1>4, ClientFacts, Zenon DEF Unlink, Survives
    <2>3. StoreGood
      BY <1>4, Still, Zenon DEF Unlink, IInv, Types, StoreOK, StoreGood
    <2>4. unlinked' \in 0..MaxLogouts
      <3>1. unlinked \in 0..MaxLogouts /\ unlinked < MaxLogouts /\ unlinked' = unlinked + 1
        BY <1>4, Zenon DEF Unlink, IInv, Types
      <3> QED BY <3>1, PairingAssumption
    <2>5. RestGood
      BY <1>4, <2>4, Zenon DEF Unlink, IInv, Types, RestGood
    <2> QED BY <1>4, <2>1, <2>2, <2>3, <2>5, Still, CalmKeeps, Zenon DEF Unlink, Typed, Calm
  <1> QED BY <1>2, <1>3, <1>4, Zenon


-----------------------------------------------------------------------------
(* The session and its pump.                                               *)

\* start, with the device of the row, and the dial on the session's context.
LEMMA SessionStep ==
    ASSUME IInv, Start \/ Reconnect
    PROVE  Kept
  <1>1. CASE Start
    <2>1. ManagedGood /\ managed'.live
      <3>1. managed.session + 1 \in Nat /\ 0 \in 0..MaxAttempts
        BY Fields, Values
      <3>2. managed' = [live |-> TRUE, pairing |-> 0, session |-> managed.session + 1]
        BY <1>1, Zenon DEF Start
      <3> QED BY <3>1, <3>2, Zenon DEF ManagedGood, ManagedRecords
    <2>2. StoredDevice \in 0..Len(linked)
      <3>1. material \subseteq 1..Len(linked) /\ Len(linked) \in Nat
        BY Fields, Zenon DEF IInv, Types, StoreOK
      <3>2. 1..Len(linked) \subseteq 0..Len(linked) /\ 0 \in 0..Len(linked)
        BY <3>1
      <3> QED BY <3>1, <3>2, Zenon DEF StoredDevice
    <2>3. StoredDevice \in 0..MaxPairings /\ StoredDevice <= Len(linked)
      BY <2>2, Fields
    <2>4. ClientGood /\ client'.sock = Closed
      <3>1. client' = [dev |-> StoredDevice, sock |-> Closed, auth |-> FALSE]
        BY <1>1, Zenon DEF Start
      <3> HIDE DEF StoredDevice
      <3> QED BY <2>3, <3>1, Values, Zenon DEF ClientGood, ClientOK, ClientRecords
    <2>5. PumpGood /\ pump'.at # "done"
      <3>1. 0 <= Len(linked)
        BY Fields
      <3> QED BY <1>1, <3>1, Values, Zenon DEF Start, PumpGood, PumpOK
    <2>6. RestGood
      BY <1>1, Zenon DEF Start, IInv, Types, RestGood
    <2>7. Settled(client', attempts', managed', pump')
      BY <1>1, <2>1, <2>5, Zenon DEF Start, IInv, Settled
    <2>8. Survives
      <3>1. client.sock = Closed
        BY <1>1, Zenon DEF Start, IInv, Settled
      <3>2. client.sock[1] = "closed"
        BY <3>1, Values, SocketFacts, Zenon
      <3> QED BY <3>2, Zenon DEF Survives
    <2> QED BY <1>1, <2>1, <2>4, <2>5, <2>6, <2>7, <2>8, Still, TypedKeeps, Zenon DEF Start, Typed
  <1>2. CASE Reconnect /\ dialler = "state" /\ client' = client
    <2>1. RowGood
      <3>1. "connecting" \in States
        BY Zenon DEF States
      <3>2. row' = [row EXCEPT !.state = "connecting"] \/ row' = row
        BY <1>2, Zenon DEF Reconnect
      <3> QED BY <3>1, <3>2, RowFacts, Still, Zenon
    <2>2. RestGood
      BY <1>2, Zenon DEF Reconnect, IInv, Types, RestGood
    <2> QED BY <1>2, <2>1, <2>2, Still, CalmKeeps, Zenon DEF Reconnect, Typed, Calm
  <1>3. CASE Reconnect /\ dialler = "dial"
    <2> DEFINE s == IF managed.live /\ client.sock = Closed THEN SessionCtx ELSE client.sock
    <2>1. s \in Sockets
      BY Values, Fields, Zenon
    <2>2. client' = [client EXCEPT !.sock = s]
      BY <1>3, Zenon DEF Reconnect
    <2>3. s # client.sock => client.sock = Closed /\ managed.live
      BY Zenon
    <2> HIDE DEF s
    <2>4. ClientGood /\ ClientCalm /\ client'.sock = s
      BY <2>1, <2>2, ClientFacts, Zenon
    <2>5. SocketCalm
      BY <1>3, <2>3, <2>4, Zenon DEF Reconnect, IInv, Settled, SocketCalm
    <2>6. Survives
      BY <2>3, <2>4, Values, SocketFacts, Zenon DEF Survives
    <2>7. RowGood /\ RestGood
      BY <1>3, Still, Zenon DEF Reconnect, IInv, Types, RestGood
    <2> QED BY <1>3, <2>4, <2>5, <2>6, <2>7, Still, CalmKeeps, Zenon DEF Reconnect, Typed, Calm
  <1> QED BY <1>1, <1>2, <1>3, Zenon DEF Reconnect

\* A step of the pump, and the device of it.
LEMMA PumpFacts ==
    ASSUME IInv, NEW at \in {"loop", "identity", "ensure", "connected", "material", "stop"},
           NEW d \in 0..Len(linked), NEW n \in Numbers \cup {NoNumber}, at = "identity" => d # 0,
           pump' = [at |-> at, dev |-> d, prev |-> n]
    PROVE  PumpGood /\ PumpCalm
  <1>1. d \in 0..MaxPairings /\ d <= Len(linked)
    BY Fields
  <1> QED BY <1>1, Zenon DEF PumpGood, PumpCalm, PumpOK, PumpRecords

\* The same, back in the loop or on the way with no device.
LEMMA PumpMoves ==
    ASSUME IInv
    PROVE  /\ pump' = AtLoop => PumpGood /\ PumpCalm
           /\ \A at \in {"connected", "material", "stop"} :
                 pump' = [AtLoop EXCEPT !.at = at] => PumpGood /\ PumpCalm
           /\ pump' = [AtLoop EXCEPT !.at = "ensure", !.dev = client.dev] => PumpGood /\ PumpCalm
  <1>1. /\ client.dev \in 0..MaxPairings /\ client.dev <= Len(linked) /\ 0 <= Len(linked)
    BY Fields
  <1>2. AtLoop \in PumpRecords /\ AtLoop.dev = 0 /\ AtLoop.at = "loop"
    BY Values, Zenon
  <1>3. ASSUME NEW at \in {"connected", "material", "stop"}, pump' = [AtLoop EXCEPT !.at = at]
        PROVE  PumpGood /\ PumpCalm
    <2>1. pump' \in PumpRecords /\ pump'.dev = 0 /\ pump'.at = at
      BY <1>2, <1>3, Zenon DEF PumpRecords
    <2> QED BY <1>1, <2>1, Zenon DEF PumpGood, PumpCalm, PumpOK
  <1>4. ASSUME pump' = [AtLoop EXCEPT !.at = "ensure", !.dev = client.dev]
        PROVE  PumpGood /\ PumpCalm
    <2>1. pump' \in PumpRecords /\ pump'.dev = client.dev /\ pump'.at = "ensure"
      BY <1>1, <1>2, <1>4, Zenon DEF PumpRecords
    <2> QED BY <1>1, <2>1, Zenon DEF PumpGood, PumpCalm, PumpOK
  <1>5. ASSUME pump' = AtLoop  PROVE  PumpGood /\ PumpCalm
    BY <1>1, <1>2, <1>5, Zenon DEF PumpGood, PumpCalm, PumpOK
  <1> QED BY <1>3, <1>4, <1>5, Zenon

\* The number a device was linked with.
LEMMA NumberFacts ==
    ASSUME IInv, NEW d \in 0..Len(linked)
    PROVE  NumberOf(d) \in Numbers \cup {NoNumber} /\ (d # 0 => NumberOf(d) \in Numbers)
  <1>1. linked \in Seq(Numbers)
    BY Zenon DEF IInv, Types, StoreOK
  <1> QED BY <1>1 DEF NumberOf


\* The number paired before is a number, or none.
LEMMA PreviousFacts ==
    ASSUME IInv
    PROVE  PreviousPhone \in Numbers \cup {NoNumber}
  <1>1. row \in RowRecords /\ trail \in Seq(TrailRecords)
    BY Zenon DEF IInv, Types
  <1>2. row.phone \in Numbers \cup {NoNumber}
    BY <1>1, Zenon DEF RowRecords
  <1>3. trail # <<>> => trail[Len(trail)] \in TrailRecords
    BY <1>1
  <1>4. \A r \in TrailRecords : r.phone \in Numbers
    BY Zenon DEF TrailRecords
  <1> QED BY <1>2, <1>3, <1>4, Zenon DEF PreviousPhone

\* handle, for the events a QR channel carries.
LEMMA HandlePairingStep ==
    ASSUME IInv, NEW e \in EventRecords(CodeKinds, Len(linked)), HandlePairing(e)
    PROVE  /\ RowGood /\ ManagedGood /\ AttemptsGood /\ ClientGood /\ PumpGood
           /\ Calm /\ Survives
  <1>e. /\ e.kind \in CodeKinds
        /\ e.kind = "succeeded" => e.dev \in 1..Len(linked)
        /\ e.kind = "code" => e.dev \in Attempts
    BY Zenon DEF EventRecords
  <1>1. CASE e.kind = "code"
    <2> DEFINE r == [attempts[e.dev] EXCEPT !.code = "published"]
    <2>0. HandlePairingCode(e)
      BY <1>1 DEF HandlePairing
    <2>1. r \in AttemptRecords /\ r.lib = attempts[e.dev].lib
      BY <1>1, <1>e, Fields, Zenon DEF AttemptRecords
    <2>2. attempts' = [attempts EXCEPT ![e.dev] = r]
      BY <2>0, Zenon DEF HandlePairingCode
    <2> HIDE DEF r
    <2>3. AttemptsGood /\ AttemptsCalm
      BY <2>1, <2>2, AttemptFacts, Zenon
    <2> QED BY <2>0, <2>3, Still, Zenon DEF HandlePairingCode, Calm
  <1>2. CASE e.kind = "succeeded"
    <2>0. HandlePairSuccess(e)
      BY <1>2 DEF HandlePairing
    <2>1. e.dev \in 0..Len(linked) /\ e.dev # 0
      BY <1>2, <1>e, Fields
    <2>2. PumpGood /\ PumpCalm
      BY <2>0, <2>1, PreviousFacts, PumpFacts, Zenon DEF HandlePairSuccess
    <2> QED BY <2>0, <2>2, CancelStep, Still, Zenon DEF HandlePairSuccess, Calm
  <1>3. CASE e.kind \in {"expired", "failed"}
    <2>0. HandlePairingEnded
      BY <1>3, Zenon DEF HandlePairing
    <2>1. RowGood
      <3>1. "registered" \in States /\ "disconnected" \in States
        BY Zenon DEF States
      <3> QED BY <2>0, <3>1, RowFacts, Zenon DEF HandlePairingEnded
    <2> QED BY <2>0, <2>1, CancelStep, Still, Zenon DEF HandlePairingEnded, Calm
  <1> QED BY <1>1, <1>2, <1>3, <1>e, Zenon DEF CodeKinds, Kinds

\* handle, for the events of the socket.
LEMMA HandleSocketStep ==
    ASSUME IInv, NEW e \in EventRecords(Kinds, Len(linked)),
           e.kind \in {"connected", "logged_out"}, HandleSocket(e)
    PROVE  /\ RowGood /\ ManagedGood /\ AttemptsGood /\ ClientGood /\ PumpGood
           /\ Calm /\ Survives
  <1>1. CASE e.kind = "connected"
    <2>0. HandleConnected
      BY <1>1 DEF HandleSocket
    <2>1. PumpGood /\ PumpCalm
      BY <2>0, PumpMoves, Zenon DEF HandleConnected
    <2> QED BY <2>0, <2>1, Still, Zenon DEF HandleConnected, Calm
  <1>2. CASE e.kind = "logged_out"
    <2>0. HandleLoggedOut
      BY <1>2 DEF HandleSocket
    <2>1. PumpGood /\ PumpCalm
      BY <2>0, PumpMoves, Zenon DEF HandleLoggedOut
    <2>2. RowGood
      <3>1. "logged_out" \in States
        BY Zenon DEF States
      <3> QED BY <2>0, <3>1, RowFacts, Zenon DEF HandleLoggedOut
    <2> QED BY <2>0, <2>1, <2>2, Still, Zenon DEF HandleLoggedOut, Calm
  <1> QED BY <1>1, <1>2, Zenon


\* The pump takes an event of the socket or of an attempt.
LEMMA TakeStep ==
    ASSUME IInv, TakeEvent \/ \E a \in Attempts : TakeCode(a)
    PROVE  Kept
  <1>n. Len(linked) \in Nat
    BY Fields, Zenon
  <1>1. CASE TakeEvent
    <2>1. ChannelOK(events, Kinds, Len(linked)) /\ events # <<>> /\ events' = Tail(events)
      BY <1>1, Channels, Zenon DEF TakeEvent
    <2>2. Head(events) \in EventRecords(Kinds, Len(linked)) /\ ChannelOK(events', Kinds, Len(linked))
      BY <1>n, <2>1, ChannelFacts, Zenon
    <2>3. /\ UNCHANGED <<trail, material, linked, dialler, calls, lost, unlinked, codes>>
      BY <1>1, Zenon DEF TakeEvent, HandleSocket, HandlePairing
    <2>4. EventsGood
      BY <2>2, <2>3, Zenon DEF EventsGood, IInv, Types
    <2>5. /\ RowGood /\ ManagedGood /\ AttemptsGood /\ ClientGood /\ PumpGood
          /\ Calm /\ Survives
      <3>1. CASE Head(events).kind \in {"connected", "logged_out"}
        <4>1. HandleSocket(Head(events))
          BY <1>1, <3>1, Zenon DEF TakeEvent
        <4> QED BY <2>2, <3>1, <4>1, HandleSocketStep, Zenon
      <3>2. CASE Head(events).kind \notin {"connected", "logged_out"}
        <4>1. Head(events) \in EventRecords(CodeKinds, Len(linked))
          <5>1. Head(events) \in [kind : CodeKinds, dev : Nat]
            BY <2>2, <3>2 DEF EventRecords, CodeKinds
          <5> QED BY <2>2, <5>1, Zenon DEF EventRecords
        <4>2. HandlePairing(Head(events))
          BY <1>1, <3>2, Zenon DEF TakeEvent
        <4> QED BY <4>1, <4>2, HandlePairingStep, Zenon
      <3> QED BY <3>1, <3>2, Zenon
    <2> QED BY <2>3, <2>4, <2>5, Still, CalmKeeps, Zenon DEF Typed
  <1>2. CASE \E a \in Attempts : TakeCode(a)
    <2> PICK a \in Attempts : TakeCode(a)
      BY <1>2, Zenon
    <2>1. ChannelOK(codes[a], CodeKinds, Len(linked)) /\ codes[a] # <<>>
      BY Channels, Zenon DEF TakeCode, CodesOK
    <2>2. /\ Head(codes[a]) \in EventRecords(CodeKinds, Len(linked))
          /\ ChannelOK(Tail(codes[a]), CodeKinds, Len(linked))
      BY <1>n, <2>1, ChannelFacts, Zenon
    <2>3. UNCHANGED <<trail, material, linked, dialler, calls, lost, unlinked, events>>
      BY Zenon DEF TakeCode, HandlePairing
    <2>4. CodesGood
      <3>1. codes' = [codes EXCEPT ![a] = Tail(codes[a])]
        BY Zenon DEF TakeCode
      <3> QED BY <2>2, <3>1, Channels, Zenon DEF CodesGood, CodesOK
    <2>5. /\ RowGood /\ ManagedGood /\ AttemptsGood /\ ClientGood /\ PumpGood
          /\ Calm /\ Survives
      BY <2>2, HandlePairingStep, Zenon DEF TakeCode
    <2> QED BY <2>3, <2>4, <2>5, Still, CalmKeeps, Zenon DEF Typed
  <1> QED BY <1>1, <1>2, Zenon

\* The writes of the pump's handlers.
LEMMA WriteStep ==
    ASSUME IInv, StoreIdentity \/ EnsureIdentity \/ SetConnected \/ ClearMaterial
    PROVE  Kept
  <1>1. /\ pump.dev \in 0..Len(linked) /\ pump.dev \in 0..MaxPairings
        /\ NumberOf(pump.dev) \in Numbers \cup {NoNumber}
        /\ pump.at = "identity" => NumberOf(pump.dev) \in Numbers
    BY Fields, NumberFacts, Zenon DEF IInv, Types, PumpOK
  <1>2. CASE StoreIdentity
    <2>1. RowGood
      BY <1>1, <1>2, RowFacts, Zenon DEF StoreIdentity
    <2>2. PumpGood /\ PumpCalm
      BY <1>2, PumpMoves, Zenon DEF StoreIdentity
    <2>3. TrailGood
      <3> DEFINE r == [phone |-> NumberOf(pump.dev),
                       changed |-> pump.prev \notin {NoNumber, NumberOf(pump.dev)}]
      <3>1. r \in TrailRecords
        BY <1>1, <1>2, Zenon DEF StoreIdentity, TrailRecords
      <3>2. trail' = Append(trail, r) /\ trail \in Seq(TrailRecords)
        BY <1>2, Zenon DEF StoreIdentity, IInv, Types
      <3> HIDE DEF r
      <3> QED BY <3>1, <3>2 DEF TrailGood
    <2> QED BY <1>2, <2>1, <2>2, <2>3, Still, CalmKeeps, Zenon DEF StoreIdentity, Typed, Calm
  <1>3. CASE EnsureIdentity
    <2>1. RowGood
      BY <1>1, <1>3, RowFacts, Zenon DEF EnsureIdentity
    <2>2. PumpGood /\ PumpCalm
      BY <1>3, PumpMoves, Zenon DEF EnsureIdentity
    <2> QED BY <1>3, <2>1, <2>2, Still, CalmKeeps, Zenon DEF EnsureIdentity, Typed, Calm
  <1>4. CASE SetConnected
    <2>1. RowGood
      <3>1. "connected" \in States
        BY Zenon DEF States
      <3> QED BY <1>4, <3>1, RowFacts, Zenon DEF SetConnected
    <2>2. PumpGood /\ PumpCalm
      BY <1>4, PumpMoves, Zenon DEF SetConnected
    <2> QED BY <1>4, <2>1, <2>2, Still, CalmKeeps, Zenon DEF SetConnected, Typed, Calm
  <1>5. CASE ClearMaterial
    <2>1. RowGood
      BY <1>5, Values, RowFacts, Zenon DEF ClearMaterial
    <2>2. PumpGood /\ PumpCalm
      BY <1>5, PumpMoves, Zenon DEF ClearMaterial
    <2> QED BY <1>5, <2>1, <2>2, Still, CalmKeeps, Zenon DEF ClearMaterial, Typed, Calm
  <1> QED BY <1>2, <1>3, <1>4, <1>5, Zenon

\* The end of a session and of its pump.
LEMMA EndStep ==
    ASSUME IInv, StopFromPump \/ PumpReturns
    PROVE  Kept
  <1>1. CASE StopFromPump
    <2>1. PumpGood /\ PumpCalm
      BY <1>1, PumpMoves, Zenon DEF StopFromPump
    <2> QED BY <1>1, <2>1, CancelStep, Still, CalmKeeps, Zenon DEF StopFromPump, Typed, Calm
  <1>2. CASE PumpReturns
    <2> DEFINE over(a) == IF attempts[a].method = "none" THEN Unused
                          ELSE [attempts[a] EXCEPT !.ctx = "elapsed", !.lib = FALSE, !.fwd = "over"]
    <2>1. \A a \in Attempts : over(a) \in AttemptRecords /\ ~over(a).lib
      <3> SUFFICES ASSUME NEW a \in Attempts  PROVE  over(a) \in AttemptRecords /\ ~over(a).lib
        BY Zenon
      <3>1. attempts[a] \in AttemptRecords
        BY Fields, Zenon
      <3>2. /\ [attempts[a] EXCEPT !.ctx = "elapsed", !.lib = FALSE, !.fwd = "over"] \in AttemptRecords
            /\ ~[attempts[a] EXCEPT !.ctx = "elapsed", !.lib = FALSE, !.fwd = "over"].lib
        BY <3>1, Zenon DEF AttemptRecords
      <3> QED BY <3>2, Values, Zenon
    <2>2. attempts' = [a \in Attempts |-> over(a)]
      BY <1>2, Zenon DEF PumpReturns
    <2> HIDE DEF over
    <2>3. AttemptsGood /\ NoneOpen(attempts')
      BY <2>1, <2>2, Zenon DEF AttemptsGood, NoneOpen
    <2>4. PumpGood
      <3>1. pump' = [AtLoop EXCEPT !.at = "done"] /\ AtLoop \in PumpRecords /\ AtLoop.dev = 0
        BY <1>2, Values, Zenon DEF PumpReturns
      <3>2. pump' \in PumpRecords /\ pump'.dev = 0 /\ pump'.at = "done"
        BY <3>1, Zenon DEF PumpRecords
      <3>3. 0 <= Len(linked)
        BY Fields
      <3> QED BY <3>2, <3>3, Zenon DEF PumpGood, PumpOK
    <2>5. EventsGood /\ CodesGood
      <3>1. \A ks : ChannelOK(<<>>, ks, Len(linked))
        BY PairingAssumption DEF ChannelOK
      <3> QED BY <1>2, <3>1, Zenon DEF PumpReturns, EventsGood, CodesGood, CodesOK, IInv, Types
    <2>6. Settled(client', attempts', managed', pump')
      BY <1>2, <2>3, Zenon DEF PumpReturns, IInv, Settled
    <2> QED BY <1>2, <2>3, <2>4, <2>5, <2>6, Still, TypedKeeps, Zenon DEF PumpReturns, Typed
  <1> QED BY <1>1, <1>2, Zenon


-----------------------------------------------------------------------------
(* Commands.                                                               *)

\* A command changed in several fields.
LEMMA CallFacts ==
    ASSUME IInv, NEW c \in Calls, NEW at \in CallSteps
    PROVE  /\ \A op \in Ops :
                 calls' = [calls EXCEPT ![c] = [@ EXCEPT !.op = op, !.at = at]] => CallsGood
           /\ \A n \in Nat :
                 calls' = [calls EXCEPT ![c] = [@ EXCEPT !.at = at, !.session = n]] =>
                     CallsGood /\ calls'[c].at = at
           /\ \A n \in Nat, a \in 0..MaxAttempts :
                 /\ calls' = [calls EXCEPT ![c] = [@ EXCEPT !.at = at, !.session = n, !.att = a]]
                       => CallsGood
                 /\ calls' = [calls EXCEPT ![c] = [@ EXCEPT !.at = at, !.att = a, !.session = n]]
                       => CallsGood
  <1>1. calls[c] \in CallRecords
    BY Fields, Zenon
  <1>2. \A op \in Ops : [calls[c] EXCEPT !.op = op, !.at = at] \in CallRecords
    BY <1>1, Zenon DEF CallRecords
  <1>3. \A n \in Nat : /\ [calls[c] EXCEPT !.at = at, !.session = n] \in CallRecords
                       /\ [calls[c] EXCEPT !.at = at, !.session = n].at = at
    BY <1>1, Zenon DEF CallRecords
  <1>4. \A n \in Nat, a \in 0..MaxAttempts :
            /\ [calls[c] EXCEPT !.at = at, !.session = n, !.att = a] \in CallRecords
            /\ [calls[c] EXCEPT !.at = at, !.att = a, !.session = n] \in CallRecords
    BY <1>1, Zenon DEF CallRecords
  <1> QED BY <1>2, <1>3, <1>4, GotoFacts, Zenon

\* A new attempt, of a session without a device.
LEMMA NewAttemptFacts ==
    ASSUME IInv, FreeAttempts # {}, NEW m \in {"qr", "phone"},
           attempts' = [attempts EXCEPT ![NextAttempt] = NewAttempt(m)]
    PROVE  AttemptsGood /\ NextAttempt \in Attempts /\ NextAttempt \in 0..MaxAttempts
  <1>1. NextAttempt \in FreeAttempts
    BY Zenon DEF NextAttempt
  <1>2. NextAttempt \in Attempts
    BY <1>1, Zenon DEF FreeAttempts
  <1>3. NextAttempt \in 0..MaxAttempts
    BY <1>2 DEF Attempts
  <1>4. NewAttempt(m) \in AttemptRecords
    BY Zenon DEF NewAttempt, AttemptRecords
  <1>5. attempts \in [Attempts -> AttemptRecords]
    BY Zenon DEF IInv, Types
  <1> QED BY <1>2, <1>3, <1>4, <1>5, Zenon DEF AttemptsGood

\* The steps of a command.
LEMMA StepNames ==
    {"enter", "dial", "state", "forward", "code", "command", "clear", "record", "stop", "wait", "return",
     "returned"} \subseteq CallSteps
  BY DEF CallSteps

\* A command arrives and goes, and with it the sockets of its context.
LEMMA ReceiveStep ==
    ASSUME IInv, NEW c \in Calls, Returns(c) \/ \E op \in Commands : Receive(c, op)
    PROVE  Kept
  <1>1. CASE \E op \in Commands : Receive(c, op)
    <2>1. PICK op \in Commands : Receive(c, op)
      BY <1>1, Zenon
    <2>2. op \in Ops
      BY PairingAssumption, Zenon DEF Ops
    <2>3. CallsGood
      BY <2>1, <2>2, StepNames, CallFacts, Zenon DEF Receive
    <2> QED BY <2>1, <2>3, Still, CalmKeeps, Zenon DEF Receive, Typed, Calm
  <1>2. CASE Returns(c)
    <2>1. CallsGood
      <3>1. "returned" \in CallSteps /\ 0 \in Nat /\ 0 \in 0..MaxAttempts
        BY StepNames, Values
      <3> QED BY <1>2, <3>1, CallFacts, Zenon DEF Returns
    <2>2. CASE client.sock = Ctx("command", c)
      <3>1. client' = [client EXCEPT !.sock = Closed, !.auth = FALSE]
        BY <1>2, <2>2, Zenon DEF Returns, Unbound
      <3>2. ClientGood /\ ClientCalm /\ SocketCalm
        BY <3>1, ClientFacts, Zenon
      <3>3. client.sock[1] = "command"
        BY <2>2, Fields, SocketFacts, Zenon
      <3>4. Survives
        BY <3>3, Zenon DEF Survives
      <3> QED BY <1>2, <2>1, <3>2, <3>4, Still, CalmKeeps, Zenon DEF Returns, Typed, Calm
    <2>3. CASE client.sock # Ctx("command", c)
      <3>1. client' = client
        BY <1>2, <2>3, Zenon DEF Returns, Unbound
      <3> QED BY <1>2, <2>1, <3>1, Still, CalmKeeps, Zenon DEF Returns, Typed, Calm
    <2> QED BY <2>2, <2>3, Zenon
  <1> QED BY <1>1, <1>2, Zenon


\* A step after which a session without a device has a new attempt.
LEMMA OpenKeeps ==
    ASSUME IInv, Typed, client.dev = 0, client'.dev = 0, managed.live, managed'.live, pump' = pump
    PROVE  Kept
  <1>1. Settled(client', attempts', managed', pump')
    BY Zenon DEF IInv, Settled
  <1>2. Survives
    BY Zenon DEF Survives
  <1> QED BY <1>1, <1>2, TypedKeeps, Zenon

\* Connect, and the rest of startPairing.
LEMMA ConnectStep ==
    ASSUME IInv, NEW c \in Calls, Connect(c)
    PROVE  Kept
  <1>u. /\ managed.live
        /\ UNCHANGED <<row, trail, material, linked, events, codes, pump, dialler, lost, unlinked>>
    BY Zenon DEF Connect
  <1>1. CASE Goto(c, "return") /\ UNCHANGED <<managed, client, attempts>>
    <2>1. CallsGood
      BY <1>1, StepNames, GotoFacts, Zenon
    <2> QED BY <1>1, <1>u, <2>1, Still, CalmKeeps, Zenon DEF Typed, Calm
  <1>2. CASE /\ client.sock = Closed /\ client' = [client EXCEPT !.sock = Ctx("command", c)]
             /\ Goto(c, "return") /\ UNCHANGED <<managed, attempts>>
    <2>1. CallsGood
      BY <1>2, StepNames, GotoFacts, Zenon
    <2>2. ClientGood /\ ClientCalm
      BY <1>2, Values, ClientFacts, Zenon
    <2>3. SocketCalm
      BY <1>2, <1>u, Zenon DEF SocketCalm
    <2>4. Survives
      BY <1>2, Values, SocketFacts, Zenon DEF Survives
    <2> QED BY <1>2, <1>u, <2>1, <2>2, <2>3, <2>4, Still, CalmKeeps, Zenon DEF Typed, Calm
  <1>3. CASE /\ client.dev = 0 /\ FreeAttempts # {}
             /\ attempts' = [attempts EXCEPT ![NextAttempt] = NewAttempt("qr")]
             /\ managed' = [managed EXCEPT !.pairing = NextAttempt]
             /\ calls' = [calls EXCEPT ![c] = [@ EXCEPT !.at = "dial", !.att = NextAttempt,
                                                       !.session = managed.session]]
             /\ UNCHANGED client
    <2>1. AttemptsGood /\ NextAttempt \in 0..MaxAttempts
      BY <1>3, NewAttemptFacts, Zenon
    <2>2. ManagedGood /\ managed'.live
      BY <1>3, <1>u, <2>1, ManagedFacts, Zenon
    <2>3. CallsGood
      BY <1>3, <2>1, StepNames, Fields, CallFacts, Zenon
    <2>4. Typed
      BY <1>3, <1>u, <2>1, <2>2, <2>3, Still, Zenon DEF Typed
    <2> QED BY <1>3, <1>u, <2>2, <2>4, OpenKeeps, Zenon
  <1> QED BY <1>1, <1>2, <1>3, Zenon DEF Connect

LEMMA StartPairingStep ==
    ASSUME IInv, NEW c \in Calls, StartPairing(c)
    PROVE  Kept
  <1>u. UNCHANGED <<trail, material, linked, events, codes, pump, dialler, lost, unlinked>>
    BY Zenon DEF StartPairing
  <1>1. CASE /\ Current(c)
             /\ client' = [client EXCEPT !.sock = IF @ = Closed THEN DialCtx(c) ELSE @]
             /\ Goto(c, "state") /\ UNCHANGED <<row, managed, attempts>>
    <2> DEFINE s == IF client.sock = Closed THEN SessionCtx ELSE client.sock
    <2>1. s \in Sockets /\ client' = [client EXCEPT !.sock = s]
      BY <1>1, Values, Fields, Zenon DEF DialCtx
    <2>2. s # client.sock => client.sock = Closed
      BY Zenon
    <2> HIDE DEF s
    <2>3. ClientGood /\ ClientCalm /\ client'.sock = s
      BY <2>1, ClientFacts, Zenon
    <2>4. SocketCalm
      BY <1>1, Zenon DEF Current, SocketCalm
    <2>5. Survives
      BY <2>2, <2>3, Values, SocketFacts, Zenon DEF Survives
    <2>6. CallsGood
      BY <1>1, StepNames, GotoFacts, Zenon
    <2> QED BY <1>1, <1>u, <2>3, <2>4, <2>5, <2>6, Still, CalmKeeps, Zenon DEF Typed, Calm
  <1>2. CASE /\ Goto(c, "return") /\ UNCHANGED row
             /\ IF Current(c) THEN CancelPairing ELSE UNCHANGED <<managed, client, attempts>>
    <2>1. CallsGood
      BY <1>2, StepNames, GotoFacts, Zenon
    <2> QED BY <1>2, <1>u, <2>1, CancelStep, Still, CalmKeeps, Zenon DEF Typed, Calm
  <1>3. CASE /\ row' = [row EXCEPT !.state = "pairing"] /\ Goto(c, "forward")
             /\ UNCHANGED <<managed, client, attempts>>
    <2>1. CallsGood
      BY <1>3, StepNames, GotoFacts, Zenon
    <2>2. RowGood
      <3>1. "pairing" \in States
        BY Zenon DEF States
      <3> QED BY <1>3, <3>1, RowFacts, Zenon
    <2> QED BY <1>3, <1>u, <2>1, <2>2, Still, CalmKeeps, Zenon DEF Typed, Calm
  <1>4. CASE /\ attempts' = [attempts EXCEPT ![calls[c].att].fwd = IF @ = "idle" THEN "on" ELSE @]
             /\ Goto(c, "return") /\ UNCHANGED <<row, managed, client>>
    <2> DEFINE a == calls[c].att
               f == IF attempts[a].fwd = "idle" THEN "on" ELSE attempts[a].fwd
               r == [attempts[a] EXCEPT !.fwd = f]
    <2>2. attempts' = [attempts EXCEPT ![a] = r]
      BY <1>4, Zenon
    <2>1. a \in Attempts => r \in AttemptRecords /\ r.lib = attempts[a].lib
      <3> SUFFICES ASSUME a \in Attempts  PROVE  r \in AttemptRecords /\ r.lib = attempts[a].lib
        BY Zenon
      <3>1. attempts[a] \in AttemptRecords
        BY Fields, Zenon
      <3>2. f \in {"idle", "on", "over"}
        BY <3>1, Zenon DEF AttemptRecords
      <3> HIDE DEF f
      <3> QED BY <3>1, <3>2, Zenon DEF AttemptRecords
    <2> HIDE DEF a, r
    <2>3. AttemptsGood /\ AttemptsCalm
      BY <2>1, <2>2, AttemptFacts, Zenon
    <2>4. CallsGood
      BY <1>4, StepNames, GotoFacts, Zenon
    <2> QED BY <1>4, <1>u, <2>3, <2>4, Still, CalmKeeps, Zenon DEF Typed, Calm
  <1> QED BY <1>1, <1>2, <1>3, <1>4, Zenon DEF StartPairing

\* PairPhone, the code the library gives for it, and the state.
LEMMA PairPhoneStep ==
    ASSUME IInv, NEW c \in Calls, PairPhone(c) \/ RequestCode(c) \/ CodeRequested(c)
    PROVE  Kept
  <1>1. CASE PairPhone(c)
    <2>1. CallsGood
      <3>1. CASE Goto(c, "return")
        BY <3>1, StepNames, GotoFacts, Zenon
      <3>2. CASE calls' = [calls EXCEPT ![c] = [@ EXCEPT !.at = "code", !.session = managed.session]]
        BY <3>2, StepNames, Fields, CallFacts, Zenon
      <3> QED BY <1>1, <3>1, <3>2, Zenon DEF PairPhone
    <2>2. /\ AttemptsGood /\ AttemptsCalm /\ ManagedGood /\ ManagedCalm
          /\ client' = client /\ SocketCalm
      BY <1>1, CancelStep, Still, Zenon DEF PairPhone
    <2> QED BY <1>1, <2>1, <2>2, Still, CalmKeeps, Zenon DEF PairPhone, Typed, Calm
  <1>2. CASE RequestCode(c) /\ Goto(c, "return") /\ UNCHANGED <<managed, client, attempts, events, lost>>
    <2>1. CallsGood
      BY <1>2, StepNames, GotoFacts, Zenon
    <2> QED BY <1>2, <2>1, Still, CalmKeeps, Zenon DEF RequestCode, Typed, Calm
  <1>3. CASE /\ RequestCode(c) /\ Current(c) /\ client.dev = 0 /\ FreeAttempts # {}
             /\ client' = [client EXCEPT !.sock = IF @ = Closed THEN Background ELSE @]
             /\ attempts' = [attempts EXCEPT ![NextAttempt] = NewAttempt("phone")]
             /\ managed' = [managed EXCEPT !.pairing = NextAttempt]
             /\ Emit(Event("code", NextAttempt))
             /\ Goto(c, "state")
    <2> DEFINE s == IF client.sock = Closed THEN Background ELSE client.sock
    <2>1. s \in Sockets /\ client' = [client EXCEPT !.sock = s]
      BY <1>3, Values, Fields, Zenon
    <2> HIDE DEF s
    <2>2. ClientGood /\ client'.dev = 0
      BY <1>3, <2>1, ClientFacts, Zenon
    <2>3. AttemptsGood /\ NextAttempt \in Attempts /\ NextAttempt \in 0..MaxAttempts
      BY <1>3, NewAttemptFacts, Zenon
    <2>4. ManagedGood /\ managed.live /\ managed'.live
      BY <1>3, <2>3, ManagedFacts, Zenon DEF Current
    <2>5. EventsGood
      <3>1. Event("code", NextAttempt) \in EventRecords(Kinds, Len(linked))
        BY <2>3, Fields, EventFacts, Zenon
      <3> QED BY <1>3, <3>1, Channels, Zenon
    <2>6. CallsGood
      BY <1>3, StepNames, GotoFacts, Zenon
    <2>7. Typed
      BY <1>3, <2>2, <2>3, <2>4, <2>5, <2>6, Still, Zenon DEF RequestCode, Typed
    <2> QED BY <1>3, <2>2, <2>4, <2>7, OpenKeeps, Zenon DEF RequestCode
  <1>4. CASE CodeRequested(c)
    <2>1. CallsGood
      BY <1>4, StepNames, GotoFacts, Zenon DEF CodeRequested
    <2>2. RowGood
      <3>1. "pairing" \in States
        BY Zenon DEF States
      <3> QED BY <1>4, <3>1, RowFacts, Zenon DEF CodeRequested
    <2> QED BY <1>4, <2>1, <2>2, Still, CalmKeeps, Zenon DEF CodeRequested, Typed, Calm
  <1>5. CASE /\ RequestCode(c) /\ Current(c) /\ client.dev = 0
             /\ client' = [client EXCEPT !.sock = IF @ = Closed THEN Background ELSE @]
             /\ Goto(c, "return")
             /\ UNCHANGED <<managed, attempts, events, lost>>
    <2> DEFINE s == IF client.sock = Closed THEN Background ELSE client.sock
    <2>1. s \in Sockets /\ client' = [client EXCEPT !.sock = s]
      BY <1>5, Values, Fields, Zenon
    <2> HIDE DEF s
    <2>2. ClientGood /\ client'.dev = 0
      BY <1>5, <2>1, ClientFacts, Zenon
    <2>3. CallsGood
      BY <1>5, StepNames, GotoFacts, Zenon
    <2>4. managed.live /\ managed'.live
      BY <1>5, Zenon DEF Current
    <2>5. Typed
      BY <1>5, <2>2, <2>3, Still, Zenon DEF RequestCode, Typed
    <2> QED BY <1>5, <2>2, <2>4, <2>5, OpenKeeps, Zenon DEF RequestCode
  <1> QED BY <1>1, <1>2, <1>3, <1>4, <1>5, Zenon DEF RequestCode


\* Disconnect, and the row it writes.
LEMMA DisconnectStep ==
    ASSUME IInv, NEW c \in Calls, Disconnect(c) \/ Disconnected(c)
    PROVE  Kept
  <1>1. CASE Disconnect(c) /\ managed.live
    <2>1. calls' = [calls EXCEPT ![c] = [@ EXCEPT !.at = "record", !.session = managed.session]]
      BY <1>1, Zenon DEF Disconnect
    <2>2. CallsGood /\ calls'[c].at = "record"
      BY <2>1, StepNames, Fields, CallFacts, Zenon
    <2>3. AttemptsGood /\ AttemptsCalm
      BY <1>1, CancelStep, Zenon DEF Disconnect
    <2>4. ManagedGood /\ ManagedCalm
      BY <1>1, Values, ManagedFacts, Zenon DEF Disconnect
    <2>5. ClientGood /\ ClientCalm /\ SocketCalm
      BY <1>1, ClientFacts, Zenon DEF Disconnect
    <2>6. Survives
      BY <1>1, <2>2, Zenon DEF Disconnect, Survives
    <2> QED BY <1>1, <2>2, <2>3, <2>4, <2>5, <2>6, Still, CalmKeeps, Zenon
            DEF Disconnect, Typed, Calm
  <1>2. CASE Disconnect(c) /\ ~managed.live
    <2>1. CallsGood
      BY <1>2, StepNames, GotoFacts, Zenon DEF Disconnect
    <2> QED BY <1>2, <2>1, Still, CalmKeeps, Zenon DEF Disconnect, Typed, Calm
  <1>3. CASE Disconnected(c)
    <2>1. CallsGood
      BY <1>3, StepNames, GotoFacts, Zenon DEF Disconnected
    <2>2. RowGood
      <3>1. "disconnected" \in States
        BY Zenon DEF States
      <3> QED BY <1>3, <3>1, RowFacts, Zenon DEF Disconnected
    <2> QED BY <1>3, <2>1, <2>2, Still, CalmKeeps, Zenon DEF Disconnected, Typed, Calm
  <1> QED BY <1>1, <1>2, <1>3, Zenon

\* The service's logout, the worker's, and the row they clear.
LEMMA LogoutStep ==
    ASSUME IInv, NEW c \in Calls, LogoutService(c) \/ Logout(c) \/ ClearIdentity(c)
    PROVE  Kept
  <1>r. row' = [jid |-> 0, phone |-> NoNumber, state |-> "registered"] => RowGood
    <2>1. "registered" \in States
      BY Zenon DEF States
    <2> QED BY <2>1, RowFacts, Zenon
  <1>1. CASE LogoutService(c)
    <2>1. CallsGood
      BY <1>1, StepNames, GotoFacts, Zenon DEF LogoutService
    <2>2. RowGood
      BY <1>1, <1>r, Still, Zenon DEF LogoutService
    <2> QED BY <1>1, <2>1, <2>2, Still, CalmKeeps, Zenon DEF LogoutService, Typed, Calm
  <1>2. CASE ClearIdentity(c)
    <2>1. CallsGood
      BY <1>2, StepNames, GotoFacts, Zenon DEF ClearIdentity
    <2>2. RowGood
      BY <1>2, <1>r, Zenon DEF ClearIdentity
    <2> QED BY <1>2, <2>1, <2>2, Still, CalmKeeps, Zenon DEF ClearIdentity, Typed, Calm
  <1>3. CASE Logout(c) /\ Goto(c, "return") /\ UNCHANGED <<managed, client, attempts, material>>
    <2>1. CallsGood
      BY <1>3, StepNames, GotoFacts, Zenon
    <2> QED BY <1>3, <2>1, Still, CalmKeeps, Zenon DEF Logout, Typed, Calm
  <1>4. CASE Logout(c) /\ CancelPairing /\ Goto(c, "return") /\ UNCHANGED material
    <2>1. CallsGood
      BY <1>4, StepNames, GotoFacts, Zenon
    <2> QED BY <1>4, <2>1, CancelStep, Still, CalmKeeps, Zenon DEF Logout, Typed, Calm
  <1>5. CASE /\ Logout(c)
             /\ attempts' = Cancelled(managed.pairing)
             /\ managed' = [managed EXCEPT !.pairing = 0]
             /\ material' = material \ {client.dev}
             /\ client' = [dev |-> 0, sock |-> Closed, auth |-> FALSE]
             /\ calls' = [calls EXCEPT ![c] = [@ EXCEPT !.at = "clear",
                                                       !.session = managed.session]]
    <2>1. CallsGood
      BY <1>5, StepNames, Fields, CallFacts, Zenon
    <2>2. AttemptsGood /\ AttemptsCalm
      BY <1>5, CancelStep, Zenon
    <2>3. ManagedGood /\ ManagedCalm
      BY <1>5, Values, ManagedFacts, Zenon
    <2>4. ClientGood /\ ClientCalm /\ SocketCalm /\ Survives
      BY <1>5, ClientFacts, Zenon DEF Survives
    <2>5. StoreGood
      BY <1>5, Zenon DEF Logout, IInv, Types, StoreOK, StoreGood
    <2> QED BY <1>5, <2>1, <2>2, <2>3, <2>4, <2>5, Still, CalmKeeps, Zenon DEF Logout, Typed, Calm
  <1> QED BY <1>1, <1>2, <1>3, <1>4, <1>5, Zenon DEF Logout

\* Shutdown, stop and its wait for the pump.
LEMMA TeardownStep ==
    ASSUME IInv, NEW c \in Calls, Drain(c) \/ StopAndWait(c)
    PROVE  Kept
  <1>1. CASE Drain(c)
    <2>1. CallsGood
      BY <1>1, StepNames, Fields, CallFacts, Zenon DEF Drain
    <2> QED BY <1>1, <2>1, Still, CalmKeeps, Zenon DEF Drain, Typed, Calm
  <1>2. CASE StopAndWait(c) /\ Stop /\ Goto(c, "wait")
    <2>1. CallsGood
      BY <1>2, StepNames, GotoFacts, Zenon
    <2> QED BY <1>2, <2>1, CancelStep, Still, CalmKeeps, Zenon DEF StopAndWait, Typed, Calm
  <1>3. CASE StopAndWait(c) /\ Goto(c, "return") /\ UNCHANGED <<managed, client, attempts>>
    <2>1. CallsGood
      BY <1>3, StepNames, GotoFacts, Zenon
    <2> QED BY <1>3, <2>1, Still, CalmKeeps, Zenon DEF StopAndWait, Typed, Calm
  <1> QED BY <1>1, <1>2, <1>3, Zenon DEF StopAndWait

-----------------------------------------------------------------------------
(* Theorems.                                                               *)

\* Never paired, or paired and online.
LEMMA InvariantInit == Init => IInv
  <1> SUFFICES ASSUME Init  PROVE  IInv
    OBVIOUS
  <1>1. /\ managed = [live |-> TRUE, pairing |-> 0, session |-> 1] /\ managed \in ManagedRecords
        /\ managed.live
    BY Values DEF Init, ManagedRecords
  <1>2. /\ attempts \in [Attempts -> AttemptRecords] /\ NoneOpen(attempts)
        /\ calls \in [Calls -> CallRecords]
    BY Values, Zenon DEF Init, NoneOpen
  <1>3. 0 \in 0..MaxLogouts /\ Buffer \in Nat
    BY PairingAssumption
  <1>4. \A ks, n : ChannelOK(<<>>, ks, n)
    BY <1>3 DEF ChannelOK
  <1>5. \A n : CodesOK(codes, n) /\ ChannelOK(events, Kinds, n)
    BY <1>4, Zenon DEF Init, CodesOK
  <1>6. \A n \in Nat : PumpOK(pump, n)
    <2>1. AtLoop \in PumpRecords /\ AtLoop.dev = 0 /\ AtLoop.at # "identity"
      BY Values, Zenon
    <2>2. \A n \in Nat : 0 <= n
      OBVIOUS
    <2> QED BY <2>1, <2>2, Zenon DEF Init, PumpOK
  <1>7. /\ row \in RowRecords /\ trail \in Seq(TrailRecords) /\ StoreOK(linked, material)
        /\ Len(linked) \in Nat /\ ClientOK(client, Len(linked))
    <2>1. CASE /\ row = [jid |-> 0, phone |-> NoNumber, state |-> "registered"]
               /\ trail = <<>> /\ linked = <<>> /\ material = {}
               /\ client = [dev |-> 0, sock |-> Closed, auth |-> FALSE]
      <3>1. row \in RowRecords
        BY <2>1, Values DEF RowRecords, States
      <3>2. trail \in Seq(TrailRecords) /\ StoreOK(linked, material) /\ Len(linked) = 0
        BY <2>1, PairingAssumption DEF StoreOK
      <3>3. client \in ClientRecords /\ client.dev = 0
        BY <2>1, Values, Zenon DEF ClientRecords
      <3> QED BY <3>1, <3>2, <3>3 DEF ClientOK
    <2>2. CASE \E n \in Numbers :
                 /\ row = [jid |-> 1, phone |-> n, state |-> "connected"]
                 /\ trail = <<[phone |-> n, changed |-> FALSE]>>
                 /\ linked = <<n>> /\ material = {1}
                 /\ client = [dev |-> 1, sock |-> SessionCtx, auth |-> TRUE]
      <3>0. PICK n \in Numbers :
                 /\ row = [jid |-> 1, phone |-> n, state |-> "connected"]
                 /\ trail = <<[phone |-> n, changed |-> FALSE]>>
                 /\ linked = <<n>> /\ material = {1}
                 /\ client = [dev |-> 1, sock |-> SessionCtx, auth |-> TRUE]
        BY <2>2, Zenon
      <3>a. 1 \in 0..MaxPairings /\ 1 <= MaxPairings
        BY PairingAssumption
      <3>1. row \in RowRecords
        BY <3>0, <3>a DEF RowRecords, States
      <3>2. trail \in Seq(TrailRecords)
        <4>1. [phone |-> n, changed |-> FALSE] \in TrailRecords
          BY Zenon DEF TrailRecords
        <4> QED BY <3>0, <4>1
      <3>3. StoreOK(linked, material) /\ Len(linked) = 1
        BY <3>0, <3>a DEF StoreOK
      <3>4. client \in ClientRecords /\ client.dev = 1
        BY <3>0, <3>a, Values, Zenon DEF ClientRecords
      <3>5. Len(linked) \in Nat /\ client.dev <= Len(linked)
        BY <3>3, <3>4
      <3> QED BY <3>1, <3>2, <3>3, <3>4, <3>5, Zenon DEF ClientOK
    <2> QED BY <2>1, <2>2, Zenon DEF Init
  <1>8. Types
    BY <1>1, <1>2, <1>3, <1>5, <1>6, <1>7, Zenon DEF Init, Types
  <1>9. Settled(client, attempts, managed, pump)
    BY <1>1, <1>2, Values, Zenon DEF Init, Settled
  <1> QED BY <1>8, <1>9, Zenon DEF IInv


\* Every step keeps the invariant, and the socket of a device that was linked.
LEMMA InvariantNext ==
    ASSUME IInv, [Next]_vars
    PROVE  Kept
  <1>1. ASSUME NEW c \in Calls, Handler(c)  PROVE  Kept
    BY <1>1, ConnectStep, StartPairingStep, PairPhoneStep, DisconnectStep, LogoutStep, TeardownStep,
       ReceiveStep, Zenon DEF Handler
  <1>2. ASSUME NEW c \in Calls, NEW op \in Commands, Receive(c, op)  PROVE  Kept
    BY <1>2, ReceiveStep, Zenon
  <1>3. CASE Pump
    BY <1>3, TakeStep, WriteStep, EndStep, Zenon DEF Pump
  <1>4. CASE Library
    BY <1>4, AttemptStep, LinkStep, LibraryStep, Zenon DEF Library
  <1>5. CASE Start \/ Reconnect
    BY <1>5, SessionStep, Zenon
  <1>6. ASSUME NEW a \in Attempts, WindowElapses(a) \/ StopForward(a)  PROVE  Kept
    BY <1>6, AttemptStep, Zenon
  <1>7. CASE UNCHANGED vars
    BY <1>7, Still, CalmKeeps, Zenon DEF vars, Typed, Calm
  <1> QED BY <1>1, <1>2, <1>3, <1>4, <1>5, <1>6, <1>7, Zenon DEF Next

\* The invariant: with a device on the client the library has no attempt open, a
\* pump that returned leaves neither session nor attempt, and a session out of
\* the map has no socket (Link, stop, pump).
THEOREM Invariant == Spec => []IInv
  <1>1. IInv /\ [Next]_vars => IInv'
    BY InvariantNext, Zenon DEF Kept
  <1> QED BY InvariantInit, <1>1, PTL DEF Spec

\* Every behaviour of the pairing handlers, the pump and the library is type
\* correct: no channel of events passes its capacity (emit), and the store has
\* material only of devices that were linked.
THEOREM TypeCorrect == Spec => []TypeOK
  <1>1. IInv => TypeOK
    <2> SUFFICES ASSUME IInv  PROVE  TypeOK
      BY Zenon
    <2>1. row \in [jid : 0..MaxPairings, phone : Numbers \cup {NoNumber}, state : States]
      BY Zenon DEF IInv, Types, RowRecords
    <2>2. \A i \in DOMAIN trail : trail[i] \in [phone : Numbers, changed : BOOLEAN]
      <3>1. trail \in Seq(TrailRecords)
        BY Zenon DEF IInv, Types
      <3>2. \A i \in DOMAIN trail : trail[i] \in TrailRecords
        BY <3>1
      <3> QED BY <3>2, Zenon DEF TrailRecords
    <2>3. managed \in [live : BOOLEAN, pairing : 0..MaxAttempts, session : Nat]
      BY Zenon DEF IInv, Types, ManagedRecords
    <2>4. client.dev \in 0..MaxPairings /\ client.auth \in BOOLEAN
      BY Zenon DEF IInv, Types, ClientOK, ClientRecords
    <2>5. material \subseteq DOMAIN linked /\ Len(linked) <= MaxPairings
      <3>1. linked \in Seq(Numbers) /\ Len(linked) <= MaxPairings /\ material \subseteq 1..Len(linked)
        BY Zenon DEF IInv, Types, StoreOK
      <3>2. DOMAIN linked = 1..Len(linked)
        BY <3>1
      <3> QED BY <3>1, <3>2, Zenon
    <2>6. Len(events) <= Buffer /\ \A a \in Attempts : Len(codes[a]) <= Buffer
      BY Zenon DEF IInv, Types, ChannelOK, CodesOK
    <2>7. \A a \in Attempts :
             attempts[a] \in [method : {"none", "qr", "phone"},
                              ctx : {"open", "cancelled", "elapsed"}, lib : BOOLEAN,
                              code : {"none", "sent", "published"}, fwd : {"idle", "on", "over"}]
      BY Fields, Zenon DEF AttemptRecords
    <2>8. /\ pump.at \in {"loop", "identity", "ensure", "connected", "material", "stop", "done"}
          /\ dialler \in {"none", "state", "dial"}
      BY Zenon DEF IInv, Types, PumpOK, PumpRecords
    <2> QED BY <2>1, <2>2, <2>3, <2>4, <2>5, <2>6, <2>7, <2>8, Zenon DEF TypeOK
  <1> QED BY <1>1, Invariant, PTL

\* The end of an attempt, by success, expiry, window or replacement, never takes
\* down the socket of the device it linked (startPairing, cancelPairing).
THEOREM SocketSurvives == Spec => PairedSocketSurvives
  <1>1. IInv /\ [Next]_vars =>
          [client.dev # 0 /\ client.sock[1] \notin {"closed", "command"} /\ client'.sock # client.sock
             => \/ client'.dev = 0
                \/ ~managed'.live
                \/ \E c \in Calls : calls[c].op = "disconnect" /\ calls'[c].at = "record"]_vars
    BY InvariantNext, Zenon DEF Kept, Survives
  <1> QED BY <1>1, Invariant, PTL DEF Spec, PairedSocketSurvives
=============================================================================

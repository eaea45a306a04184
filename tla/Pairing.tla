------------------------------- MODULE Pairing -------------------------------
(***************************************************************************)
(* Pairing one instance with a phone, on the worker that owns it:          *)
(* Supervisor.Connect, PairPhone, Disconnect, Logout and Shutdown          *)
(* (internal/worker/supervisor.go), the handlers of the session's pump     *)
(* (internal/worker/session.go), the adapter of the client library         *)
(* (internal/wa/hypermeow.go) and the identity columns of the instance     *)
(* (internal/store/connection.sql.go).  The library and the phone are      *)
(* external and modelled by what the adapter and the supervisor rely on.   *)
(*                                                                         *)
(* The channel of client events and the channel of each QR attempt are     *)
(* copied into one inbox by a goroutine each; the pump taking the head of  *)
(* either is the same as any interleaving of the two copies.  A goroutine  *)
(* that ends with its context loses what it had not copied yet.            *)
(*                                                                         *)
(* Leases are left out (see Worker): a connect or a pair-phone that finds  *)
(* no session has a worker start one, after the pump of the session before *)
(* it has returned.  So are transient disconnections, renewals of a code   *)
(* (one code stands for all of an attempt) and failing statements.         *)
(***************************************************************************)
EXTENDS Integers, Sequences, FiniteSets

CONSTANTS
    Numbers,      \* the phones that may be linked
    NoNumber,     \* phone_number IS NULL
    Calls,        \* commands the worker receives, each executed once
    Commands,     \* what those may be
    MaxPairings,  \* bound on the devices ever linked
    MaxAttempts,  \* bound on the pairing attempts
    MaxLogouts,   \* bound on the unlinkings made on the phone
    Buffer,       \* capacity of a channel of events (32, and 8 for an attempt)
    LongWindow    \* pairingWindow outlasts the library's codes, as by default

ASSUME PairingAssumption ==
    /\ NoNumber \notin Numbers
    /\ MaxAttempts \in Nat /\ MaxLogouts \in Nat
    /\ {MaxPairings, Buffer} \subseteq Nat \ {0}
    /\ LongWindow \in BOOLEAN
    /\ Commands \subseteq {"connect", "pair_phone", "disconnect", "logout", "drain"}

VARIABLES
    row,       \* wa_jid (0: NULL), phone_number and connection_state
    trail,     \* pairing_succeeded entries, and whether number_changed follows
    managed,   \* in the sessions map; the attempt in pairingCancel; session number
    client,    \* device in the store, context the socket is bound to, logged in
    material,  \* devices whose material the library's tables hold
    linked,    \* the number each device was linked with
    events,    \* client events the pump has not taken
    attempts,  \* method, context, library side and copying goroutine of each
    codes,     \* events of each QR attempt the pump has not taken
    pump,      \* where the pump is
    dialler,   \* where the goroutine of Supervisor.reconnect is
    calls,     \* where each command is
    lost,      \* has a full channel dropped an event
    unlinked   \* unlinkings made on the phone

vars == <<row, trail, managed, client, material, linked, events, attempts,
          codes, pump, dialler, calls, lost, unlinked>>

Devices == 1..MaxPairings
Attempts == 1..MaxAttempts
Unused == [method |-> "none", ctx |-> "open", lib |-> FALSE, code |-> "none", fwd |-> "idle"]
AtLoop == [at |-> "loop", dev |-> 0, prev |-> NoNumber]
Waiting == [op |-> "none", at |-> "waiting", session |-> 0, att |-> 0]
\* A socket lives as long as the context it was opened with: the session's,
\* an attempt's, a command's, or none (client.Connect of pair-phone).
Ctx(kind, id) == <<kind, id>>
Closed == Ctx("closed", 0)
SessionCtx == Ctx("session", 0)
Background == Ctx("background", 0)
Event(kind, dev) == [kind |-> kind, dev |-> dev]
Kinds == {"code", "succeeded", "expired", "failed", "connected", "logged_out"}
States == {"registered", "pairing", "connecting", "connected", "disconnected", "logged_out"}

\* Device of the library's store and of the session: 0 when there is none.
NumberOf(dev) == IF dev = 0 THEN NoNumber ELSE linked[dev]

\* Command handlers and the pump reach the session by the pointer they looked
\* up, even when it has left the map.
Current(c) == managed.live /\ calls[c].session = managed.session

\* Never paired; or paired with a number, online.
Init ==
    /\ \/ /\ row = [jid |-> 0, phone |-> NoNumber, state |-> "registered"]
          /\ trail = <<>> /\ linked = <<>> /\ material = {}
          /\ client = [dev |-> 0, sock |-> Closed, auth |-> FALSE]
       \/ \E n \in Numbers :
             /\ row = [jid |-> 1, phone |-> n, state |-> "connected"]
             /\ trail = <<[phone |-> n, changed |-> FALSE]>>
             /\ linked = <<n>> /\ material = {1}
             /\ client = [dev |-> 1, sock |-> SessionCtx, auth |-> TRUE]
    /\ managed = [live |-> TRUE, pairing |-> 0, session |-> 1]
    /\ events = <<>>
    /\ attempts = [a \in Attempts |-> Unused]
    /\ codes = [a \in Attempts |-> <<>>]
    /\ pump = AtLoop /\ dialler = "none"
    /\ calls = [c \in Calls |-> Waiting]
    /\ lost = FALSE /\ unlinked = 0

-----------------------------------------------------------------------------
(* managedSession: the attempt in flight.                                  *)

\* pairingActive
PairingActive == managed.pairing # 0 /\ attempts[managed.pairing].ctx = "open"

\* cancelPairing: the context of a QR attempt; nothing is behind a phone code.
\* A socket bound to a context closes with it.
Cancelled(a) ==
    IF a = 0 \/ attempts[a].method = "phone" THEN attempts
    ELSE [attempts EXCEPT ![a].ctx = IF @ = "open" THEN "cancelled" ELSE @]

Unbound(ctx) == IF client.sock = ctx THEN [client EXCEPT !.sock = Closed, !.auth = FALSE]
                ELSE client

CancelPairing ==
    /\ attempts' = Cancelled(managed.pairing)
    /\ managed' = [managed EXCEPT !.pairing = 0]
    /\ client' = Unbound(Ctx("attempt", managed.pairing))

\* Faulty variant: the buffer is checked after the event is queued.
EmitThenCheck(e) ==
    /\ events' = IF Len(events) <= Buffer THEN Append(events, e) ELSE events
    /\ lost' = (lost \/ Len(events) > Buffer)

\* emit and pumpQR: an event that does not fit is dropped.
Emit(e) ==
    /\ events' = IF Len(events) < Buffer THEN Append(events, e) ELSE events
    /\ lost' = (lost \/ Len(events) = Buffer)

EmitCode(as, e) ==
    codes' = [a \in Attempts |->
                IF a \in as /\ attempts[a].fwd # "over" /\ Len(codes[a]) < Buffer
                THEN Append(codes[a], e) ELSE codes[a]]

-----------------------------------------------------------------------------
(* The library, the phone and the passing of time.                         *)

OpenQR == {a \in Attempts : attempts[a].method = "qr" /\ attempts[a].lib}
Usable == {a \in Attempts : /\ attempts[a].lib
                            /\ attempts[a].method = "qr" => attempts[a].code = "published"}

CloseLib(as) == [a \in Attempts |-> IF a \in as THEN [attempts[a] EXCEPT !.lib = FALSE]
                                    ELSE attempts[a]]

\* The item "code".
ShowCode(a) ==
    /\ a \in OpenQR /\ attempts[a].code = "none"
    /\ client.sock # Closed /\ client.dev = 0
    /\ attempts' = [attempts EXCEPT ![a].code = "sent"]
    /\ EmitCode({a}, Event("code", a))
    /\ UNCHANGED <<row, trail, managed, client, material, linked, events, pump,
                   dialler, calls, lost, unlinked>>

\* The code is scanned or typed on the phone: the library stores the device,
\* the item "success" ends every open QR channel and PairSuccess is dispatched.
Link(n) ==
    /\ client.sock # Closed /\ client.dev = 0 /\ Usable # {}
    /\ Len(linked) < MaxPairings
    /\ LET dev == Len(linked) + 1
       IN  /\ linked' = Append(linked, n)
           /\ material' = material \cup {dev}
           /\ client' = [client EXCEPT !.dev = dev]
           /\ EmitCode(OpenQR, Event("succeeded", dev))
           /\ Emit(Event("succeeded", dev))
    /\ attempts' = CloseLib(Attempts)
    /\ UNCHANGED <<row, trail, managed, pump, dialler, calls, unlinked>>

\* The items "err-..." and "error", with PairError or its like.
Refuse ==
    /\ client.sock # Closed /\ client.dev = 0 /\ Usable # {}
    /\ EmitCode(OpenQR, Event("failed", 0))
    /\ Emit(Event("failed", 0))
    /\ attempts' = CloseLib(Attempts)
    /\ UNCHANGED <<row, trail, managed, client, material, linked, pump, dialler,
                   calls, unlinked>>

\* The item "timeout": the codes of the attempt ran out and the library
\* disconnects.
RunOut(a) ==
    /\ a \in OpenQR /\ attempts[a].code # "none" /\ client.dev = 0
    /\ EmitCode({a}, Event("expired", 0))
    /\ attempts' = CloseLib({a})
    /\ client' = [client EXCEPT !.sock = Closed, !.auth = FALSE]
    /\ UNCHANGED <<row, trail, managed, material, linked, events, pump, dialler,
                   calls, lost, unlinked>>

\* The library learns that the attempt's context has ended.
Abandon(a) ==
    /\ a \in OpenQR /\ attempts[a].ctx # "open"
    /\ attempts' = CloseLib({a})
    /\ \/ UNCHANGED client
       \/ client' = [client EXCEPT !.sock = Closed, !.auth = FALSE]
    /\ UNCHANGED <<row, trail, managed, material, linked, events, codes, pump,
                   dialler, calls, lost, unlinked>>

Authenticate ==
    /\ client.sock # Closed /\ client.dev # 0 /\ ~client.auth
    /\ client' = [client EXCEPT !.auth = TRUE]
    /\ Emit(Event("connected", 0))
    /\ UNCHANGED <<row, trail, managed, material, linked, attempts, codes, pump,
                   dialler, calls, unlinked>>

\* The device is removed on the phone: the library deletes the material.
Unlink ==
    /\ client.auth /\ unlinked < MaxLogouts
    /\ unlinked' = unlinked + 1
    /\ material' = material \ {client.dev}
    /\ client' = [dev |-> 0, sock |-> Closed, auth |-> FALSE]
    /\ Emit(Event("logged_out", 0))
    /\ UNCHANGED <<row, trail, managed, linked, attempts, codes, pump, dialler,
                   calls>>

\* pairingExpires and the deadline of pairingCtx pass.
WindowElapses(a) ==
    /\ attempts[a].method # "none" /\ attempts[a].ctx = "open"
    /\ LongWindow => a \notin OpenQR
    /\ attempts' = [attempts EXCEPT ![a].ctx = "elapsed"]
    /\ client' = Unbound(Ctx("attempt", a))
    /\ UNCHANGED <<row, trail, managed, material, linked, events, codes, pump,
                   dialler, calls, lost, unlinked>>

\* forward returns when its context is done, having copied some of the events.
StopForward(a) ==
    /\ attempts[a].fwd = "on" /\ attempts[a].ctx # "open"
    /\ attempts' = [attempts EXCEPT ![a].fwd = "over"]
    /\ \E n \in 0..Len(codes[a]) : codes' = [codes EXCEPT ![a] = SubSeq(@, 1, n)]
    /\ UNCHANGED <<row, trail, managed, client, material, linked, events, pump,
                   dialler, calls, lost, unlinked>>

-----------------------------------------------------------------------------
(* The pump: one handler at a time.                                        *)

\* start: a device whose material is gone is replaced by a fresh one.  A stored
\* JID is dialled, whatever the device.
StoredDevice == IF row.jid \in material THEN row.jid ELSE 0

Start ==
    /\ ~managed.live /\ pump.at = "done"
    /\ \E c \in Calls : calls[c].at = "enter" /\ calls[c].op \in {"connect", "pair_phone"}
    /\ managed' = [live |-> TRUE, pairing |-> 0, session |-> managed.session + 1]
    /\ client' = [dev |-> StoredDevice, sock |-> Closed, auth |-> FALSE]
    /\ pump' = AtLoop
    /\ dialler' = IF row.jid # 0 THEN "state" ELSE "none"
    /\ UNCHANGED <<row, trail, material, linked, events, attempts, codes, calls,
                   lost, unlinked>>

\* reconnect, on the session context.
Reconnect ==
    /\ \/ /\ dialler = "state"
          /\ row' = IF managed.live THEN [row EXCEPT !.state = "connecting"] ELSE row
          /\ dialler' = "dial"
          /\ UNCHANGED client
       \/ /\ dialler = "dial"
          /\ client' = [client EXCEPT !.sock = IF managed.live /\ @ = Closed
                                              THEN SessionCtx ELSE @]
          /\ dialler' = "none"
          /\ UNCHANGED row
    /\ UNCHANGED <<trail, managed, material, linked, events, attempts, codes, pump,
                   calls, lost, unlinked>>

\* handlePairingCode
HandlePairingCode(e) ==
    /\ attempts' = [attempts EXCEPT ![e.dev].code = "published"]
    /\ UNCHANGED <<row, managed, client, pump>>

\* Faulty variant: only the row is asked for the number paired before.
PreviousPhoneOfRow == row.phone

\* handlePairSuccess and lastPairedPhone: the number paired before.
PreviousPhone ==
    IF row.phone = NoNumber /\ trail # <<>> THEN trail[Len(trail)].phone ELSE row.phone

HandlePairSuccess(e) ==
    /\ CancelPairing
    /\ pump' = [at |-> "identity", dev |-> e.dev, prev |-> PreviousPhone]
    /\ UNCHANGED row

\* SetDeviceIdentity, then pairing_succeeded and number_changed.
StoreIdentity ==
    /\ pump.at = "identity"
    /\ row' = [row EXCEPT !.jid = pump.dev, !.phone = NumberOf(pump.dev)]
    /\ trail' = Append(trail, [phone |-> NumberOf(pump.dev),
                               changed |-> pump.prev \notin {NoNumber, NumberOf(pump.dev)}])
    /\ pump' = AtLoop
    /\ UNCHANGED <<managed, client, material, linked, events, attempts, codes,
                   dialler, calls, lost, unlinked>>

\* The cases KindPairingExpired and KindPairingFailed, with
\* restoreStateAfterPairing.
HandlePairingEnded ==
    /\ CancelPairing
    /\ row' = [row EXCEPT !.state = IF client.dev = 0 THEN "registered" ELSE "disconnected"]
    /\ UNCHANGED pump

\* Faulty variant: the identity is left to handlePairSuccess.
NothingToEnsure == TRUE

\* ensureDeviceIdentity: the session has no device, or the row has one.
NothingMissing == client.dev = 0 \/ row.jid # 0

\* The case KindConnected, up to its first write.
HandleConnected ==
    /\ pump' = IF NothingMissing THEN [AtLoop EXCEPT !.at = "connected"]
               ELSE [AtLoop EXCEPT !.at = "ensure", !.dev = client.dev]
    /\ UNCHANGED <<row, managed, client, attempts>>

EnsureIdentity ==
    /\ pump.at = "ensure"
    /\ row' = [row EXCEPT !.jid = pump.dev, !.phone = NumberOf(pump.dev)]
    /\ pump' = [AtLoop EXCEPT !.at = "connected"]
    /\ UNCHANGED <<trail, managed, client, material, linked, events, attempts,
                   codes, dialler, calls, lost, unlinked>>

SetConnected ==
    /\ pump.at = "connected"
    /\ row' = [row EXCEPT !.state = "connected"]
    /\ pump' = AtLoop
    /\ UNCHANGED <<trail, managed, client, material, linked, events, attempts,
                   codes, dialler, calls, lost, unlinked>>

\* handleDisconnect for logged_out_from_phone: RecordDisconnect,
\* ClearDeviceMaterial, stopFromPump.
HandleLoggedOut ==
    /\ row' = [row EXCEPT !.state = "logged_out"]
    /\ pump' = [AtLoop EXCEPT !.at = "material"]
    /\ UNCHANGED <<managed, client, attempts>>

ClearMaterial ==
    /\ pump.at = "material"
    /\ row' = [row EXCEPT !.jid = 0]
    /\ pump' = [AtLoop EXCEPT !.at = "stop"]
    /\ UNCHANGED <<trail, managed, client, material, linked, events, attempts,
                   codes, dialler, calls, lost, unlinked>>

\* Out of the map, pairing cancelled, context cancelled, client closed.
Stop ==
    /\ attempts' = Cancelled(managed.pairing)
    /\ managed' = [managed EXCEPT !.pairing = 0, !.live = FALSE]
    /\ client' = [client EXCEPT !.sock = Closed, !.auth = FALSE]

\* Faulty variant: the pump waits for a teardown in progress to finish.
StopFromPumpWaits ==
    /\ pump.at = "stop"
    /\ \A c \in Calls : calls[c].at # "wait"
    /\ Stop
    /\ pump' = AtLoop
    /\ UNCHANGED <<row, trail, material, linked, events, codes, dialler, calls,
                   lost, unlinked>>

StopFromPump ==
    /\ pump.at = "stop"
    /\ Stop
    /\ pump' = AtLoop
    /\ UNCHANGED <<row, trail, material, linked, events, codes, dialler, calls,
                   lost, unlinked>>

\* handle, for the events a QR channel carries and for those of the socket.
HandlePairing(e) ==
    /\ CASE e.kind = "code"      -> HandlePairingCode(e)
         [] e.kind = "succeeded" -> HandlePairSuccess(e)
         [] e.kind \in {"expired", "failed"} -> HandlePairingEnded
    /\ UNCHANGED <<trail, material, linked, dialler, calls, lost, unlinked>>

HandleSocket(e) ==
    /\ CASE e.kind = "connected"  -> HandleConnected
         [] e.kind = "logged_out" -> HandleLoggedOut
    /\ UNCHANGED <<trail, material, linked, dialler, calls, lost, unlinked>>

TakeEvent ==
    /\ pump.at = "loop" /\ events # <<>>
    /\ events' = Tail(events)
    /\ IF Head(events).kind \in {"connected", "logged_out"} THEN HandleSocket(Head(events))
       ELSE HandlePairing(Head(events))
    /\ UNCHANGED codes

\* forward copies an event of the channel, and the pump takes it.
TakeCode(a) ==
    /\ pump.at = "loop" /\ codes[a] # <<>> /\ attempts[a].fwd # "idle"
    /\ codes' = [codes EXCEPT ![a] = Tail(@)]
    /\ HandlePairing(Head(codes[a]))
    /\ UNCHANGED events

\* The pump sees its cancelled context.  Nothing of the session is left.
PumpReturns ==
    /\ pump.at = "loop" /\ ~managed.live
    /\ pump' = [AtLoop EXCEPT !.at = "done"]
    /\ events' = <<>>
    /\ codes' = [a \in Attempts |-> <<>>]
    /\ attempts' = [a \in Attempts |->
                      IF attempts[a].method = "none" THEN Unused
                      ELSE [attempts[a] EXCEPT !.ctx = "elapsed", !.lib = FALSE, !.fwd = "over"]]
    /\ UNCHANGED <<row, trail, managed, client, material, linked, dialler, calls,
                   lost, unlinked>>
-----------------------------------------------------------------------------
(* Commands.  The context of a command ends when its handler returns.      *)

Goto(c, step) == calls' = [calls EXCEPT ![c].at = step]

Receive(c, op) ==
    /\ calls[c].op = "none"
    /\ calls' = [calls EXCEPT ![c] = [@ EXCEPT !.op = op, !.at = "enter"]]
    /\ UNCHANGED <<row, trail, managed, client, material, linked, events, attempts,
                   codes, pump, dialler, lost, unlinked>>

Returns(c) ==
    /\ calls[c].at = "return"
    /\ calls' = [calls EXCEPT ![c] = [@ EXCEPT !.at = "returned", !.session = 0, !.att = 0]]
    /\ client' = Unbound(Ctx("command", c))
    /\ UNCHANGED <<row, trail, managed, material, linked, events, attempts, codes,
                   pump, dialler, lost, unlinked>>

FreeAttempts == {a \in Attempts : attempts[a].method = "none"}
NextAttempt == CHOOSE a \in FreeAttempts : TRUE

NewAttempt(method) ==
    [method |-> method, ctx |-> "open", lib |-> TRUE, code |-> "none", fwd |-> "idle"]

\* Connect: already connected; a device to reconnect with; or the first half of
\* startPairing, which opens the QR channel and replaces pairingCancel.
Connect(c) ==
    /\ calls[c].op = "connect" /\ calls[c].at = "enter" /\ managed.live
    /\ \/ /\ client.sock # Closed
          /\ Goto(c, "return")
          /\ UNCHANGED <<managed, client, attempts>>
       \/ /\ client.sock = Closed /\ client.dev # 0
          /\ client' = [client EXCEPT !.sock = Ctx("command", c)]
          /\ Goto(c, "return")
          /\ UNCHANGED <<managed, attempts>>
       \/ /\ client.sock = Closed /\ client.dev = 0 /\ FreeAttempts # {}
          /\ attempts' = [attempts EXCEPT ![NextAttempt] = NewAttempt("qr")]
          /\ managed' = [managed EXCEPT !.pairing = NextAttempt]
          /\ calls' = [calls EXCEPT ![c] = [@ EXCEPT !.at = "dial", !.att = NextAttempt,
                                                    !.session = managed.session]]
          /\ UNCHANGED client
    /\ UNCHANGED <<row, trail, material, linked, events, codes, pump, dialler, lost,
                   unlinked>>

\* Faulty variant: the socket is opened on the attempt's context.
PairingCtx(c) == Ctx("attempt", calls[c].att)

\* The context startPairing gives the socket.
DialCtx(c) == SessionCtx

\* The rest of startPairing: Connect, which fails on a session torn down
\* meanwhile; SetConnectionState; the goroutine that copies the codes.
StartPairing(c) ==
    /\ calls[c].op = "connect"
    /\ \/ /\ calls[c].at = "dial" /\ Current(c)
          /\ client' = [client EXCEPT !.sock = IF @ = Closed THEN DialCtx(c) ELSE @]
          /\ Goto(c, "state")
          /\ UNCHANGED <<row, managed, attempts>>
       \/ /\ calls[c].at = "dial"
          /\ Goto(c, "return")
          /\ IF Current(c) THEN CancelPairing ELSE UNCHANGED <<managed, client, attempts>>
          /\ UNCHANGED row
       \/ /\ calls[c].at = "state"
          /\ row' = [row EXCEPT !.state = "pairing"]
          /\ Goto(c, "forward")
          /\ UNCHANGED <<managed, client, attempts>>
       \/ /\ calls[c].at = "forward"
          /\ attempts' = [attempts EXCEPT ![calls[c].att].fwd = IF @ = "idle" THEN "on" ELSE @]
          /\ Goto(c, "return")
          /\ UNCHANGED <<row, managed, client>>
    /\ UNCHANGED <<trail, material, linked, events, codes, pump, dialler, lost,
                   unlinked>>

\* PairPhone up to the library: an attempt in flight is refused or replaced.
PairPhone(c) ==
    /\ calls[c].op = "pair_phone" /\ calls[c].at = "enter" /\ managed.live
    /\ \/ /\ PairingActive
          /\ Goto(c, "return")
          /\ UNCHANGED <<managed, client, attempts>>
       \/ /\ IF PairingActive THEN CancelPairing
             ELSE UNCHANGED <<managed, client, attempts>>
          /\ calls' = [calls EXCEPT ![c] = [@ EXCEPT !.at = "code", !.session = managed.session]]
    /\ UNCHANGED <<row, trail, material, linked, events, codes, pump, dialler, lost, unlinked>>

\* session.PairPhone: refused when paired, or when the socket does not come up;
\* otherwise over a socket of the library's own, which a refusal of WhatsApp
\* leaves open, a code that is announced as an event.
RequestCode(c) ==
    /\ calls[c].op = "pair_phone" /\ calls[c].at = "code"
    /\ \/ /\ Goto(c, "return")
          /\ UNCHANGED <<managed, client, attempts, events, lost>>
       \/ /\ Current(c) /\ client.dev = 0
          /\ client' = [client EXCEPT !.sock = IF @ = Closed THEN Background ELSE @]
          /\ Goto(c, "return")
          /\ UNCHANGED <<managed, attempts, events, lost>>
       \/ /\ Current(c) /\ client.dev = 0 /\ FreeAttempts # {}
          /\ client' = [client EXCEPT !.sock = IF @ = Closed THEN Background ELSE @]
          /\ attempts' = [attempts EXCEPT ![NextAttempt] = NewAttempt("phone")]
          /\ managed' = [managed EXCEPT !.pairing = NextAttempt]
          /\ Emit(Event("code", NextAttempt))
          /\ Goto(c, "state")
    /\ UNCHANGED <<row, trail, material, linked, codes, pump, dialler, unlinked>>

CodeRequested(c) ==
    /\ calls[c].op = "pair_phone" /\ calls[c].at = "state"
    /\ row' = [row EXCEPT !.state = "pairing"]
    /\ Goto(c, "return")
    /\ UNCHANGED <<trail, managed, client, material, linked, events, attempts,
                   codes, pump, dialler, lost, unlinked>>

\* Disconnect: cancel, close the socket ...
Disconnect(c) ==
    /\ calls[c].op = "disconnect" /\ calls[c].at = "enter"
    /\ IF managed.live
       THEN /\ attempts' = Cancelled(managed.pairing)
            /\ managed' = [managed EXCEPT !.pairing = 0]
            /\ client' = [client EXCEPT !.sock = Closed, !.auth = FALSE]
            /\ calls' = [calls EXCEPT ![c] = [@ EXCEPT !.at = "record",
                                                      !.session = managed.session]]
       ELSE Goto(c, "return") /\ UNCHANGED <<managed, client, attempts>>
    /\ UNCHANGED <<row, trail, material, linked, events, codes, pump, dialler, lost,
                   unlinked>>

\* ... then RecordDisconnect.
Disconnected(c) ==
    /\ calls[c].op = "disconnect" /\ calls[c].at = "record"
    /\ row' = [row EXCEPT !.state = "disconnected"]
    /\ Goto(c, "stop")
    /\ UNCHANGED <<trail, managed, client, material, linked, events, attempts,
                   codes, pump, dialler, lost, unlinked>>

\* ConnectionService.Logout: nothing to do without a JID on the row; without an
\* owner only the row is cleared; otherwise the command goes to the worker.
LogoutService(c) ==
    /\ calls[c].op = "logout" /\ calls[c].at = "enter"
    /\ \/ /\ row.jid = 0
          /\ Goto(c, "return")
          /\ UNCHANGED row
       \/ /\ row.jid # 0 /\ ~managed.live
          /\ row' = [jid |-> 0, phone |-> NoNumber, state |-> "registered"]
          /\ Goto(c, "return")
       \/ /\ row.jid # 0 /\ managed.live
          /\ Goto(c, "command")
          /\ UNCHANGED row
    /\ UNCHANGED <<trail, managed, client, material, linked, events, attempts, codes,
                   pump, dialler, lost, unlinked>>

\* Supervisor.Logout: an unknown session; one without a device; or the device
\* is removed, remotely or only here.
Logout(c) ==
    /\ calls[c].op = "logout" /\ calls[c].at = "command"
    /\ \/ /\ ~managed.live
          /\ Goto(c, "return")
          /\ UNCHANGED <<managed, client, attempts, material>>
       \/ /\ managed.live /\ client.dev = 0
          /\ CancelPairing
          /\ Goto(c, "return")
          /\ UNCHANGED material
       \/ /\ managed.live /\ client.dev # 0
          /\ attempts' = Cancelled(managed.pairing)
          /\ managed' = [managed EXCEPT !.pairing = 0]
          /\ material' = material \ {client.dev}
          /\ client' = [dev |-> 0, sock |-> Closed, auth |-> FALSE]
          /\ calls' = [calls EXCEPT ![c] = [@ EXCEPT !.at = "clear",
                                                    !.session = managed.session]]
    /\ UNCHANGED <<row, trail, linked, events, codes, pump, dialler, lost, unlinked>>

\* ClearDeviceIdentity
ClearIdentity(c) ==
    /\ calls[c].op = "logout" /\ calls[c].at = "clear"
    /\ row' = [jid |-> 0, phone |-> NoNumber, state |-> "registered"]
    /\ Goto(c, "stop")
    /\ UNCHANGED <<trail, managed, client, material, linked, events, attempts,
                   codes, pump, dialler, lost, unlinked>>

\* Shutdown, for this session: publishPairingEnded.
Drain(c) ==
    /\ calls[c].op = "drain" /\ calls[c].at = "enter"
    /\ calls' = [calls EXCEPT ![c] = [@ EXCEPT !.at = "stop", !.session = managed.session]]
    /\ UNCHANGED <<row, trail, managed, client, material, linked, events, attempts, codes,
                   pump, dialler, lost, unlinked>>

\* stop, and its wait for the pump.
StopAndWait(c) ==
    /\ \/ /\ calls[c].at = "stop"
          /\ IF Current(c) THEN Stop /\ Goto(c, "wait")
             ELSE Goto(c, "return") /\ UNCHANGED <<managed, client, attempts>>
       \/ /\ calls[c].at = "wait"
          /\ pump.at = "done" \/ managed.session # calls[c].session
          /\ Goto(c, "return")
          /\ UNCHANGED <<managed, client, attempts>>
    /\ UNCHANGED <<row, trail, material, linked, events, codes, pump, dialler, lost,
                   unlinked>>

-----------------------------------------------------------------------------
Handler(c) ==
    \/ Connect(c) \/ StartPairing(c)
    \/ PairPhone(c) \/ RequestCode(c) \/ CodeRequested(c)
    \/ Disconnect(c) \/ Disconnected(c) \/ LogoutService(c) \/ Logout(c) \/ ClearIdentity(c) \/ Drain(c)
    \/ StopAndWait(c) \/ Returns(c)

Pump ==
    \/ TakeEvent \/ (\E a \in Attempts : TakeCode(a))
    \/ StoreIdentity \/ EnsureIdentity \/ SetConnected
    \/ ClearMaterial \/ StopFromPump \/ PumpReturns

Library ==
    \/ \E a \in Attempts : ShowCode(a) \/ RunOut(a) \/ Abandon(a)
    \/ \E n \in Numbers : Link(n)
    \/ Refuse \/ Authenticate \/ Unlink

Next ==
    \/ \E c \in Calls : Handler(c) \/ (\E op \in Commands : Receive(c, op))
    \/ Pump \/ Library
    \/ Start \/ Reconnect
    \/ \E a \in Attempts : WindowElapses(a) \/ StopForward(a)

\* Goroutines are scheduled and deadlines pass.  Nothing is assumed of the
\* phone, of the commands, or of the library but that the codes of an attempt
\* run out.
Fairness ==
    /\ WF_vars(Pump) /\ WF_vars(Start) /\ WF_vars(Reconnect)
    /\ \A c \in Calls : WF_vars(Handler(c))
    /\ \A a \in Attempts : /\ WF_vars(WindowElapses(a)) /\ WF_vars(StopForward(a))
                           /\ WF_vars(ShowCode(a)) /\ WF_vars(RunOut(a))

Spec == Init /\ [][Next]_vars
FairSpec == Spec /\ Fairness
-----------------------------------------------------------------------------
\* Types: every variable keeps to the values the code can give it.
TypeOK ==
    /\ row \in [jid : 0..MaxPairings, phone : Numbers \cup {NoNumber}, state : States]
    /\ \A i \in DOMAIN trail : trail[i] \in [phone : Numbers, changed : BOOLEAN]
    /\ managed \in [live : BOOLEAN, pairing : 0..MaxAttempts, session : Nat]
    /\ client.dev \in 0..MaxPairings /\ client.auth \in BOOLEAN
    /\ material \subseteq DOMAIN linked /\ Len(linked) <= MaxPairings
    /\ Len(events) <= Buffer
    /\ \A a \in Attempts :
          /\ Len(codes[a]) <= Buffer
          /\ attempts[a] \in [method : {"none", "qr", "phone"},
                              ctx : {"open", "cancelled", "elapsed"}, lib : BOOLEAN,
                              code : {"none", "sent", "published"}, fwd : {"idle", "on", "over"}]
    /\ pump.at \in {"loop", "identity", "ensure", "connected", "material", "stop", "done"}
    /\ dialler \in {"none", "state", "dial"}

\* A pairing with another number than the one recorded before it is recorded as
\* a change of number, also after a logout erased the number from the row, as
\* long as no event was dropped (handlePairSuccess, lastPairedPhone).
SwapRecorded ==
    ~lost => \A i \in DOMAIN trail :
                i > 1 /\ trail[i].phone # trail[i - 1].phone => trail[i].changed

\* An instance shown as connected has its device on the row, whichever of the
\* events of a pairing the pump sees, in whichever order, and even if one was
\* dropped; a logout command may race with the pump (ensureDeviceIdentity).
ConnectedHasIdentity ==
    row.state = "connected" /\ client.dev # 0 /\ (\A c \in Calls : calls[c].op # "logout")
        => row.jid # 0

\* Ending an attempt, by success, expiry or replacement, does not take down the
\* socket of the device it linked: with a device, a socket that no command's
\* context holds closes only with the session, with a disconnect or at the
\* device's removal (startPairing, cancelPairing).
PairedSocketSurvives ==
    [][client.dev # 0 /\ client.sock[1] \notin {"closed", "command"} /\ client'.sock # client.sock
         => \/ client'.dev = 0
            \/ ~managed'.live
            \/ \E c \in Calls : calls[c].op = "disconnect" /\ calls'[c].at = "record"]_vars

\* A teardown that waits for the pump is never waiting for a pump that cannot
\* move, not even one that is tearing the same session down itself (stop,
\* stopFromPump).
TeardownNotBlocked ==
    \A c \in Calls : calls[c].at = "wait" => ENABLED StopAndWait(c) \/ ENABLED Pump

\* At rest, with no command and no event in progress, the device on the row is
\* one whose material exists: no event handled late restores an identity that a
\* logout, or the phone, has deleted.
IdentityHasMaterial ==
    /\ pump.at \in {"loop", "done"} /\ events = <<>> /\ \A a \in Attempts : codes[a] = <<>>
    /\ \A c \in Calls : calls[c].at \in {"waiting", "returned"}
    => row.jid \in material \cup {0}

\* A pairing attempt that nobody completes ends, and the instance goes back to
\* a state other than pairing.
PairingEnds == row.state = "pairing" ~> row.state # "pairing"

\* The socket a command opened is still there after the command has returned.
SocketOutlivesCommand ==
    [][\A c \in Calls : calls[c].at = "return" /\ calls'[c].at = "returned"
                            => client'.sock = client.sock]_vars

\* A connect that is answered "connected" found a session with a device.
ConnectedAnswer ==
    [][\A c \in Calls : calls[c].op = "connect" /\ calls[c].at = "enter"
                            /\ calls'[c].at = "return" => client'.dev # 0]_vars
=============================================================================

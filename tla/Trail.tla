------------------------------- MODULE Trail -------------------------------
(***************************************************************************)
(* The connection trail of one instance: the rows of connection_events     *)
(* that session pumps and settings handlers append, the pages a client     *)
(* walks newest first, the number a new pairing is compared with, and the  *)
(* retention sweep every worker runs under a session-level advisory lock   *)
(* taken through its connection pool.                                      *)
(*                                                                         *)
(* An INSERT is three steps, because Postgres reads now() when the         *)
(* statement's transaction starts, draws the id from the sequence later    *)
(* and shows the row only once it commits; two appends interleave.         *)
(***************************************************************************)
EXTENDS Integers, FiniteSets, Sequences, Functions

CONSTANTS Pumps,        \* pumps of the instance's sessions, which record pairings
          Handlers,     \* API handlers that append settings changes
          Phones,       \* the numbers the instance is paired to
          NoPhone,
          Workers,      \* workers that run the retention sweep
          Conns,        \* pooled database connections
          Pool,         \* Pool[c]: the worker whose pool connection c is in
          Window,       \* the retention window, in ticks
          Limits,       \* the page sizes clients ask for (1 to 200 in the handler)
          Filters,      \* the sets of types they ask for, {} for all
          Casts,        \* the parties that take part together in a behaviour
          MaxClock, MaxId, MaxNesting     \* bounds of the model

ASSUME TrailAssumption ==
    /\ Pool \in [Conns -> Workers]
    /\ Window \in Nat \ {0}
    /\ Limits \subseteq Nat \ {0}
    /\ NoPhone \notin Phones
    /\ Casts \subseteq [writers : SUBSET (Pumps \cup Handlers), sweepers : SUBSET Workers,
                        acts : SUBSET {"read", "pair", "delete"}]
    /\ {MaxClock, MaxId, MaxNesting} \subseteq Nat

VARIABLES cast,     \* the parties of this behaviour, one of Casts
          clock,    \* now(), of the database and of the workers
          nextId,   \* the sequence of connection_events.id
          phone,    \* instances.phone_number, NoPhone when there is no row
          present,  \* the instance's row exists
          rows,     \* the committed events
          append,   \* the INSERTs each writer has to make
          locks,    \* how often each connection holds the advisory lock
          sweep,    \* SweepOnce in each worker
          walk,     \* the client that walks the pages
          log,      \* history: every event ever committed
          paired    \* history: the number paired last

trailVars == <<nextId, rows, append, log>>
numberVars == <<phone, present, paired>>
sweepVars == <<locks, sweep>>
vars == <<cast, clock, trailVars, numberVars, sweepVars, walk>>

Writers == Pumps \cup Handlers

Kinds == {"disconnected", "pairing_succeeded", "number_changed", "proxy_updated"}
Entry(kind, n) == [kind |-> kind, phone |-> n]
Entries == [kind : Kinds, phone : Phones \cup {NoPhone}]
Rows == [id : 1..MaxId, at : 0..MaxClock, entry : Entries]

NoAppend == [at |-> "idle", time |-> 0, id |-> 0, todo |-> <<>>]
NoSweep == [at |-> "idle", cutoff |-> 0]

\* The query parameter "before": absent, an id in base64, or other text.
NoCursor == [form |-> "absent", id |-> 0]
EncodeCursor(id) == [form |-> "base64", id |-> id]
OtherText == [form |-> "other", id |-> 0]

Init ==
    /\ cast \in Casts
    /\ clock = 0
    /\ nextId = 1
    /\ phone = NoPhone /\ present = TRUE /\ paired = NoPhone
    /\ rows = {} /\ log = {}
    /\ append = [a \in Writers |-> NoAppend]
    /\ locks = [c \in Conns |-> 0]
    /\ sweep = [w \in Workers |-> NoSweep]
    /\ walk = [at |-> "idle", before |-> NoCursor, filter |-> {}, seen |-> <<>>, start |-> {}]

\* Time passes, up to the bound.
Tick ==
    /\ clock < MaxClock
    /\ clock' = clock + 1
    /\ UNCHANGED <<cast, trailVars, numberVars, sweepVars, walk>>

-----------------------------------------------------------------------------
(* Appending *)

\* record: the first INSERT's transaction starts, and occurred_at is its now().
Record(a, entries) ==
    /\ a \in cast.writers
    /\ append[a] = NoAppend
    /\ nextId + Len(entries) <= MaxId + 1
    /\ append' = [append EXCEPT ![a] = [at |-> "begun", time |-> clock, id |-> 0, todo |-> entries]]
    /\ UNCHANGED <<cast, clock, nextId, rows, log, sweepVars, walk>>

\* SetProxy, ClearProxy and SetPassiveMode record a change of settings; one type
\* stands for theirs.
RecordSettingsChange(a) ==
    /\ a \in Handlers
    /\ Record(a, <<Entry("proxy_updated", NoPhone)>>)
    /\ UNCHANGED numberVars

\* A pump records what happened to its session.
RecordTransition(a) ==
    /\ a \in Pumps
    /\ "pair" \notin cast.acts
    /\ Record(a, <<Entry("disconnected", NoPhone)>>)
    /\ UNCHANGED numberVars

\* The id is drawn from the sequence.
NextVal(a) ==
    /\ append[a].at = "begun"
    /\ nextId <= MaxId
    /\ append' = [append EXCEPT ![a].at = "numbered", ![a].id = nextId]
    /\ nextId' = nextId + 1
    /\ UNCHANGED <<cast, clock, rows, log, numberVars, sweepVars, walk>>

\* The writer starts the INSERT of its next entry, if it has one.
NextEntry(a) ==
    LET rest == Tail(append[a].todo) IN
    append' = [append EXCEPT ![a] = IF rest = <<>> THEN NoAppend
                                    ELSE [at |-> "begun", time |-> clock, id |-> 0, todo |-> rest]]

\* The row becomes visible; the foreign key refuses it when the instance is gone.
AppendConnectionEvent(a) ==
    LET row == [id |-> append[a].id, at |-> append[a].time, entry |-> Head(append[a].todo)] IN
    /\ append[a].at = "numbered"
    /\ present
    /\ rows' = rows \cup {row}
    /\ log' = log \cup {row}
    /\ NextEntry(a)
    /\ UNCHANGED <<cast, clock, nextId, numberVars, sweepVars, walk>>

\* The append fails and is only logged: "losing an audit line must not abort a
\* session transition". The id stays spent.
AppendFails(a) ==
    /\ append[a].at = "numbered"
    /\ NextEntry(a)
    /\ UNCHANGED <<cast, clock, nextId, rows, log, numberVars, sweepVars, walk>>

-----------------------------------------------------------------------------
(* The number of the instance *)

Pairings(events) == {e \in events : e.entry.kind = "pairing_succeeded"}

\* lastPairedPhone: the pairing with the highest id on the trail.
LastPairedPhone ==
    IF Pairings(rows) = {} THEN NoPhone
    ELSE (CHOOSE e \in Pairings(rows) : \A f \in Pairings(rows) : e.id >= f.id).entry.phone

\* handlePairSuccess: the number of the row, or else the trail's.
PreviousPhone == IF phone # NoPhone THEN phone ELSE LastPairedPhone

\* The identity is stored; pairing_succeeded and, for another number than the
\* previous one, number_changed are recorded. (Pairing splits this step.)
HandlePairSuccess(a, n) ==
    /\ a \in Pumps
    /\ "pair" \in cast.acts
    /\ present
    /\ Record(a, <<Entry("pairing_succeeded", n)>> \o
                   (IF PreviousPhone \in {NoPhone, n} THEN <<>> ELSE <<Entry("number_changed", n)>>))
    /\ phone' = n
    /\ paired' = n
    /\ UNCHANGED present

\* Logout clears the identity on the row.
ClearDeviceIdentity ==
    /\ phone # NoPhone
    /\ phone' = NoPhone
    /\ UNCHANGED <<cast, clock, trailVars, present, paired, sweepVars, walk>>

\* The instance is deleted and its events go with it.
DeleteInstance ==
    /\ "delete" \in cast.acts
    /\ present
    /\ present' = FALSE /\ phone' = NoPhone
    /\ rows' = {}
    /\ UNCHANGED <<cast, clock, nextId, append, log, paired, sweepVars, walk>>

-----------------------------------------------------------------------------
(* Reading *)

\* What a cursor that does not decode comes to: a validation error.
Invalid == -1

\* Faulty variant: a malformed cursor restarts from the top.
DecodeCursorOrRestart(raw) == IF raw.form = "base64" THEN raw.id ELSE 0

DecodeCursor(raw) == IF raw.form = "base64" THEN raw.id ELSE Invalid

\* The handler's before: 0 stands for none.
Before(raw) == IF raw = NoCursor THEN 0 ELSE DecodeCursor(raw)

\* ORDER BY occurred_at DESC, id DESC
Newer(e, f) == e.at > f.at \/ (e.at = f.at /\ e.id > f.id)

Matches(e, filter) == filter = {} \/ e.entry.kind \in filter

\* ORDER BY and LIMIT: the first so many of the events in the order; the rest come
\* after a page that is full.
Pages(events, max) ==
    {page \in UNION {[1..n -> events] : n \in 0..max} :
        /\ \A i, j \in DOMAIN page : i < j => Newer(page[i], page[j])
        /\ \A e \in events : e \in Range(page) \/ (Len(page) = max /\ Newer(page[max], e))}

\* WHERE: the events below the cursor's id (0 for none), of the types asked for
Listed(before, filter) == {e \in rows : (before = 0 \/ e.id < before) /\ Matches(e, filter)}

\* Faulty variant: every page oldest first.
ListOldestFirst(before, filter, max) ==
    {[i \in DOMAIN page |-> page[Len(page) + 1 - i]] : page \in Pages(Listed(before, filter), max)}

\* What the statement may return, which is one page.
ListConnectionEvents(before, filter, max) == Pages(Listed(before, filter), max)

\* The client starts a walk from the newest event.
StartWalk(filter) ==
    /\ "read" \in cast.acts
    /\ walk.at = "idle"
    /\ walk' = [at |-> "reading", before |-> NoCursor, filter |-> filter, seen |-> <<>>, start |-> rows]
    /\ UNCHANGED <<cast, clock, trailVars, numberVars, sweepVars>>

\* A full page names its last id for the next one, a shorter page ends the walk.
Events(page, limit) ==
    walk' = [walk EXCEPT !.seen = @ \o page,
                         !.at = IF Len(page) = limit THEN "reading" ELSE "ended",
                         !.before = IF Len(page) = limit THEN EncodeCursor(page[limit].id) ELSE @]

\* One request: the instance must be the tenant's and the cursor readable.
RequestPage(limit, raw) ==
    /\ walk.at = "reading"
    /\ raw = OtherText => walk.before # NoCursor
    /\ IF Before(raw) = Invalid \/ ~present
       THEN walk' = [walk EXCEPT !.at = "refused"]
       ELSE \E page \in ListConnectionEvents(Before(raw), walk.filter, limit) : Events(page, limit)
    /\ UNCHANGED <<cast, clock, trailVars, numberVars, sweepVars>>

-----------------------------------------------------------------------------
(* Retention *)

\* A session-level lock nests in the connection that holds it.
LockFree(c) == \A d \in Conns \ {c} : locks[d] = 0

\* SweepOnce: through any connection of the pool; who does not get it skips.
TryAdvisoryLock(w, c) ==
    /\ w \in cast.sweepers
    /\ sweep[w].at = "idle"
    /\ Pool[c] = w
    /\ LockFree(c)
    /\ locks[c] < MaxNesting
    /\ locks' = [locks EXCEPT ![c] = @ + 1]
    /\ sweep' = [sweep EXCEPT ![w].at = "locked"]
    /\ UNCHANGED <<cast, clock, trailVars, numberVars, walk>>

\* Faulty variant: the window counts from the end of the next one.
CutoffAhead(w) ==
    /\ sweep[w].at = "locked"
    /\ sweep' = [sweep EXCEPT ![w] = [at |-> "deleting", cutoff |-> clock]]
    /\ UNCHANGED <<cast, clock, trailVars, numberVars, locks, walk>>

\* cutoff := time.Now().Add(-r.window)
Cutoff(w) ==
    /\ sweep[w].at = "locked"
    /\ sweep' = [sweep EXCEPT ![w] = [at |-> "deleting", cutoff |-> clock - Window]]
    /\ UNCHANGED <<cast, clock, trailVars, numberVars, locks, walk>>

DeleteConnectionEventsBefore(w) ==
    /\ sweep[w].at = "deleting"
    /\ rows' = {e \in rows : e.at >= sweep[w].cutoff}
    /\ sweep' = [sweep EXCEPT ![w] = [at |-> "unlocking", cutoff |-> 0]]
    /\ UNCHANGED <<cast, clock, nextId, append, log, numberVars, locks, walk>>

\* The DELETE or the deferred unlock fails and is only logged.
SweepFails(w) ==
    /\ sweep[w].at \in {"deleting", "unlocking"}
    /\ sweep' = [sweep EXCEPT ![w] = [at |-> IF @.at = "deleting" THEN "unlocking" ELSE "idle", cutoff |-> 0]]
    /\ UNCHANGED <<cast, clock, trailVars, numberVars, locks, walk>>

\* The deferred unlock, through any connection of the pool: one that does not
\* hold the lock answers with a warning, and the lock stays where it is.
AdvisoryUnlock(w, c) ==
    /\ sweep[w].at = "unlocking"
    /\ Pool[c] = w
    /\ locks' = [locks EXCEPT ![c] = IF @ > 0 THEN @ - 1 ELSE @]
    /\ sweep' = [sweep EXCEPT ![w] = NoSweep]
    /\ UNCHANGED <<cast, clock, trailVars, numberVars, walk>>

\* Faulty variant: connections live for ever.
RecycleNever(c) == FALSE /\ UNCHANGED vars

\* NewPool: a connection is closed after its lifetime, and its locks with it.
Recycle(c) ==
    /\ locks[c] > 0
    /\ locks' = [locks EXCEPT ![c] = 0]
    /\ UNCHANGED <<cast, clock, trailVars, numberVars, sweep, walk>>

-----------------------------------------------------------------------------
Append_(a) ==
    \/ RecordTransition(a) \/ RecordSettingsChange(a)
    \/ \E n \in Phones : HandlePairSuccess(a, n)
    \/ NextVal(a) \/ AppendConnectionEvent(a) \/ AppendFails(a)

Next ==
    \/ Tick
    \/ \E a \in Writers : Append_(a)
    \/ ClearDeviceIdentity
    \/ DeleteInstance
    \/ \E filter \in Filters : StartWalk(filter)
    \/ \E limit \in Limits, raw \in {walk.before, OtherText} : RequestPage(limit, raw)
    \/ \E w \in Workers, c \in Conns : TryAdvisoryLock(w, c) \/ AdvisoryUnlock(w, c)
    \/ \E w \in Workers : Cutoff(w) \/ DeleteConnectionEventsBefore(w) \/ SweepFails(w)
    \/ \E c \in Conns : Recycle(c)

Spec == Init /\ [][Next]_vars

\* A tick of Run that finds the lock free gets it, whichever connection it uses.
SweepOnce(w) ==
    /\ \A c \in Conns : locks[c] = 0
    /\ \E c \in Conns : TryAdvisoryLock(w, c)

\* The ticker of Run keeps ticking, a sweep goes on once begun, its DELETE does
\* not fail for ever and connections reach the end of their lifetime.
Fairness ==
    /\ \A w \in Workers :
          /\ WF_vars(SweepOnce(w))
          /\ WF_vars(Cutoff(w)) /\ SF_vars(DeleteConnectionEventsBefore(w))
          /\ WF_vars(SweepFails(w) \/ \E c \in Conns : AdvisoryUnlock(w, c))
    /\ \A c \in Conns : WF_vars(Recycle(c))

FairSpec == Spec /\ Fairness

-----------------------------------------------------------------------------
TypeOK ==
    /\ cast \in Casts
    /\ clock \in 0..MaxClock /\ nextId \in 1..MaxId + 1
    /\ {phone, paired} \subseteq Phones \cup {NoPhone} /\ present \in BOOLEAN
    /\ rows \subseteq log /\ log \subseteq Rows
    /\ \A e, f \in log : e.id = f.id => e = f
    /\ \A a \in Writers :
          /\ append[a].at \in {"idle", "begun", "numbered"}
          /\ append[a].time \in 0..MaxClock /\ append[a].id \in 0..MaxId
          /\ append[a].todo \in {<<>>} \cup [1..1 -> Entries] \cup [1..2 -> Entries]
    /\ locks \in [Conns -> 0..MaxNesting]
    /\ \A w \in Workers : /\ sweep[w].at \in {"idle", "locked", "deleting", "unlocking"}
                           /\ sweep[w].cutoff \in -Window..MaxClock
    /\ walk.at \in {"idle", "reading", "ended", "refused"}
    /\ walk.before \in {NoCursor} \cup {EncodeCursor(id) : id \in 1..MaxId} /\ walk.filter \in Filters \cup {{}}
    /\ walk.seen \in Seq(Rows) /\ walk.start \subseteq log

\* The events of a finished walk: newest first, none twice, and none missing of
\* those that were there when it started and still are.
WalkIsExact ==
    /\ \A i, j \in DOMAIN walk.seen : i < j => Newer(walk.seen[i], walk.seen[j])
    /\ \A e \in walk.start \cap rows : Matches(e, walk.filter) => e \in Range(walk.seen)

\* Following the cursors of GET .../connection/events to the end walks the whole
\* trail exactly once, whatever is appended, deleted and swept in between
\* (Events, ListConnectionEvents).
PagesExact == walk.at = "ended" => WalkIsExact

\* Two INSERTs were under way together, and the one that began later drew its id
\* first: f has a lower id than e and a later time.
Overtook(f, e) == f.id < e.id /\ Newer(f, e)

\* The cursor of Events is an id, the order of ListConnectionEvents is by time
\* first, and only an overtaking tells the two apart: in a walk to the end an
\* event is missed only if one it shows overtook it, and one comes out of order
\* or a second time only after an event it overtook, whatever is appended,
\* deleted and swept in between.
PagesAccounted ==
    walk.at = "ended" =>
        /\ \A i, j \in DOMAIN walk.seen : i < j =>
              \/ Newer(walk.seen[i], walk.seen[j])
              \/ \E k \in i..(j - 1) : Overtook(walk.seen[j], walk.seen[k])
        /\ \A e \in walk.start \cap rows : Matches(e, walk.filter) =>
              \E i \in DOMAIN walk.seen : walk.seen[i] = e \/ Overtook(walk.seen[i], e)

\* Every further page takes the walk strictly down the ids, so it ends however
\* much is appended meanwhile and whatever text comes back as a cursor (Events,
\* DecodeCursor: "not a silent restart from the top").
WalkGoesDown ==
    [][walk.at = "reading" /\ walk'.at = "reading" /\ walk' # walk /\ walk.before # NoCursor
         => walk'.before.id < walk.before.id]_vars

\* The pairing to the last number is recorded, at this time or later.
LastPairingRecorded(since) ==
    \E e \in Pairings(log) : /\ e.entry.phone = paired /\ e.at >= since
                            /\ \A f \in Pairings(log) : f.id <= e.id

\* A pairing to another number than the last one, whose own pairing was
\* recorded, is recorded as number_changed (handlePairSuccess).
SwapRecorded ==
    [][\A a \in Pumps :
         append[a].at = "idle" /\ append'[a].at = "begun" /\ paired # paired'
         /\ LastPairingRecorded(0) => Len(append'[a].todo) = 2]_vars

\* The same, while the last pairing is not older than the retention window:
\* neither a logout nor the sweeps of any worker make the instance forget the
\* number before that (lastPairedPhone, SweepOnce).
SwapRecordedInWindow ==
    [][\A a \in Pumps :
         append[a].at = "idle" /\ append'[a].at = "begun" /\ paired # paired'
         /\ LastPairingRecorded(clock - Window) => Len(append'[a].todo) = 2]_vars

\* The trail is rid of events past the retention window again and again, although the unlock
\* of a sweep may reach a connection that does not hold the lock and leave every
\* worker locked out until the holder's connection is closed (SweepOnce).
ExpiredIsSwept ==
    cast.sweepers # {} => []<>(\A e \in rows : e.at >= clock - Window)

\* Only one worker sweeps at a time (TryAdvisoryLock).
OneSweep ==
    \A v, w \in Workers : sweep[v].at = "deleting" /\ sweep[w].at = "deleting" => v = w
=============================================================================

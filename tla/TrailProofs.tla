----------------------------- MODULE TrailProofs -----------------------------
(***************************************************************************)
(* Proofs about Trail, for any writers, workers, connections, page sizes   *)
(* and filters, any retention window and any number of events.             *)
(***************************************************************************)
EXTENDS Trail, TLAPS

-----------------------------------------------------------------------------
(* The inductive invariant.                                                *)

Notes == {e \in Entries : e.kind = "pairing_succeeded" => e.phone \in Phones}
Facts == [id : Nat \ {0}, at : Nat, entry : Notes]

AppendRecords == [at : {"idle", "begun", "numbered"}, time : Nat, id : Nat, todo : Seq(Notes)]
SweepRecords == [at : {"idle", "locked", "deleting", "unlocking"}, cutoff : Int]
Cursors == {NoCursor} \cup [form : {"base64"}, id : Nat \ {0}]
WalkRecords ==
    [at : {"idle", "reading", "ended", "refused"}, before : Cursors, filter : Filters \cup {{}},
     seen : Seq(Facts), start : SUBSET Facts]

\* An id is drawn once: no two events have one, and none has that of an INSERT
\* that has not committed.
Numbered(ap, lg, next) ==
    /\ \A e \in lg : e.id < next
    /\ \A e, f \in lg : e.id = f.id => e = f
    /\ \A a \in Writers : ap[a].at = "numbered" =>
          /\ ap[a].id # 0 /\ ap[a].id < next
          /\ \A e \in lg : e.id # ap[a].id
          /\ \A b \in Writers : ap[b].at = "numbered" /\ ap[b].id = ap[a].id => b = a

Appending(ap) ==
    /\ ap \in [Writers -> AppendRecords]
    /\ \A a \in Writers : ap[a].at # "idle" => ap[a].todo # <<>>

TrailOK ==
    /\ clock \in Nat /\ nextId \in Nat \ {0}
    /\ log \subseteq Facts /\ rows \subseteq log
    /\ Appending(append) /\ Numbered(append, log, nextId)

\* No sweep reaches into the window, and what is in it is still there.
Retained(now, there, rw, lg, sw) ==
    /\ sw \in [Workers -> SweepRecords]
    /\ \A w \in Workers : sw[w].at = "deleting" => sw[w].cutoff <= now - Window
    /\ there => \A e \in lg : e.at >= now - Window => e \in rw

\* Later events are older, but for those that overtook one on the way.
Ordered(u) ==
    \A i, j \in DOMAIN u : i < j => Newer(u[i], u[j]) \/ \E k \in i..(j - 1) : Overtook(u[j], u[k])

\* After each event, or there, comes one no newer whose id is no lower.
Above(u, id) ==
    \A i \in DOMAIN u : \E k \in DOMAIN u : i <= k /\ (u[i] = u[k] \/ Newer(u[i], u[k])) /\ u[k].id >= id

Accounted(u, e) == \E i \in DOMAIN u : u[i] = e \/ Overtook(u[i], e)

\* What a walk has seen is ordered, stays above the cursor while it is read, and
\* accounts for everything that is not below it.
Exact(wk, rw) ==
    /\ Ordered(wk.seen)
    /\ wk.at = "reading" =>
          /\ wk.before = NoCursor => wk.seen = <<>>
          /\ wk.before # NoCursor => Above(wk.seen, wk.before.id)
          /\ \A e \in wk.start \cap rw : Matches(e, wk.filter) =>
                Accounted(wk.seen, e) \/ wk.before = NoCursor \/ e.id < wk.before.id
    /\ wk.at = "ended" =>
          \A e \in wk.start \cap rw : Matches(e, wk.filter) => Accounted(wk.seen, e)

Walked(wk, rw, lg) ==
    /\ wk \in WalkRecords /\ wk.start \subseteq lg
    /\ \A i \in DOMAIN wk.seen : wk.seen[i] \in lg
    /\ Exact(wk, rw)

IInv ==
    /\ TrailOK
    /\ Retained(clock, present, rows, log, sweep)
    /\ phone \in {NoPhone, paired}
    /\ Walked(walk, rows, log)

-----------------------------------------------------------------------------
(* The trail and its writers.                                              *)

\* The fields of an event, of an append and of a sweep.
LEMMA Fields ==
    /\ \A e \in Facts : e.id \in Nat \ {0} /\ e.at \in Nat /\ e.entry \in Notes
    /\ \A r \in AppendRecords : /\ r.at \in {"idle", "begun", "numbered"} /\ r.time \in Nat /\ r.id \in Nat
                                /\ r.todo \in Seq(Notes)
    /\ NoAppend \in AppendRecords /\ NoAppend.at = "idle"
  BY DEF Facts, AppendRecords, NoAppend

\* A writer's append moves on and nothing is committed.
LEMMA AppendMoves ==
    ASSUME TrailOK, NEW a \in Writers, NEW r \in AppendRecords, r.at # "idle" => r.todo # <<>>,
           append' = [append EXCEPT ![a] = r], UNCHANGED log, nextId' \in Nat \ {0}, nextId' >= nextId,
           r.at = "numbered" =>
             /\ r.id # 0 /\ r.id < nextId' /\ \A e \in log : e.id # r.id
             /\ \A b \in Writers : b # a /\ append[b].at = "numbered" => append[b].id # r.id
    PROVE  Appending(append') /\ Numbered(append', log', nextId')
  <1>1. append'[a] = r /\ \A b \in Writers : b # a => append'[b] = append[b]
    BY DEF TrailOK, Appending
  <1>2. Appending(append')
    BY <1>1 DEF TrailOK, Appending
  <1>3. \A e \in log : e.id < nextId'
    BY Fields DEF TrailOK, Numbered
  <1>4. \A b \in Writers : append[b].at = "numbered" => append[b].id < nextId'
    <2>1. \A b \in Writers : append[b].id \in Nat
      BY Fields DEF TrailOK, Appending
    <2> QED BY <2>1 DEF TrailOK, Numbered
  <1>5. ASSUME NEW b \in Writers, append'[b].at = "numbered"
        PROVE  /\ append'[b].id # 0 /\ append'[b].id < nextId'
               /\ \A e \in log : e.id # append'[b].id
               /\ \A d \in Writers : append'[d].at = "numbered" /\ append'[d].id = append'[b].id => d = b
    <2>1. CASE b = a
      BY <1>1, <1>5, <2>1
    <2>2. CASE b # a
      BY <1>1, <1>4, <1>5, <2>2 DEF TrailOK, Numbered
    <2> QED BY <2>1, <2>2
  <1> QED BY <1>2, <1>3, <1>5 DEF TrailOK, Numbered

\* An append begins (record).
LEMMA RecordStep ==
    ASSUME TrailOK, NEW a \in Writers, NEW entries \in Seq(Notes), entries # <<>>, Record(a, entries)
    PROVE  TrailOK'
  <1> DEFINE r == [at |-> "begun", time |-> clock, id |-> 0, todo |-> entries]
  <1>1. r \in AppendRecords /\ r.at = "begun" /\ r.todo = entries
    BY DEF AppendRecords, TrailOK
  <1>2. append' = [append EXCEPT ![a] = r] /\ UNCHANGED <<clock, nextId, rows, log>>
    BY DEF Record
  <1> HIDE DEF r
  <1>3. nextId' \in Nat \ {0} /\ nextId' >= nextId /\ r.at # "numbered"
    BY <1>1, <1>2 DEF TrailOK
  <1>4. Appending(append') /\ Numbered(append', log', nextId')
    BY <1>1, <1>2, <1>3, AppendMoves, Zenon
  <1> QED BY <1>2, <1>4 DEF TrailOK

\* What the pumps and handlers record is well formed, and is a pairing of a number
\* when it says so.
LEMMA RecordedNotes ==
    /\ <<Entry("proxy_updated", NoPhone)>> \in Seq(Notes) /\ <<Entry("disconnected", NoPhone)>> \in Seq(Notes)
    /\ \A n \in Phones : <<Entry("pairing_succeeded", n)>> \o <<>> \in Seq(Notes)
    /\ \A n \in Phones : <<Entry("pairing_succeeded", n)>> \o <<Entry("number_changed", n)>> \in Seq(Notes)
  <1>1. Entry("proxy_updated", NoPhone) \in Notes /\ Entry("disconnected", NoPhone) \in Notes
    BY DEF Entry, Entries, Notes, Kinds
  <1>2. \A n \in Phones : Entry("pairing_succeeded", n) \in Notes /\ Entry("number_changed", n) \in Notes
    BY DEF Entry, Entries, Notes, Kinds
  <1> HIDE DEF Entry
  <1> QED BY <1>1, <1>2

\* A transition, a change of settings or a pairing is recorded.
LEMMA WritersRecord ==
    ASSUME TrailOK, NEW a \in Writers,
           RecordTransition(a) \/ RecordSettingsChange(a) \/ \E n \in Phones : HandlePairSuccess(a, n)
    PROVE  TrailOK' /\ UNCHANGED <<clock, rows, log, sweep, walk, present>>
  <1>0. UNCHANGED <<clock, rows, log, sweep, walk, present>>
    BY Zenon DEF RecordTransition, RecordSettingsChange, HandlePairSuccess, Record, sweepVars, numberVars
  <1>1. CASE RecordTransition(a)
    <2>1. <<Entry("disconnected", NoPhone)>> # <<>> /\ Record(a, <<Entry("disconnected", NoPhone)>>)
      BY <1>1 DEF RecordTransition
    <2> QED BY <1>0, <2>1, RecordedNotes, RecordStep, Zenon
  <1>2. CASE RecordSettingsChange(a)
    <2>1. <<Entry("proxy_updated", NoPhone)>> # <<>> /\ Record(a, <<Entry("proxy_updated", NoPhone)>>)
      BY <1>2 DEF RecordSettingsChange
    <2> QED BY <1>0, <2>1, RecordedNotes, RecordStep, Zenon
  <1>3. ASSUME NEW n \in Phones, HandlePairSuccess(a, n)
        PROVE  TrailOK'
    <2> DEFINE tail == IF PreviousPhone \in {NoPhone, n} THEN <<>> ELSE <<Entry("number_changed", n)>>
               entries == <<Entry("pairing_succeeded", n)>> \o tail
    <2>1. Record(a, entries)
      BY <1>3, Zenon DEF HandlePairSuccess
    <2>2. tail \in {<<>>, <<Entry("number_changed", n)>>}
      BY Zenon
    <2> HIDE DEF tail
    <2>3. entries \in Seq(Notes)
      BY <2>2, RecordedNotes, Zenon
    <2>4. entries # <<>>
      <3> HIDE DEF Entry
      <3> QED BY <2>2
    <2> HIDE DEF entries
    <2> QED BY <2>1, <2>3, <2>4, RecordStep, Zenon
  <1> QED BY <1>0, <1>1, <1>2, <1>3, Zenon

\* The next INSERT begins, if there is one (NextEntry).
LEMMA NextBegins ==
    ASSUME TrailOK, NEW a \in Writers, append[a].at = "numbered", NextEntry(a)
    PROVE  \E r \in AppendRecords : /\ append' = [append EXCEPT ![a] = r] /\ r.at # "numbered"
                                    /\ r.at # "idle" => r.todo # <<>>
  <1> DEFINE rest == Tail(append[a].todo)
             r == [at |-> "begun", time |-> clock, id |-> 0, todo |-> rest]
  <1>1. rest \in Seq(Notes)
    <2>1. append[a].todo \in Seq(Notes) /\ append[a].todo # <<>>
      BY Fields DEF TrailOK, Appending
    <2> QED BY <2>1
  <1>2. append' = [append EXCEPT ![a] = IF rest = <<>> THEN NoAppend ELSE r]
    BY Zenon DEF NextEntry
  <1> HIDE DEF rest
  <1>3. r \in AppendRecords /\ r.at = "begun" /\ r.todo = rest
    BY <1>1 DEF AppendRecords, TrailOK
  <1> HIDE DEF r
  <1>4. r.at # "numbered" /\ NoAppend.at # "numbered"
    BY <1>3, Fields
  <1> QED BY <1>2, <1>3, <1>4, Fields, Zenon

\* An id is drawn, a row is committed, or an append fails (AppendConnectionEvent).
LEMMA WritersInsert ==
    ASSUME TrailOK, NEW a \in Writers, NextVal(a) \/ AppendConnectionEvent(a) \/ AppendFails(a)
    PROVE  /\ TrailOK' /\ UNCHANGED <<clock, sweep, walk, present, phone, paired>>
           /\ \/ UNCHANGED <<rows, log>>
              \/ \E e \in Facts : /\ rows' = rows \cup {e} /\ log' = log \cup {e}
                                  /\ \A f \in log : f.id # e.id
  <1>0. UNCHANGED <<clock, sweep, walk, present, phone, paired>>
    BY DEF NextVal, AppendConnectionEvent, AppendFails, sweepVars, numberVars
  <1>a. append[a] \in AppendRecords /\ append \in [Writers -> AppendRecords]
    BY DEF TrailOK, Appending
  <1>1. CASE NextVal(a)
    <2> DEFINE r == [append[a] EXCEPT !.at = "numbered", !.id = nextId]
    <2>1. append' = [append EXCEPT ![a] = r] /\ nextId' = nextId + 1 /\ UNCHANGED <<rows, log>>
      BY <1>1, <1>a, Zenon DEF NextVal
    <2>2. r \in AppendRecords /\ r.at = "numbered" /\ r.id = nextId /\ r.todo = append[a].todo
      <3>1. nextId \in Nat
        BY DEF TrailOK
      <3> QED BY <1>a, <3>1, Zenon DEF AppendRecords
    <2>3. append[a].todo # <<>>
      BY <1>1 DEF NextVal, TrailOK, Appending
    <2> HIDE DEF r
    <2>4. nextId' \in Nat \ {0} /\ nextId' >= nextId /\ nextId # 0 /\ nextId < nextId'
      BY <2>1 DEF TrailOK
    <2>5. \A e \in log : e.id # nextId
      BY Fields DEF TrailOK, Numbered
    <2>6. \A b \in Writers : append[b].at = "numbered" => append[b].id # nextId
      BY Fields DEF TrailOK, Numbered, Appending
    <2>7. Appending(append') /\ Numbered(append', log', nextId')
      BY <2>1, <2>2, <2>3, <2>4, <2>5, <2>6, AppendMoves, Zenon
    <2> QED BY <1>0, <2>1, <2>4, <2>7 DEF TrailOK
  <1>2. CASE AppendFails(a)
    <2>1. append[a].at = "numbered" /\ NextEntry(a) /\ UNCHANGED <<nextId, rows, log>>
      BY <1>2 DEF AppendFails
    <2>2. PICK r \in AppendRecords : /\ append' = [append EXCEPT ![a] = r] /\ r.at # "numbered"
                                     /\ r.at # "idle" => r.todo # <<>>
      BY <2>1, NextBegins, Zenon
    <2>3. nextId' \in Nat \ {0} /\ nextId' >= nextId
      BY <2>1 DEF TrailOK
    <2>4. Appending(append') /\ Numbered(append', log', nextId')
      BY <2>1, <2>2, <2>3, AppendMoves, Zenon
    <2> QED BY <1>0, <2>1, <2>4 DEF TrailOK
  <1>3. CASE AppendConnectionEvent(a)
    <2> DEFINE row == [id |-> append[a].id, at |-> append[a].time, entry |-> Head(append[a].todo)]
    <2>1. append[a].at = "numbered" /\ NextEntry(a) /\ rows' = rows \cup {row} /\ log' = log \cup {row} /\ UNCHANGED nextId
      BY <1>3, Zenon DEF AppendConnectionEvent
    <2>2. /\ append[a].id # 0 /\ append[a].id < nextId /\ \A e \in log : e.id # append[a].id
          /\ \A b \in Writers : append[b].at = "numbered" /\ append[b].id = append[a].id => b = a
      BY <2>1, Zenon DEF TrailOK, Numbered
    <2>3. row \in Facts /\ row.id = append[a].id
      <3>1. append[a].todo \in Seq(Notes) /\ append[a].todo # <<>>
        BY <1>a, <2>1, Fields DEF TrailOK, Appending
      <3>2. Head(append[a].todo) \in Notes
        BY <3>1
      <3> QED BY <1>a, <2>2, <3>2, Fields DEF Facts
    <2>4. PICK r \in AppendRecords : /\ append' = [append EXCEPT ![a] = r] /\ r.at # "numbered"
                                     /\ r.at # "idle" => r.todo # <<>>
      BY <2>1, NextBegins, Zenon
    <2> HIDE DEF row
    <2>5. append'[a] = r /\ \A b \in Writers : b # a => append'[b] = append[b]
      BY <1>a, <2>4
    <2>6. Appending(append')
      BY <2>4, <2>5 DEF TrailOK, Appending
    <2>7. Numbered(append', log', nextId)
      <3>1. \A e \in log' : e.id < nextId
        BY <2>1, <2>2, <2>3 DEF TrailOK, Numbered
      <3>2. \A e, f \in log' : e.id = f.id => e = f
        BY <2>1, <2>2, <2>3, Zenon DEF TrailOK, Numbered
      <3>3. ASSUME NEW b \in Writers, append'[b].at = "numbered"
            PROVE  /\ append'[b].id # 0 /\ append'[b].id < nextId
                   /\ \A e \in log' : e.id # append'[b].id
                   /\ \A d \in Writers : append'[d].at = "numbered" /\ append'[d].id = append'[b].id => d = b
        <4>1. b # a /\ append'[b] = append[b] /\ append[b].at = "numbered"
          BY <2>4, <2>5, <3>3, Zenon
        <4>2. \A d \in Writers : append'[d].at = "numbered" => append'[d] = append[d]
          BY <2>4, <2>5, Zenon
        <4>3. /\ append[b].id # 0 /\ append[b].id < nextId /\ \A e \in log : e.id # append[b].id
              /\ \A d \in Writers : append[d].at = "numbered" /\ append[d].id = append[b].id => d = b
          BY <4>1, Zenon DEF TrailOK, Numbered
        <4>4. append[b].id # append[a].id
          BY <2>2, <4>1, Zenon
        <4>5. \A e \in log' : e.id # append[b].id
          BY <2>1, <2>3, <4>3, <4>4, Zenon
        <4> QED BY <4>1, <4>2, <4>3, <4>5, Zenon
      <3> QED BY <3>1, <3>2, <3>3, Zenon DEF Numbered
    <2>8. log' \subseteq Facts /\ rows' \subseteq log'
      BY <2>1, <2>3, Zenon DEF TrailOK
    <2>9. TrailOK'
      BY <1>0, <2>1, <2>6, <2>7, <2>8, Zenon DEF TrailOK
    <2> QED BY <1>0, <2>1, <2>2, <2>3, <2>9, Zenon
  <1> QED BY <1>1, <1>2, <1>3, Zenon

-----------------------------------------------------------------------------
(* Retention and the walk.                                                 *)

\* Nothing that was committed earlier comes back, so a walk keeps what it has.
LEMMA WalkKept ==
    ASSUME Walked(walk, rows, log), log \subseteq log', rows' \cap log \subseteq rows, UNCHANGED walk
    PROVE  Walked(walk', rows', log')
  <1>2. walk.start \cap rows' \subseteq walk.start \cap rows
    BY Zenon DEF Walked
  <1>3. Exact(walk, rows) => Exact(walk, rows')
    BY <1>2, Zenon DEF Exact
  <1>4. Walked(walk, rows', log')
    BY <1>3, Zenon DEF Walked
  <1> QED BY <1>4, Zenon

\* The appends leave what is retained, and the walk.
LEMMA AppendStep ==
    ASSUME IInv, NEW a \in Writers, Append_(a)
    PROVE  IInv'
  <1>1. CASE RecordTransition(a) \/ RecordSettingsChange(a) \/ \E n \in Phones : HandlePairSuccess(a, n)
    <2>1. TrailOK' /\ UNCHANGED <<clock, rows, log, sweep, walk, present>>
      BY <1>1, WritersRecord, Zenon DEF IInv
    <2>2. phone' \in {NoPhone, paired'}
      BY <1>1, Zenon DEF IInv, RecordTransition, RecordSettingsChange, HandlePairSuccess, numberVars
    <2> QED BY <2>1, <2>2, Zenon DEF IInv
  <1>2. CASE NextVal(a) \/ AppendConnectionEvent(a) \/ AppendFails(a)
    <2>1. /\ TrailOK' /\ UNCHANGED <<clock, sweep, walk, present, phone, paired>>
          /\ \/ UNCHANGED <<rows, log>>
             \/ \E e \in Facts : /\ rows' = rows \cup {e} /\ log' = log \cup {e}
                                 /\ \A f \in log : f.id # e.id
      BY <1>2, WritersInsert, Zenon DEF IInv
    <2>2. CASE UNCHANGED <<rows, log>>
      BY <2>1, <2>2, Zenon DEF IInv
    <2>3. ASSUME NEW e \in Facts, rows' = rows \cup {e}, log' = log \cup {e}, \A f \in log : f.id # e.id
          PROVE  IInv'
      <3>1. Retained(clock, present, rows', log', sweep)
        BY <2>3, Zenon DEF IInv, Retained
      <3>2. rows' \cap log \subseteq rows /\ log \subseteq log'
        BY <2>3, Zenon
      <3>3. Walked(walk', rows', log')
        BY <2>1, <3>2, WalkKept, Zenon DEF IInv
      <3> QED BY <2>1, <3>1, <3>3, Zenon DEF IInv
    <2> QED BY <2>1, <2>2, <2>3, Zenon
  <1> QED BY <1>1, <1>2, Zenon DEF Append_

\* A sweep deletes below a cutoff that was the window's end, or an earlier one.
LEMMA SweepStep ==
    ASSUME IInv,
           \/ \E w \in Workers, c \in Conns : TryAdvisoryLock(w, c) \/ AdvisoryUnlock(w, c)
           \/ \E w \in Workers : Cutoff(w) \/ DeleteConnectionEventsBefore(w) \/ SweepFails(w)
           \/ \E c \in Conns : Recycle(c)
    PROVE  IInv'
  <1>0. /\ UNCHANGED <<clock, nextId, append, log, phone, paired, present, walk>>
        /\ sweep \in [Workers -> SweepRecords] /\ clock \in Nat /\ Window \in Nat
    BY TrailAssumption DEF TryAdvisoryLock, AdvisoryUnlock, Cutoff, DeleteConnectionEventsBefore, SweepFails, Recycle,
           trailVars, numberVars, IInv, Retained, TrailOK
  <1>1. ASSUME rows' \subseteq rows, Retained(clock, present, rows', log, sweep')
        PROVE  IInv'
    <2>1. TrailOK'
      BY <1>0, <1>1, Zenon DEF IInv, TrailOK
    <2>2. Walked(walk', rows', log')
      BY <1>0, <1>1, WalkKept, Zenon DEF IInv
    <2> QED BY <1>0, <1>1, <2>1, <2>2, Zenon DEF IInv
  <1>2. ASSUME NEW w \in Workers, NEW r \in SweepRecords, sweep' = [sweep EXCEPT ![w] = r], UNCHANGED rows,
               r.at = "deleting" => r.cutoff <= clock - Window
        PROVE  IInv'
    <2>1. sweep' \in [Workers -> SweepRecords] /\ sweep'[w] = r /\ \A v \in Workers : v # w => sweep'[v] = sweep[v]
      BY <1>0, <1>2, Zenon
    <2>2. Retained(clock, present, rows, log, sweep')
      BY <1>2, <2>1, Zenon DEF IInv, Retained
    <2> QED BY <1>1, <1>2, <2>2, Zenon
  <1>3. ASSUME NEW w \in Workers, NEW c \in Conns, TryAdvisoryLock(w, c)
        PROVE  IInv'
    <2> DEFINE r == [sweep[w] EXCEPT !.at = "locked"]
    <2>1. sweep' = [sweep EXCEPT ![w] = r] /\ UNCHANGED rows
      BY <1>0, <1>3, Zenon DEF TryAdvisoryLock, trailVars
    <2>2. r \in SweepRecords /\ r.at # "deleting"
      BY <1>0 DEF SweepRecords
    <2> HIDE DEF r
    <2> QED BY <1>2, <2>1, <2>2, Zenon
  <1>4. ASSUME NEW w \in Workers, NEW c \in Conns, AdvisoryUnlock(w, c)
        PROVE  IInv'
    <2>1. sweep' = [sweep EXCEPT ![w] = NoSweep] /\ UNCHANGED rows
      BY <1>4, Zenon DEF AdvisoryUnlock, trailVars
    <2>2. NoSweep \in SweepRecords /\ NoSweep.at # "deleting"
      BY DEF SweepRecords, NoSweep
    <2> QED BY <1>2, <2>1, <2>2, Zenon
  <1>5. ASSUME NEW w \in Workers, Cutoff(w)
        PROVE  IInv'
    <2> DEFINE r == [at |-> "deleting", cutoff |-> clock - Window]
    <2>1. sweep' = [sweep EXCEPT ![w] = r] /\ UNCHANGED rows
      BY <1>5, Zenon DEF Cutoff, trailVars
    <2>2. r \in SweepRecords /\ r.cutoff <= clock - Window
      BY <1>0 DEF SweepRecords
    <2> HIDE DEF r
    <2> QED BY <1>2, <2>1, <2>2, Zenon
  <1>6. ASSUME NEW w \in Workers, SweepFails(w)
        PROVE  IInv'
    <2> DEFINE at == IF sweep[w].at = "deleting" THEN "unlocking" ELSE "idle"
               r == [at |-> at, cutoff |-> 0]
    <2>1. sweep' = [sweep EXCEPT ![w] = r] /\ UNCHANGED rows
      BY <1>0, <1>6, Zenon DEF SweepFails, trailVars
    <2>2. r \in SweepRecords /\ r.at # "deleting"
      BY DEF SweepRecords
    <2> HIDE DEF r
    <2> QED BY <1>2, <2>1, <2>2, Zenon
  <1>7. ASSUME NEW w \in Workers, DeleteConnectionEventsBefore(w)
        PROVE  IInv'
    <2> DEFINE r == [at |-> "unlocking", cutoff |-> 0]
    <2>1. /\ sweep[w].at = "deleting" /\ rows' = {e \in rows : e.at >= sweep[w].cutoff}
          /\ sweep' = [sweep EXCEPT ![w] = r]
      BY <1>7, Zenon DEF DeleteConnectionEventsBefore
    <2>2. r \in SweepRecords /\ r.at # "deleting"
      BY DEF SweepRecords
    <2> HIDE DEF r
    <2>3. sweep' \in [Workers -> SweepRecords] /\ sweep'[w] = r /\ \A v \in Workers : v # w => sweep'[v] = sweep[v]
      BY <1>0, <2>1, <2>2, Zenon
    <2>4. ASSUME present, NEW e \in log, e.at >= clock - Window
          PROVE  e \in rows'
      <3>1. e \in rows /\ sweep[w].cutoff <= clock - Window
        BY <2>1, <2>4, Zenon DEF IInv, Retained
      <3>2. e.at \in Int /\ sweep[w].cutoff \in Int
        BY <1>0, Fields DEF IInv, TrailOK, SweepRecords
      <3>3. e.at >= sweep[w].cutoff
        BY <1>0, <2>4, <3>1, <3>2
      <3> QED BY <2>1, <3>1, <3>3, Zenon
    <2>5. Retained(clock, present, rows', log, sweep')
      BY <2>2, <2>3, <2>4, Zenon DEF IInv, Retained
    <2> QED BY <1>1, <2>1, <2>5, Zenon
  <1>8. ASSUME NEW c \in Conns, Recycle(c)
        PROVE  IInv'
    BY <1>1, <1>8, Zenon DEF Recycle, trailVars, IInv
  <1> QED BY <1>3, <1>4, <1>5, <1>6, <1>7, <1>8, Zenon

\* Time, a logout and the deletion of the instance.
LEMMA InstanceMoves ==
    ASSUME IInv, Tick \/ ClearDeviceIdentity \/ DeleteInstance
    PROVE  IInv'
  <1>0. UNCHANGED <<nextId, append, log, sweep, walk>>
    BY Zenon DEF Tick, ClearDeviceIdentity, DeleteInstance, trailVars, sweepVars
  <1>1. CASE Tick
    <2>1. clock' = clock + 1 /\ UNCHANGED <<rows, phone, paired, present>>
      BY <1>1, Zenon DEF Tick, trailVars, numberVars
    <2>2. clock \in Nat /\ clock' \in Nat /\ Window \in Nat
      BY <2>1, TrailAssumption DEF IInv, TrailOK
    <2>3. TrailOK'
      BY <1>0, <2>1, <2>2, Zenon DEF IInv, TrailOK
    <2>4. \A w \in Workers : sweep[w].at = "deleting" => sweep[w].cutoff <= clock' - Window
      <3>1. \A w \in Workers : sweep[w].cutoff \in Int
        BY DEF IInv, Retained, SweepRecords
      <3> QED BY <2>1, <2>2, <3>1 DEF IInv, Retained
    <2>5. \A e \in log : e.at >= clock' - Window => e.at >= clock - Window
      <3>1. \A e \in log : e.at \in Int
        BY Fields DEF IInv, TrailOK
      <3> QED BY <2>1, <2>2, <3>1
    <2>6. Retained(clock', present, rows, log, sweep)
      BY <2>4, <2>5, Zenon DEF IInv, Retained
    <2> QED BY <1>0, <2>1, <2>3, <2>6, Zenon DEF IInv
  <1>2. CASE ClearDeviceIdentity
    <2>1. phone' = NoPhone /\ UNCHANGED <<clock, rows, present>>
      BY <1>2, Zenon DEF ClearDeviceIdentity, trailVars
    <2> QED BY <1>0, <2>1, Zenon DEF IInv, TrailOK
  <1>3. CASE DeleteInstance
    <2>1. phone' = NoPhone /\ present' = FALSE /\ rows' = {} /\ UNCHANGED clock
      BY <1>3, Zenon DEF DeleteInstance
    <2>2. TrailOK'
      BY <1>0, <2>1, Zenon DEF IInv, TrailOK
    <2>3. Retained(clock, FALSE, {}, log, sweep)
      BY Zenon DEF IInv, Retained
    <2>4. Walked(walk', rows', log')
      BY <1>0, <2>1, WalkKept, Zenon DEF IInv
    <2> QED BY <1>0, <2>1, <2>2, <2>3, <2>4, Zenon DEF IInv
  <1> QED BY <1>1, <1>2, <1>3, Zenon

\* Only the walk changes.
LEMMA WalkOnly ==
    ASSUME IInv, UNCHANGED <<cast, clock, trailVars, numberVars, sweepVars>>, Walked(walk', rows, log)
    PROVE  IInv'
  BY Zenon DEF IInv, TrailOK, trailVars, numberVars, sweepVars

\* A walk starts with the events there are.
LEMMA StartStep ==
    ASSUME IInv, NEW filter \in Filters, StartWalk(filter)
    PROVE  IInv'
  <1> DEFINE k == [at |-> "reading", before |-> NoCursor, filter |-> filter, seen |-> <<>>, start |-> rows]
  <1>1. walk' = k /\ UNCHANGED <<cast, clock, trailVars, numberVars, sweepVars>>
    BY Zenon DEF StartWalk
  <1>2. /\ k \in WalkRecords /\ k.at = "reading" /\ k.before = NoCursor /\ k.start = rows
        /\ k.seen = <<>> /\ DOMAIN k.seen = {}
    <2>1. rows \in SUBSET Facts
      BY Zenon DEF IInv, TrailOK
    <2> HIDE DEF Facts
    <2> QED BY <2>1 DEF WalkRecords, Cursors
  <1> HIDE DEF k
  <1>3. Exact(k, rows) /\ k.start \subseteq log
    <2>1. k.at # "ended" /\ Ordered(k.seen)
      BY <1>2 DEF Ordered
    <2> QED BY <1>2, <2>1, Zenon DEF Exact, IInv, TrailOK
  <1>4. Walked(k, rows, log)
    BY <1>2, <1>3, Zenon DEF Walked
  <1> QED BY <1>1, <1>4, WalkOnly, Zenon

\* The cursor of a request: none, or the id of the last event of a page.
LEMMA Decoded ==
    ASSUME NEW raw \in Cursors
    PROVE  /\ raw = NoCursor => Before(raw) = 0
           /\ raw # NoCursor => Before(raw) = raw.id /\ raw.id \in Nat \ {0}
           /\ Before(OtherText) = Invalid /\ Before(raw) # Invalid
  BY DEF Cursors, NoCursor, EncodeCursor, OtherText, Before, DecodeCursor, Invalid

\* An event with a lower id than g is older than what g is not newer than, unless
\* it overtook g.
LEMMA Passed ==
    ASSUME NEW e \in Facts, NEW f \in Facts, NEW g \in Facts, f = g \/ Newer(f, g), e.id < g.id
    PROVE  Newer(f, e) \/ Overtook(e, g)
  <1>1. /\ e.id \in Nat /\ e.at \in Nat /\ f.id \in Nat /\ f.at \in Nat /\ g.id \in Nat /\ g.at \in Nat
    BY Fields, Zenon
  <1> QED BY <1>1 DEF Newer, Overtook

\* What a page holds (ListConnectionEvents).
LEMMA PageHolds ==
    ASSUME TrailOK, NEW before, NEW filter, NEW limit \in Nat \ {0}, NEW page \in ListConnectionEvents(before, filter, limit)
    PROVE  /\ page \in Seq(Facts) /\ Len(page) <= limit
           /\ \A i \in DOMAIN page : page[i] \in rows /\ page[i] \in log /\ (before = 0 \/ page[i].id < before)
           /\ \A i, j \in DOMAIN page : i < j => Newer(page[i], page[j])
           /\ \A e \in rows : (before = 0 \/ e.id < before) /\ Matches(e, filter) =>
                 (\E i \in DOMAIN page : page[i] = e) \/ (Len(page) = limit /\ Newer(page[Len(page)], e))
  <1> DEFINE events == Listed(before, filter)
  <1>1. /\ page \in UNION {[1..m -> events] : m \in 0..limit}
        /\ \A i, j \in DOMAIN page : i < j => Newer(page[i], page[j])
        /\ \A e \in events : e \in Range(page) \/ (Len(page) = limit /\ Newer(page[Len(page)], e))
    BY Zenon DEF ListConnectionEvents, Pages
  <1>2. \A e : e \in events <=> e \in rows /\ (before = 0 \/ e.id < before) /\ Matches(e, filter)
    BY Zenon DEF Listed
  <1>3. events \subseteq Facts
    BY <1>2, Zenon DEF TrailOK
  <1> HIDE DEF events
  <1>4. PICK m \in 0..limit : page \in [1..m -> events]
    BY <1>1, Zenon
  <1>5. page \in Seq(events) /\ Len(page) = m /\ DOMAIN page = 1..Len(page)
    BY <1>4
  <1>6. page \in Seq(Facts) /\ Len(page) <= limit
    <2>1. page \in [1..m -> Facts]
      BY <1>3, <1>4, Zenon
    <2> HIDE DEF Facts
    <2> QED BY <1>4, <1>5, <2>1
  <1>7. \A i \in DOMAIN page : page[i] \in events
    BY <1>4, <1>5
  <1>8. \A e : e \in Range(page) <=> \E i \in DOMAIN page : page[i] = e
    BY Zenon DEF Range
  <1> QED BY <1>1, <1>2, <1>6, <1>7, <1>8, Zenon DEF TrailOK

\* The events of two pages, one after the other.
LEMMA Joined ==
    ASSUME NEW s \in Seq(Facts), NEW t \in Seq(Facts)
    PROVE  /\ s \o t \in Seq(Facts)
           /\ \A i \in DOMAIN s : i \in DOMAIN (s \o t) /\ (s \o t)[i] = s[i]
           /\ \A j \in DOMAIN t : Len(s) + j \in DOMAIN (s \o t) /\ (s \o t)[Len(s) + j] = t[j]
           /\ \A k \in DOMAIN (s \o t) : \/ k \in DOMAIN s /\ (s \o t)[k] = s[k]
                                         \/ k - Len(s) \in DOMAIN t /\ (s \o t)[k] = t[k - Len(s)]
  <1> HIDE DEF Facts
  <1> QED OBVIOUS

\* Events newest first, all below an id that those before stay above, go on in order.
LEMMA JoinedOrdered ==
    ASSUME NEW s \in Seq(Facts), NEW t \in Seq(Facts), NEW id \in Nat, Ordered(s),
           s = <<>> \/ (Above(s, id) /\ \A j \in DOMAIN t : t[j].id < id),
           \A i, j \in DOMAIN t : i < j => Newer(t[i], t[j])
    PROVE  Ordered(s \o t)
  <1> DEFINE u == s \o t
  <1>1. /\ \A k \in DOMAIN u : \/ k \in DOMAIN s /\ u[k] = s[k]
                               \/ k - Len(s) \in DOMAIN t /\ u[k] = t[k - Len(s)]
        /\ \A k \in DOMAIN s : k \in DOMAIN u /\ u[k] = s[k]
        /\ \A k \in DOMAIN u : k \in Nat
        /\ DOMAIN s = 1..Len(s) /\ DOMAIN t = 1..Len(t) /\ Len(s) \in Nat /\ Len(t) \in Nat
    <2> HIDE DEF Facts
    <2>1. u \in Seq(Facts)
      BY Joined, Zenon
    <2>2. \A k \in DOMAIN u : k \in Nat
      <3> HIDE DEF u
      <3> QED BY <2>1
    <2>3. DOMAIN s = 1..Len(s) /\ DOMAIN t = 1..Len(t) /\ Len(s) \in Nat /\ Len(t) \in Nat
      OBVIOUS
    <2> QED BY <2>2, <2>3, Joined, Zenon
  <1>e. /\ \A i \in DOMAIN s : s[i] \in Facts
        /\ \A i \in DOMAIN t : t[i] \in Facts
    <2> HIDE DEF Facts
    <2> QED OBVIOUS
  <1> HIDE DEF u
  <1>2. ASSUME NEW i \in DOMAIN u, NEW j \in DOMAIN u, i < j
        PROVE  Newer(u[i], u[j]) \/ \E k \in i..(j - 1) : Overtook(u[j], u[k])
    <2>1. i \in Nat /\ j \in Nat
      BY <1>1, Zenon
    <2>2. CASE i \in DOMAIN s /\ u[i] = s[i] /\ j \in DOMAIN s /\ u[j] = s[j]
      <3>1. Newer(s[i], s[j]) \/ \E k \in i..(j - 1) : Overtook(s[j], s[k])
        BY <1>2, <2>2, Zenon DEF Ordered
      <3>2. \A k \in i..(j - 1) : k \in DOMAIN s
        BY <1>1, <2>1, <2>2
      <3> QED BY <1>1, <2>2, <3>1, <3>2, Zenon
    <2>3. CASE i \in DOMAIN s /\ u[i] = s[i] /\ j - Len(s) \in DOMAIN t /\ u[j] = t[j - Len(s)]
      <3>1. Above(s, id) /\ u[j].id < id
        <4>1. s # <<>>
          BY <2>3
        <4> QED BY <2>3, <4>1, Zenon
      <3>2. PICK k \in DOMAIN s : i <= k /\ (s[i] = s[k] \/ Newer(s[i], s[k])) /\ s[k].id >= id
        BY <2>3, <3>1, Zenon DEF Above
      <3>3. u[j] \in Facts /\ s[i] \in Facts /\ s[k] \in Facts
        BY <1>e, <2>3, Zenon
      <3>4. u[j].id \in Nat /\ s[k].id \in Nat
        BY <3>3, Fields, Zenon
      <3>5. u[j].id < s[k].id
        BY <3>1, <3>2, <3>4
      <3>6. Newer(s[i], u[j]) \/ Overtook(u[j], s[k])
        BY <3>2, <3>3, <3>5, Passed, Zenon
      <3>7. k \in i..(j - 1)
        BY <1>1, <2>1, <2>3, <3>2
      <3> QED BY <1>1, <2>3, <3>6, <3>7, Zenon
    <2>4. CASE /\ i - Len(s) \in DOMAIN t /\ u[i] = t[i - Len(s)]
               /\ j - Len(s) \in DOMAIN t /\ u[j] = t[j - Len(s)]
      <3>1. i - Len(s) < j - Len(s)
        BY <1>1, <1>2, <2>1
      <3> QED BY <2>4, <3>1, Zenon
    <2>5. ~(i - Len(s) \in DOMAIN t /\ j \in DOMAIN s)
      BY <1>1, <1>2, <2>1
    <2> QED BY <1>1, <2>2, <2>3, <2>4, <2>5, Zenon
  <1>3. Ordered(u)
    BY <1>2, Zenon DEF Ordered
  <1> QED BY <1>3, Zenon DEF u

\* They stay above the id of the last of them.
LEMMA JoinedAbove ==
    ASSUME NEW s \in Seq(Facts), NEW t \in Seq(Facts), t # <<>>, NEW id \in Nat,
           s = <<>> \/ (Above(s, id) /\ t[Len(t)].id < id),
           \A i, j \in DOMAIN t : i < j => Newer(t[i], t[j])
    PROVE  Above(s \o t, t[Len(t)].id)
  <1> DEFINE u == s \o t
             last == t[Len(t)].id
  <1>1. /\ \A k \in DOMAIN u : \/ k \in DOMAIN s /\ u[k] = s[k]
                               \/ k - Len(s) \in DOMAIN t /\ u[k] = t[k - Len(s)]
        /\ \A k \in DOMAIN s : k \in DOMAIN u /\ u[k] = s[k]
        /\ \A k \in DOMAIN t : Len(s) + k \in DOMAIN u /\ u[Len(s) + k] = t[k]
    BY Joined, Zenon
  <1>2. /\ DOMAIN s = 1..Len(s) /\ DOMAIN t = 1..Len(t) /\ Len(s) \in Nat /\ Len(t) \in Nat
        /\ Len(t) \in DOMAIN t
        /\ \A i \in DOMAIN s : s[i] \in Facts
        /\ \A i \in DOMAIN t : t[i] \in Facts
    <2> HIDE DEF Facts
    <2> QED OBVIOUS
  <1>3. last \in Nat /\ \A k \in DOMAIN s : s[k].id \in Nat
    BY <1>2, Fields, Zenon
  <1>d. \A k \in DOMAIN u : k \in Nat
    <2>1. u \in Seq(Facts)
      BY Joined, Zenon
    <2> HIDE DEF Facts, u
    <2> QED BY <2>1
  <1> HIDE DEF u, last
  <1>4. ASSUME NEW i \in DOMAIN u
        PROVE  \E k \in DOMAIN u : i <= k /\ (u[i] = u[k] \/ Newer(u[i], u[k])) /\ u[k].id >= last
    <2>1. CASE i \in DOMAIN s /\ u[i] = s[i]
      <3>1. s # <<>>
        BY <2>1
      <3>2. PICK k \in DOMAIN s : i <= k /\ (s[i] = s[k] \/ Newer(s[i], s[k])) /\ s[k].id >= id
        BY <2>1, <3>1, Zenon DEF Above
      <3>3. s[k].id >= last
        BY <1>3, <3>1, <3>2 DEF last
      <3> QED BY <1>1, <2>1, <3>2, <3>3, Zenon
    <2>2. CASE i - Len(s) \in DOMAIN t /\ u[i] = t[i - Len(s)]
      <3>1. i - Len(s) = Len(t) \/ i - Len(s) < Len(t)
        BY <1>2, <2>2
      <3>2. t[i - Len(s)] = t[Len(t)] \/ Newer(t[i - Len(s)], t[Len(t)])
        BY <1>2, <2>2, <3>1, Zenon
      <3>3. i <= Len(s) + Len(t)
        BY <1>2, <1>d, <2>2
      <3>4. last >= last
        BY <1>3
      <3> QED BY <1>1, <1>2, <2>2, <3>2, <3>3, <3>4, Zenon DEF last
    <2> QED BY <1>1, <2>1, <2>2, Zenon
  <1>5. Above(u, last)
    BY <1>4, Zenon DEF Above
  <1> QED BY <1>5, Zenon DEF u, last

\* A page takes the walk on: below what it has seen, down to the page's last event
\* when the page is full, and to the end of the trail when it is not (Events).
LEMMA PageStep ==
    ASSUME TrailOK, Walked(walk, rows, log), walk.at = "reading", NEW limit \in Nat \ {0},
           NEW page \in ListConnectionEvents(Before(walk.before), walk.filter, limit), Events(page, limit)
    PROVE  /\ Walked(walk', rows, log)
           /\ walk'.at = "reading" /\ walk.before # NoCursor => walk'.before.id < walk.before.id
  <1> DEFINE n == Len(page)
             s == walk.seen
             u == s \o page
             b == walk.before
  <1>1. /\ b \in Cursors /\ s \in Seq(Facts) /\ walk.start \in SUBSET Facts /\ walk.filter \in Filters \cup {{}}
        /\ \A i \in DOMAIN s : s[i] \in log
    BY Zenon DEF Walked, WalkRecords
  <1>2. /\ b = NoCursor => Before(b) = 0
        /\ b # NoCursor => Before(b) = b.id /\ b.id \in Nat \ {0}
    BY <1>1, Decoded, Zenon
  <1>3. /\ page \in Seq(Facts)
        /\ \A i \in DOMAIN page : page[i] \in log /\ (b = NoCursor \/ page[i].id < b.id)
        /\ \A i, j \in DOMAIN page : i < j => Newer(page[i], page[j])
        /\ \A e \in rows : (b = NoCursor \/ e.id < b.id) /\ Matches(e, walk.filter) =>
              (\E i \in DOMAIN page : page[i] = e) \/ (n = limit /\ Newer(page[n], e))
    <2>1. Before(b) = 0 <=> b = NoCursor
      BY <1>2
    <2>2. /\ page \in Seq(Facts)
          /\ \A i \in DOMAIN page : page[i] \in log /\ (Before(b) = 0 \/ page[i].id < Before(b))
          /\ \A i, j \in DOMAIN page : i < j => Newer(page[i], page[j])
          /\ \A e \in rows : (Before(b) = 0 \/ e.id < Before(b)) /\ Matches(e, walk.filter) =>
                (\E i \in DOMAIN page : page[i] = e) \/ (n = limit /\ Newer(page[n], e))
      <3> DEFINE f == walk.filter
                 x == Before(b)
      <3>1. page \in ListConnectionEvents(x, f, limit)
        BY Zenon
      <3> HIDE DEF f, x
      <3>2. /\ page \in Seq(Facts) /\ Len(page) <= limit
            /\ \A i \in DOMAIN page : page[i] \in rows /\ page[i] \in log /\ (x = 0 \/ page[i].id < x)
            /\ \A i, j \in DOMAIN page : i < j => Newer(page[i], page[j])
            /\ \A e \in rows : (x = 0 \/ e.id < x) /\ Matches(e, f) =>
                  (\E i \in DOMAIN page : page[i] = e) \/ (Len(page) = limit /\ Newer(page[Len(page)], e))
        BY <3>1, PageHolds, Zenon
      <3> QED BY <3>2, Zenon DEF f, x
    <2> HIDE DEF b, n
    <2> QED BY <1>2, <2>1, <2>2, Zenon
  <1>4. n \in Nat /\ DOMAIN page = 1..n /\ (n = limit => n \in DOMAIN page)
    <2> HIDE DEF Facts
    <2> QED BY <1>3
  <1> DEFINE c == EncodeCursor(page[n].id)
             to == IF n = limit THEN "reading" ELSE "ended"
             next == IF n = limit THEN c ELSE b
  <1>5. n = limit => page[n].id \in Nat \ {0} /\ c \in Cursors /\ c # NoCursor /\ c.id = page[n].id
    <2>1. n = limit => page[n] \in Facts
      BY <1>3, <1>4, Zenon DEF TrailOK
    <2>2. n = limit => page[n].id \in Nat \ {0}
      BY <2>1, Fields, Zenon
    <2> QED BY <2>2 DEF EncodeCursor, Cursors, NoCursor
  <1>6. /\ walk' \in WalkRecords /\ walk'.seen = u /\ walk'.start = walk.start /\ walk'.filter = walk.filter
        /\ walk'.at = to /\ walk'.before = next
    <2>1. walk' = [walk EXCEPT !.seen = u, !.at = to, !.before = next]
      BY Zenon DEF Events, Walked, WalkRecords
    <2>2. u \in Seq(Facts) /\ to \in {"idle", "reading", "ended", "refused"} /\ next \in Cursors
      BY <1>1, <1>3, <1>5, Joined, Zenon
    <2> HIDE DEF u, to, next
    <2> QED BY <2>1, <2>2, Zenon DEF Walked, WalkRecords
  <1>j. /\ \A i \in DOMAIN s : i \in DOMAIN u /\ u[i] = s[i]
        /\ \A j \in DOMAIN page : \E k \in DOMAIN u : u[k] = page[j]
        /\ \A k \in DOMAIN u : (\E i \in DOMAIN s : u[k] = s[i]) \/ (\E j \in DOMAIN page : u[k] = page[j])
    <2>1. s \in Seq(Facts) /\ page \in Seq(Facts)
      BY <1>1, <1>3, Zenon
    <2> HIDE DEF s
    <2>2. /\ \A i \in DOMAIN s : i \in DOMAIN u /\ u[i] = s[i]
          /\ \A j \in DOMAIN page : Len(s) + j \in DOMAIN u /\ u[Len(s) + j] = page[j]
          /\ \A k \in DOMAIN u : \/ k \in DOMAIN s /\ u[k] = s[k]
                                 \/ k - Len(s) \in DOMAIN page /\ u[k] = page[k - Len(s)]
      BY <2>1, Joined, Zenon
    <2> HIDE DEF u
    <2> QED BY <2>2, Zenon
  <1>7. \A i \in DOMAIN u : u[i] \in log
    <2> HIDE DEF u, s
    <2> QED BY <1>1, <1>3, <1>j, Zenon
  <1>8. Exact(walk', rows)
    <2>1. \A e, f \in log : e.id = f.id => e = f
      BY Zenon DEF TrailOK, Numbered
    <2>2. \A e \in log : e.id \in Nat
      BY Fields, Zenon DEF TrailOK
    <2>3. /\ Ordered(s)
          /\ b = NoCursor => s = <<>>
          /\ b # NoCursor => Above(s, b.id)
          /\ \A e \in walk.start \cap rows :
                Matches(e, walk.filter) => Accounted(s, e) \/ b = NoCursor \/ e.id < b.id
      BY Zenon DEF Walked, Exact
    <2>4. Ordered(u)
      <3>1. CASE b = NoCursor
        <4>1. s = <<>> /\ 0 \in Nat
          BY <2>3, <3>1
        <4> QED BY <1>1, <1>3, <2>3, <4>1, JoinedOrdered, Zenon
      <3>2. CASE b # NoCursor
        <4>1. b.id \in Nat /\ Above(s, b.id) /\ \A j \in DOMAIN page : page[j].id < b.id
          BY <1>2, <1>3, <2>3, <3>2, Zenon
        <4> QED BY <1>1, <1>3, <2>3, <4>1, JoinedOrdered, Zenon
      <3> QED BY <3>1, <3>2, Zenon
    <2>5. ASSUME n = limit
          PROVE  Above(u, page[n].id)
      <3>1. page # <<>> /\ n \in DOMAIN page
        BY <1>4, <2>5
      <3>2. CASE b = NoCursor
        <4>1. s = <<>> /\ 0 \in Nat
          BY <2>3, <3>2
        <4> QED BY <1>1, <1>3, <3>1, <4>1, JoinedAbove, Zenon
      <3>3. CASE b # NoCursor
        <4>1. b.id \in Nat /\ Above(s, b.id) /\ page[n].id < b.id
          BY <1>2, <1>3, <2>3, <3>1, <3>3, Zenon
        <4> QED BY <1>1, <1>3, <3>1, <4>1, JoinedAbove, Zenon
      <3> QED BY <3>2, <3>3, Zenon
    <2>7. \A e : Accounted(s, e) \/ (\E i \in DOMAIN page : page[i] = e \/ Overtook(page[i], e)) => Accounted(u, e)
      <3> HIDE DEF u, s
      <3> QED BY <1>j, Zenon DEF Accounted
    <2>8. ASSUME NEW e \in walk.start \cap rows, Matches(e, walk.filter), ~Accounted(u, e)
          PROVE  n = limit /\ e.id < page[n].id
      <3>1. n = limit /\ Newer(page[n], e)
        BY <1>3, <2>3, <2>7, <2>8, Zenon
      <3>2. page[n] \in log /\ e \in log /\ n \in DOMAIN page
        BY <1>3, <1>4, <3>1, Zenon DEF TrailOK
      <3>3. page[n] # e /\ ~Overtook(page[n], e)
        BY <2>7, <2>8, <3>2, Zenon
      <3>4. page[n].id # e.id
        BY <2>1, <3>2, <3>3, Zenon
      <3>5. page[n].id \in Nat /\ e.id \in Nat
        BY <2>2, <3>2, Zenon
      <3>6. ~(page[n].id < e.id)
        BY <3>1, <3>3, Zenon DEF Overtook
      <3> QED BY <3>1, <3>4, <3>5, <3>6
    <2>10. to = "reading" <=> n = limit
      OBVIOUS
    <2>11. next = IF n = limit THEN c ELSE b
      OBVIOUS
    <2> HIDE DEF to, next, c, u
    <2> QED BY <1>5, <1>6, <2>4, <2>5, <2>8, <2>10, <2>11, Zenon DEF Exact
  <1>9. Walked(walk', rows, log)
    BY <1>6, <1>7, <1>8, Zenon DEF Walked
  <1>10. walk'.at = "reading" => n = limit /\ walk'.before = c
    <2> HIDE DEF c, n, b
    <2> QED BY <1>6
  <1> HIDE DEF c, n
  <1> QED BY <1>3, <1>4, <1>5, <1>9, <1>10, Zenon

\* A request for a page is refused or takes the walk on, strictly below its cursor.
LEMMA RequestStep ==
    ASSUME IInv, NEW limit \in Limits, NEW raw \in {walk.before, OtherText}, RequestPage(limit, raw)
    PROVE  /\ IInv'
           /\ walk'.at = "reading" /\ walk.before # NoCursor => walk'.before.id < walk.before.id
  <1>1. walk.at = "reading" /\ walk \in WalkRecords /\ Walked(walk, rows, log) /\ TrailOK /\ walk.before \in Cursors
    BY Zenon DEF RequestPage, IInv, Walked, WalkRecords
  <1>2. UNCHANGED <<cast, clock, trailVars, numberVars, sweepVars>>
    BY Zenon DEF RequestPage
  <1>3. ASSUME walk' = [walk EXCEPT !.at = "refused"]
        PROVE  Walked(walk', rows, log) /\ walk'.at # "reading"
    <2>1. /\ walk' \in WalkRecords /\ walk'.at = "refused" /\ walk'.seen = walk.seen /\ walk'.start = walk.start
      BY <1>1, <1>3, Zenon DEF WalkRecords
    <2>2. walk'.at # "reading" /\ walk'.at # "ended"
      BY <2>1
    <2>3. Exact(walk, rows) => Exact(walk', rows)
      BY <2>1, <2>2, Zenon DEF Exact
    <2> QED BY <1>1, <2>1, <2>2, <2>3, Zenon DEF Walked
  <1>4. ASSUME Before(raw) # Invalid,
               NEW page \in ListConnectionEvents(Before(raw), walk.filter, limit), Events(page, limit)
        PROVE  /\ Walked(walk', rows, log)
               /\ walk'.at = "reading" /\ walk.before # NoCursor => walk'.before.id < walk.before.id
    <2>1. raw = walk.before
      BY <1>1, <1>4, Decoded, Zenon
    <2>2. limit \in Nat \ {0}
      BY TrailAssumption, Zenon
    <2> QED BY <1>1, <1>4, <2>1, <2>2, PageStep, Zenon
  <1>5. /\ Walked(walk', rows, log)
        /\ walk'.at = "reading" /\ walk.before # NoCursor => walk'.before.id < walk.before.id
    BY <1>3, <1>4, Zenon DEF RequestPage
  <1> QED BY <1>2, <1>5, WalkOnly, Zenon

-----------------------------------------------------------------------------
(* The theorems.                                                           *)

\* The invariant holds at first, before anything is recorded.
LEMMA InvariantInit ==
    ASSUME Init
    PROVE  IInv
  <1>1. clock = 0 /\ nextId = 1 /\ log = {} /\ rows = {} /\ phone = NoPhone
    BY Zenon DEF Init
  <1>2. \A a \in Writers : append[a] = NoAppend
    BY Zenon DEF Init
  <1>3. append \in [Writers -> AppendRecords] /\ \A a \in Writers : append[a].at # "numbered"
    <2>1. append = [a \in Writers |-> NoAppend]
      BY Zenon DEF Init
    <2>2. NoAppend.at # "numbered"
      BY Fields
    <2> QED BY <1>2, <2>1, <2>2, Fields, Zenon
  <1>4. TrailOK
    <2>1. Appending(append) /\ Numbered(append, log, nextId)
      BY <1>1, <1>2, <1>3, Fields, Zenon DEF Appending, Numbered
    <2>2. clock \in Nat /\ nextId \in Nat \ {0}
      BY <1>1
    <2> QED BY <1>1, <2>1, <2>2, Zenon DEF TrailOK
  <1>5. Retained(clock, present, rows, log, sweep)
    <2>1. NoSweep \in SweepRecords /\ NoSweep.at # "deleting"
      BY DEF SweepRecords, NoSweep
    <2>2. sweep = [w \in Workers |-> NoSweep]
      BY Zenon DEF Init
    <2> QED BY <1>1, <2>1, <2>2, Zenon DEF Retained
  <1>6. Walked(walk, rows, log)
    <2>1. walk = [at |-> "idle", before |-> NoCursor, filter |-> {}, seen |-> <<>>, start |-> {}]
      BY Zenon DEF Init
    <2>2. walk \in WalkRecords /\ walk.at = "idle" /\ DOMAIN walk.seen = {} /\ walk.start = {}
      <3> HIDE DEF Facts
      <3> QED BY <2>1 DEF WalkRecords, Cursors
    <2>3. walk.at # "reading" /\ walk.at # "ended"
      BY <2>2
    <2>4. \A i \in DOMAIN walk.seen : FALSE
      BY <2>2, Zenon
    <2> QED BY <2>2, <2>3, <2>4, Zenon DEF Walked, Exact, Ordered
  <1> QED BY <1>1, <1>4, <1>5, <1>6, Zenon DEF IInv

\* Every step preserves it.
LEMMA InvariantNext ==
    ASSUME IInv, [Next]_vars
    PROVE  IInv'
  <1>1. CASE UNCHANGED vars
    BY <1>1, Zenon DEF vars, trailVars, numberVars, sweepVars, IInv, TrailOK
  <1>2. ASSUME NEW a \in Writers, Append_(a) PROVE IInv'
    BY <1>2, AppendStep, Zenon
  <1>3. CASE Tick \/ ClearDeviceIdentity \/ DeleteInstance
    BY <1>3, InstanceMoves, Zenon
  <1>4. ASSUME NEW filter \in Filters, StartWalk(filter) PROVE IInv'
    BY <1>4, StartStep, Zenon
  <1>5. ASSUME NEW limit \in Limits, NEW raw \in {walk.before, OtherText}, RequestPage(limit, raw) PROVE IInv'
    BY <1>5, RequestStep, Zenon
  <1>6. CASE \/ \E w \in Workers, c \in Conns : TryAdvisoryLock(w, c) \/ AdvisoryUnlock(w, c)
             \/ \E w \in Workers : Cutoff(w) \/ DeleteConnectionEventsBefore(w) \/ SweepFails(w)
             \/ \E c \in Conns : Recycle(c)
    BY <1>6, SweepStep, Zenon
  <1> QED BY <1>1, <1>2, <1>3, <1>4, <1>5, <1>6, Zenon DEF Next

\* The invariant always holds, whoever appends, sweeps and reads.
THEOREM Invariant == Spec => []IInv
  <1> QED BY InvariantInit, InvariantNext, PTL DEF Spec

\* A walk that follows the cursors of Events to the end misses an event that was
\* there at its start and still is, shows one out of order or shows one twice only
\* where an INSERT overtook another, whatever is appended, swept and deleted
\* meanwhile.
THEOREM WalkAccounts == Spec => []PagesAccounted
  <1>1. IInv => PagesAccounted
    BY Zenon DEF IInv, Walked, Exact, Ordered, Accounted, PagesAccounted
  <1> QED BY <1>1, Invariant, PTL

\* Every further page of a walk is strictly below the one before, whatever text
\* comes back as a cursor, so no walk goes round (Events, DecodeCursor).
THEOREM WalkDescends == Spec => WalkGoesDown
  <1> DEFINE Down == walk.at = "reading" /\ walk'.at = "reading" /\ walk' # walk /\ walk.before # NoCursor
                     => walk'.before.id < walk.before.id
  <1>1. ASSUME IInv, [Next]_vars PROVE [Down]_vars
    <2>1. ASSUME NEW limit \in Limits, NEW raw \in {walk.before, OtherText}, RequestPage(limit, raw) PROVE Down
      BY <1>1, <2>1, RequestStep, Zenon
    <2>2. ASSUME NEW filter \in Filters, StartWalk(filter) PROVE walk.at # "reading"
      BY <2>2 DEF StartWalk
    <2>3. ASSUME NEW a \in Writers, Append_(a) PROVE walk' = walk
      BY <2>3, Zenon DEF Append_, RecordTransition, RecordSettingsChange, HandlePairSuccess, Record, NextVal,
                         AppendConnectionEvent, AppendFails
    <2>4. ASSUME \/ Tick \/ ClearDeviceIdentity \/ DeleteInstance
                 \/ \E w \in Workers, c \in Conns : TryAdvisoryLock(w, c) \/ AdvisoryUnlock(w, c)
                 \/ \E w \in Workers : Cutoff(w) \/ DeleteConnectionEventsBefore(w) \/ SweepFails(w)
                 \/ \E c \in Conns : Recycle(c)
          PROVE  walk' = walk
      BY <2>4, Zenon DEF Tick, ClearDeviceIdentity, DeleteInstance, TryAdvisoryLock, AdvisoryUnlock, Cutoff,
                         DeleteConnectionEventsBefore, SweepFails, Recycle
    <2> QED BY <1>1, <2>1, <2>2, <2>3, <2>4, Zenon DEF Next
  <1>2. Spec => [][Down]_vars
    BY <1>1, Invariant, PTL DEF Spec
  <1> QED BY <1>2, PTL DEF WalkGoesDown

\* The number the trail names is that of the last pairing, while that is in the
\* window (lastPairedPhone).
LEMMA TrailNamesNumber ==
    ASSUME IInv, present, LastPairingRecorded(clock - Window)
    PROVE  LastPairedPhone = paired /\ paired \in Phones
  <1>1. PICK e \in Pairings(log) : /\ e.entry.phone = paired /\ e.at >= clock - Window
                                   /\ \A f \in Pairings(log) : f.id <= e.id
    BY Zenon DEF LastPairingRecorded
  <1>2. e \in log /\ e.entry.kind = "pairing_succeeded" /\ e \in rows
    BY <1>1, Zenon DEF Pairings, IInv, Retained
  <1>3. paired \in Phones
    BY <1>1, <1>2, Fields, Zenon DEF IInv, TrailOK, Notes
  <1>4. e \in Pairings(rows) /\ Pairings(rows) \subseteq Pairings(log)
    BY <1>2, Zenon DEF Pairings, IInv, TrailOK
  <1>5. \A f \in Pairings(log) : f.id \in Nat /\ f \in log
    BY Fields, Zenon DEF Pairings, IInv, TrailOK
  <1>6. \A f \in Pairings(rows) : e.id >= f.id
    BY <1>1, <1>4, <1>5
  <1> DEFINE g == CHOOSE x \in Pairings(rows) : \A f \in Pairings(rows) : x.id >= f.id
  <1>7. g \in Pairings(rows) /\ \A f \in Pairings(rows) : g.id >= f.id
    BY <1>4, <1>6, Zenon
  <1>8. LastPairedPhone = g.entry.phone
    BY <1>4, Zenon DEF LastPairedPhone
  <1> HIDE DEF g
  <1>9. g.id = e.id
    BY <1>1, <1>4, <1>5, <1>7
  <1>10. g = e
    BY <1>1, <1>4, <1>5, <1>7, <1>9, Zenon DEF IInv, TrailOK, Numbered
  <1> QED BY <1>1, <1>3, <1>8, <1>10, Zenon

\* A pairing to another number is recorded as number_changed while the last pairing
\* is on record and in the retention window, for any window and any workers that
\* sweep: no logout and no sweep makes the instance forget its number earlier
\* (handlePairSuccess, SweepOnce).
THEOREM SwapNoticed == Spec => SwapRecordedInWindow
  <1> DEFINE Noticed == \A a \in Pumps :
                 append[a].at = "idle" /\ append'[a].at = "begun" /\ paired # paired'
                 /\ LastPairingRecorded(clock - Window) => Len(append'[a].todo) = 2
  <1>1. ASSUME IInv, [Next]_vars PROVE [Noticed]_vars
    <2>1. ASSUME NEW a \in Pumps, append[a].at = "idle", append'[a].at = "begun", paired # paired',
                 LastPairingRecorded(clock - Window), Next
          PROVE  Len(append'[a].todo) = 2
      <3>1. PICK d \in Writers, n \in Phones : HandlePairSuccess(d, n)
        <4>1. ASSUME NEW d \in Writers,
                     \/ RecordTransition(d) \/ RecordSettingsChange(d)
                     \/ NextVal(d) \/ AppendConnectionEvent(d) \/ AppendFails(d)
              PROVE  FALSE
          BY <2>1, <4>1, Zenon DEF RecordTransition, RecordSettingsChange, NextVal, AppendConnectionEvent,
                                   AppendFails, numberVars
        <4>2. ASSUME \/ Tick \/ ClearDeviceIdentity \/ DeleteInstance
                     \/ \E filter \in Filters : StartWalk(filter)
                     \/ \E limit \in Limits, raw \in {walk.before, OtherText} : RequestPage(limit, raw)
                     \/ \E w \in Workers, c \in Conns : TryAdvisoryLock(w, c) \/ AdvisoryUnlock(w, c)
                     \/ \E w \in Workers : Cutoff(w) \/ DeleteConnectionEventsBefore(w) \/ SweepFails(w)
                     \/ \E c \in Conns : Recycle(c)
              PROVE  FALSE
          BY <2>1, <4>2, Zenon DEF Tick, ClearDeviceIdentity, DeleteInstance, StartWalk, RequestPage,
                                   TryAdvisoryLock, AdvisoryUnlock, Cutoff, DeleteConnectionEventsBefore,
                                   SweepFails, Recycle, numberVars
        <4> QED BY <2>1, <4>1, <4>2, Zenon DEF Next, Append_
      <3> DEFINE tail == IF PreviousPhone \in {NoPhone, n} THEN <<>> ELSE <<Entry("number_changed", n)>>
                 r == [at |-> "begun", time |-> clock, id |-> 0, todo |-> <<Entry("pairing_succeeded", n)>> \o tail]
      <3>2. present /\ paired' = n /\ append' = [append EXCEPT ![d] = r]
        BY <3>1, Zenon DEF HandlePairSuccess, Record
      <3>3. LastPairedPhone = paired /\ paired \in Phones
        BY <1>1, <2>1, <3>2, TrailNamesNumber, Zenon
      <3>4. PreviousPhone = paired
        BY <1>1, <3>3, Zenon DEF PreviousPhone, IInv
      <3>5. tail = <<Entry("number_changed", n)>>
        BY <2>1, <3>2, <3>3, <3>4, TrailAssumption, Zenon
      <3>6. r.todo = <<Entry("pairing_succeeded", n)>> \o tail
        OBVIOUS
      <3>7. Len(r.todo) = 2
        BY <3>5, <3>6
      <3> HIDE DEF r
      <3>8. append \in [Writers -> AppendRecords] /\ a \in Writers
        BY <1>1, Zenon DEF IInv, TrailOK, Appending, Writers
      <3>9. append[a].at # append'[a].at
        BY <2>1
      <3>10. append'[a] = r
        BY <3>2, <3>8, <3>9, Zenon
      <3> QED BY <3>7, <3>10, Zenon
    <2> QED BY <1>1, <2>1, Zenon
  <1>2. Spec => [][Noticed]_vars
    BY <1>1, Invariant, PTL DEF Spec
  <1> QED BY <1>2, PTL DEF SwapRecordedInWindow
=============================================================================

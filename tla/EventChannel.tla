----------------------------- MODULE EventChannel -----------------------------
(***************************************************************************)
(* The event channel of one instance: Publisher.Publish and CurrentSeq     *)
(* (internal/events/publisher.go), Subscriber.Subscribe and its pump       *)
(* (internal/events/subscriber.go), the snapshot (internal/api/wsbridge.go)*)
(* and the streaming loop of one WebSocket client (internal/api/ws/ws.go). *)
(*                                                                         *)
(* A publisher is a goroutine of a worker that first writes the instances  *)
(* row and then publishes the frame that tells of it: a session's pump, or *)
(* a command handler.  What the row and a frame say is the number of the   *)
(* write they reflect, so that "older" and "newer" have a meaning.         *)
(* Authentication, pings and the wording of frames are left out.           *)
(***************************************************************************)
EXTENDS Naturals, Sequences

CONSTANTS
    Publishers,
    BufferSize,     \* bufferSize: frames held for the client
    MaxWrites,      \* bound on the writes of the row
    MaxLost,        \* bound on the frames Redis fails to publish
    MaxExpiries     \* bound on the times the counter outlives seqTTL

ASSUME ChannelAssumption ==
    /\ {MaxWrites, MaxLost, MaxExpiries} \subseteq Nat
    /\ BufferSize \in Nat \ {0}

VARIABLES
    row,        \* number of the last write of the instances row
    seq,        \* the Redis counter, 0 when the key does not exist
    pub,        \* what each publisher is in the middle of
    lost,       \* frames that were numbered and never published
    expiries,   \* times the counter was dropped
    at,         \* where the client's connection is
    buffer,     \* Stream.events
    overflowed, \* Stream.overflowed is closed
    read,       \* the row as Snapshot read it
    lastSeq,    \* lastSeq of the streaming loop
    seen,       \* what the client was last told
    counter,    \* history: was the counter kept while the client streamed
    untold,     \* history: frames published since the client subscribed, and not told
    skipped     \* history: numbers that were lost, or overtaken by a higher one

hist == <<counter, untold, skipped>>
pubVars == <<row, seq, pub, lost, expiries>>
wsVars == <<at, buffer, overflowed, read, lastSeq, seen>>
vars == <<pubVars, wsVars, hist>>

Resting == [at |-> "idle", write |-> 0, seq |-> 0, num |-> "none", late |-> "no", over |-> "no"]

\* What was published, and of its publication: num, where the client's connection
\* was when it was numbered; late, was the row written again before that; over,
\* was a higher number published before it.
Frame(p) == [seq |-> pub[p].seq, write |-> pub[p].write,
             num |-> pub[p].num, late |-> pub[p].late, over |-> pub[p].over]
Moments == {"closed", "subscribed", "row", "streaming", "ended", "restarted"}
Frames == [seq : Nat, write : 1..MaxWrites, num : Moments, late : {"no", "yes"}, over : {"no", "yes"}]

TypeOK ==
    /\ row \in 0..MaxWrites /\ seq \in Nat
    /\ pub \in [Publishers -> [at : {"idle", "incr", "publish"}, write : 0..MaxWrites, seq : Nat,
                               num : Moments \cup {"none"}, late : {"no", "yes"}, over : {"no", "yes"}]]
    /\ lost \in 0..MaxLost /\ expiries \in 0..MaxExpiries
    /\ at \in {"closed", "subscribed", "row", "streaming", "ended"}
    /\ buffer \in Seq(Frames) /\ Len(buffer) <= BufferSize
    /\ overflowed \in BOOLEAN
    /\ {read, seen} \subseteq 0..row /\ lastSeq \in Nat
    /\ counter \in {"kept", "restarted"} /\ untold \subseteq Frames /\ skipped \subseteq Nat

Init ==
    /\ row = 0 /\ seq = 0 /\ lost = 0 /\ expiries = 0
    /\ pub = [p \in Publishers |-> Resting]
    /\ at = "closed" /\ buffer = <<>> /\ overflowed = FALSE
    /\ read = 0 /\ lastSeq = 0 /\ seen = 0
    /\ counter = "kept" /\ untold = {} /\ skipped = {}

-----------------------------------------------------------------------------
(* Publishing.                                                             *)

\* setState or recordDisconnect, before the publish that follows it.  A write of
\* another publisher that is not numbered yet is late from now on.
WriteRow(p) ==
    /\ pub[p].at = "idle" /\ row < MaxWrites
    /\ row' = row + 1
    /\ pub' = [q \in Publishers |->
                  IF q = p THEN [Resting EXCEPT !.at = "incr", !.write = row + 1]
                  ELSE IF pub[q].at = "incr" THEN [pub[q] EXCEPT !.late = "yes"] ELSE pub[q]]
    /\ UNCHANGED <<seq, lost, expiries, wsVars, hist>>

\* Publish: INCR, which also creates the key, and EXPIRE
Incr(p) ==
    /\ pub[p].at = "incr"
    /\ seq' = seq + 1
    /\ pub' = [pub EXCEPT ![p].at = "publish", ![p].seq = seq + 1,
                         ![p].num = IF counter = "kept" THEN at ELSE counter]
    /\ UNCHANGED <<row, lost, expiries, wsVars, hist>>

\* Faulty variant: a frame that does not fit is dropped and nobody is told.
EnqueueDropping(frame) ==
    /\ buffer' = IF at \in {"closed", "ended"} \/ Len(buffer) = BufferSize THEN buffer
                 ELSE Append(buffer, frame)
    /\ UNCHANGED overflowed

\* Faulty variant: the buffer has no limit.
EnqueueUnbounded(frame) ==
    /\ buffer' = IF at \in {"closed", "ended"} THEN buffer ELSE Append(buffer, frame)
    /\ UNCHANGED overflowed

\* The subscription's pump: a full buffer ends the stream for good.
Enqueue(frame) ==
    \/ /\ at \in {"closed", "ended"} \/ overflowed
       /\ UNCHANGED <<buffer, overflowed>>
    \/ /\ at \notin {"closed", "ended"} /\ ~overflowed /\ Len(buffer) < BufferSize
       /\ buffer' = Append(buffer, frame)
       /\ UNCHANGED overflowed
    \/ /\ at \notin {"closed", "ended"} /\ ~overflowed /\ Len(buffer) = BufferSize
       /\ overflowed' = TRUE
       /\ UNCHANGED buffer

\* The publishers that the publication of p overtakes.
Overtaken(p) == {q \in Publishers : pub[q].at = "publish" /\ pub[q].seq < pub[p].seq}

\* Publish: PUBLISH, which reaches whoever is subscribed now
PublishFrame(p) ==
    /\ pub[p].at = "publish"
    /\ Enqueue(Frame(p))
    /\ untold' = IF at \in {"closed", "ended"} THEN untold ELSE untold \cup {Frame(p)}
    /\ skipped' = skipped \cup {pub[q].seq : q \in Overtaken(p)}
    /\ pub' = [q \in Publishers |->
                  IF q = p THEN Resting
                  ELSE IF q \in Overtaken(p) THEN [pub[q] EXCEPT !.over = "yes"] ELSE pub[q]]
    /\ UNCHANGED <<row, seq, lost, expiries, at, read, lastSeq, seen, counter>>

\* Publish returns an error after INCR; the worker only logs it.
PublishLost(p) ==
    /\ pub[p].at = "publish" /\ lost < MaxLost
    /\ lost' = lost + 1
    /\ skipped' = skipped \cup {pub[p].seq}
    /\ pub' = [pub EXCEPT ![p] = Resting]
    /\ UNCHANGED <<row, seq, expiries, wsVars, counter, untold>>

\* Nothing was published for seqTTL: Redis forgets the counter.  A day is longer
\* than it takes to open a connection or to drain a buffer.
SeqExpires ==
    /\ \A p \in Publishers : pub[p].at = "idle"
    /\ at \notin {"subscribed", "row"} /\ buffer = <<>>
    /\ seq > 0 /\ expiries < MaxExpiries
    /\ seq' = 0
    /\ expiries' = expiries + 1
    /\ counter' = IF at = "streaming" THEN "restarted" ELSE counter
    /\ skipped' = {}
    /\ UNCHANGED <<row, pub, lost, wsVars, untold>>

-----------------------------------------------------------------------------
(* One WebSocket connection.                                               *)

Subscribe ==
    /\ at = "closed"
    /\ at' = "subscribed"
    /\ UNCHANGED <<pubVars, buffer, overflowed, read, lastSeq, seen, hist>>

\* Snapshot: the row...
SnapshotRow ==
    /\ at = "subscribed"
    /\ read' = row
    /\ at' = "row"
    /\ UNCHANGED <<pubVars, buffer, overflowed, lastSeq, seen, hist>>

\* ...then CurrentSeq; the snapshot is sent, and its number starts lastSeq.
SnapshotSeq ==
    /\ at = "row"
    /\ lastSeq' = seq
    /\ seen' = read
    /\ at' = "streaming"
    /\ UNCHANGED <<pubVars, buffer, overflowed, read, hist>>

\* Faulty variant: the frame right after the snapshot counts as a duplicate.
ForwardOffByOne ==
    /\ at = "streaming" /\ buffer # <<>>
    /\ buffer' = Tail(buffer)
    /\ LET frame == Head(buffer)
       IN  \/ frame.seq <= lastSeq + 1 /\ UNCHANGED <<lastSeq, seen, untold>>
           \/ frame.seq > lastSeq + 1 /\ lastSeq' = frame.seq /\ seen' = frame.write /\ untold' = untold \ {frame}
    /\ UNCHANGED <<pubVars, at, overflowed, read, counter, skipped>>

\* Faulty variant: the frame that bears the snapshot's number is not a duplicate.
ForwardRepeats ==
    /\ at = "streaming" /\ buffer # <<>>
    /\ buffer' = Tail(buffer)
    /\ LET frame == Head(buffer)
       IN  \/ frame.seq < lastSeq /\ UNCHANGED <<lastSeq, seen, untold>>
           \/ frame.seq >= lastSeq /\ lastSeq' = frame.seq /\ seen' = frame.write /\ untold' = untold \ {frame}
    /\ UNCHANGED <<pubVars, at, overflowed, read, counter, skipped>>

\* One turn of the streaming loop.
Forward ==
    /\ at = "streaming" /\ buffer # <<>>
    /\ buffer' = Tail(buffer)
    /\ LET frame == Head(buffer)
       IN  \/ frame.seq <= lastSeq /\ UNCHANGED <<lastSeq, seen, untold>>
           \/ frame.seq > lastSeq /\ lastSeq' = frame.seq /\ seen' = frame.write /\ untold' = untold \ {frame}
    /\ UNCHANGED <<pubVars, at, overflowed, read, counter, skipped>>

\* The consumer was too slow: the loop meets the closed Overflowed channel, or
\* the end of Events once it is drained.
CloseSlow ==
    /\ at = "streaming" /\ overflowed
    /\ at' = "ended"
    /\ UNCHANGED <<pubVars, buffer, overflowed, read, lastSeq, seen, hist>>

Next ==
    \/ \E p \in Publishers : WriteRow(p) \/ Incr(p) \/ PublishFrame(p) \/ PublishLost(p)
    \/ SeqExpires
    \/ Subscribe \/ SnapshotRow \/ SnapshotSeq \/ Forward \/ CloseSlow

Spec == Init /\ [][Next]_vars

-----------------------------------------------------------------------------
(* Properties.                                                             *)

\* Frames after the snapshot come in order, and a number the client does not see
\* was never published, or was published after a higher one: subscribing before
\* reading the snapshot makes the rest reach it, or the connection ends (stream,
\* Subscribe, Publish).
NoHoles ==
    [][at = "streaming" /\ lastSeq' # lastSeq =>
          lastSeq' > lastSeq /\ (lastSeq + 1)..(lastSeq' - 1) \subseteq skipped]_vars

\* What the client is told goes back to an older write of the row, from the
\* snapshot on, only by a frame whose publisher was held up between its write and
\* its number while another wrote the row (stream, Publish, pump).
NeverOlder == [][at = "streaming" /\ seen' < seen => Head(buffer).late = "yes"]_vars

\* As long as the client keeps up, a frame that was published since it subscribed
\* reaches it, unless the snapshot has the write it tells of.  The rest are lost to
\* the filter on the sequence number in three ways: the row was written and the
\* frame numbered between the two reads of the snapshot, a publisher that took its
\* number later was faster, or the counter was restarted (stream, Snapshot,
\* Publish).
NothingMissed ==
    ~overflowed => \A f \in untold :
        \/ \E n \in 1..Len(buffer) : buffer[n] = f
        \/ f.write <= read
        \/ f.num = "row" \/ f.over = "yes" \/ f.num = "restarted"

AtRest ==
    /\ \A p \in Publishers : pub[p].at = "idle"
    /\ at = "streaming" /\ buffer = <<>> /\ ~overflowed

\* Once nothing is in flight the client and the row agree: the snapshot's number
\* covers exactly what the snapshot reflects (Snapshot, stream).
ClientMatchesRow == AtRest => seen = row
=============================================================================

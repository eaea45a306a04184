-------------------------- MODULE EventChannelProofs --------------------------
(***************************************************************************)
(* Proofs about EventChannel, for any number of publishers, any buffer,    *)
(* any number of writes, of frames Redis loses and of expiries of the      *)
(* counter.                                                                *)
(***************************************************************************)
EXTENDS EventChannel, TLAPS

\* The bounds are natural numbers.
LEMMA Bounds ==
    MaxWrites \in Nat /\ MaxLost \in Nat /\ MaxExpiries \in Nat /\ BufferSize \in Nat /\ BufferSize > 0
  BY ChannelAssumption

USE Bounds

-----------------------------------------------------------------------------
(* The inductive invariant, as predicates of the state they are about.     *)

Publications ==
    [at : {"idle", "incr", "publish"}, write : 0..MaxWrites, seq : Nat,
     num : Moments \cup {"none"}, late : {"no", "yes"}, over : {"no", "yes"}]

\* What the publishers hold: a write of the row, and a number of its own.
Pending(pb, r, sq) ==
    /\ \A p \in Publishers :
        /\ pb[p].at # "idle" => pb[p].write \in 1..r
        /\ pb[p].at = "incr" /\ pb[p].late = "no" => pb[p].write = r
        /\ pb[p].at = "publish" => pb[p].seq \in 1..sq /\ pb[p].num \in Moments
    /\ \A p, q \in Publishers :
        pb[p].at = "publish" /\ pb[q].at = "publish" /\ pb[p].seq = pb[q].seq => p = q

\* What the buffer holds was numbered by the counter as it is now.
Bounded(bf, r, sq) == \A n \in 1..Len(bf) : bf[n].seq \in 1..sq /\ bf[n].write <= r

\* A number s was given to write w, and its frame is to be published or forwarded.
Numbered(pb, bf, s, w, l) ==
    \/ \E p \in Publishers : pb[p].at = "publish" /\ pb[p].seq = s /\ pb[p].write = w /\ pb[p].late = l
    \/ \E n \in 1..Len(bf) : bf[n].seq = s /\ bf[n].write = w /\ bf[n].late = l

\* A frame that is not late tells of a write no older than those of lower numbers,
\* and than what the client was told.
InOrder(pb, bf) ==
    \A s, w, l, t, v : Numbered(pb, bf, s, w, l) /\ Numbered(pb, bf, t, v, "no") /\ s < t => w <= v
Ahead(pb, bf, a, ls, sn) ==
    a = "streaming" => \A s, w : Numbered(pb, bf, s, w, "no") /\ s > ls => sn <= w

\* Where the connection can be after f was numbered.
Placed(f, a, rd) ==
    /\ f.num \in {"closed", "subscribed"} /\ a \in {"row", "streaming"} => f.write <= rd
    /\ f.num = "row" => a \notin {"closed", "subscribed"}
    /\ f.num \in {"streaming", "restarted"} => a \in {"streaming", "ended"}
    /\ f.num = "ended" => a = "ended"
Timed(pb, bf, a, rd) ==
    /\ \A p \in Publishers : pb[p].at = "publish" => Placed(pb[p], a, rd)
    /\ \A n \in 1..Len(bf) : Placed(bf[n], a, rd)
Counted(pb, a, ct, ls, sq) ==
    /\ ct = "restarted" => /\ a \in {"streaming", "ended"}
                           /\ \A p \in Publishers : pb[p].at = "publish" => pb[p].num = "restarted"
    /\ ct = "kept" /\ a = "streaming" => ls <= sq

\* Numbers rise along the buffer and on to the publishers, but for those that
\* were overtaken.
Rising(pb, bf) ==
    /\ \A m, n \in 1..Len(bf) : m < n => bf[m].seq < bf[n].seq \/ bf[n].over = "yes"
    /\ \A p \in Publishers : pb[p].at = "publish" /\ pb[p].over = "no" =>
        \A n \in 1..Len(bf) : bf[n].seq < pb[p].seq

\* A frame the filter lets pass, or may stop.
Excused(f, rd) == f.write <= rd \/ f.num = "row" \/ f.over = "yes" \/ f.num = "restarted"
Passes(f, ls, rd) == f.seq > ls \/ Excused(f, rd)
Passing(pb, bf, a, ls, rd) ==
    a = "streaming" =>
        /\ \A p \in Publishers : pb[p].at = "publish" => Passes(pb[p], ls, rd)
        /\ \A n \in 1..Len(bf) : Passes(bf[n], ls, rd)
Reached(un, bf, ov, rd) ==
    ~ov => \A f \in un : (\E n \in 1..Len(bf) : bf[n] = f) \/ Excused(f, rd)

\* Every number is accounted for, and those below a frame of the buffer by what
\* comes before it.
Known(pb, bf, a, ov, sk, ls, sq) ==
    a = "streaming" /\ ~ov =>
        \A s \in 1..sq : \/ s \in sk \/ s <= ls
                         \/ \E n \in 1..Len(bf) : bf[n].seq = s
                         \/ \E p \in Publishers : pb[p].at = "publish" /\ pb[p].seq = s
Filled(bf, a, sk, ls) ==
    a = "streaming" =>
        \A k \in 1..Len(bf) : \A s \in 1..(bf[k].seq - 1) :
            s > ls => s \in sk \/ \E j \in 1..(k - 1) : bf[j].seq = s

IInv ==
    /\ TypeOK
    /\ Pending(pub, row, seq) /\ Bounded(buffer, row, seq)
    /\ InOrder(pub, buffer) /\ Ahead(pub, buffer, at, lastSeq, seen)
    /\ Timed(pub, buffer, at, read) /\ Counted(pub, at, counter, lastSeq, seq)
    /\ Rising(pub, buffer) /\ Passing(pub, buffer, at, lastSeq, read)
    /\ Reached(untold, buffer, overflowed, read)
    /\ Known(pub, buffer, at, overflowed, skipped, lastSeq, seq)
    /\ Filled(buffer, at, skipped, lastSeq)

-----------------------------------------------------------------------------
(* Lemmas about buffers, frames and publishers.                            *)

\* Taking a frame off a buffer moves the others up by one (stream's receive).
LEMMA TailFacts ==
    ASSUME NEW b \in Seq(Frames), b # <<>>
    PROVE  /\ Tail(b) \in Seq(Frames) /\ Len(Tail(b)) = Len(b) - 1 /\ Len(b) \in Nat \ {0}
           /\ Head(b) = b[1] /\ b[1] \in Frames
           /\ \A i \in 1..Len(Tail(b)) : Tail(b)[i] = b[i + 1] /\ i + 1 \in 1..Len(b)
  OBVIOUS

\* Putting a frame at the end of a buffer leaves the others where they are (the
\* pump's send).
LEMMA AppendFacts ==
    ASSUME NEW b \in Seq(Frames), NEW f \in Frames
    PROVE  /\ Append(b, f) \in Seq(Frames) /\ Len(Append(b, f)) = Len(b) + 1 /\ Len(b) \in Nat
           /\ Append(b, f)[Len(b) + 1] = f
           /\ \A i \in 1..Len(b) : Append(b, f)[i] = b[i]
  OBVIOUS

\* The fields of what a buffer and a publisher hold.
LEMMA Fields ==
    ASSUME TypeOK
    PROVE  /\ Len(buffer) \in Nat
           /\ \A n \in 1..Len(buffer) :
                /\ buffer[n] \in Frames /\ buffer[n].seq \in Nat /\ buffer[n].write \in Nat
                /\ buffer[n].num \in Moments
                /\ buffer[n].late \in {"no", "yes"} /\ buffer[n].over \in {"no", "yes"}
           /\ pub \in [Publishers -> Publications]
           /\ \A p \in Publishers :
                /\ pub[p] \in Publications /\ pub[p].at \in {"idle", "incr", "publish"}
                /\ pub[p].write \in 0..MaxWrites /\ pub[p].write \in Nat /\ pub[p].seq \in Nat
                /\ pub[p].late \in {"no", "yes"} /\ pub[p].over \in {"no", "yes"}
  <1>1. Len(buffer) \in Nat /\ \A n \in 1..Len(buffer) : buffer[n] \in Frames
    BY DEF TypeOK
  <1>2. \A f \in Frames : /\ f.seq \in Nat /\ f.write \in 1..MaxWrites /\ f.num \in Moments
                          /\ f.late \in {"no", "yes"} /\ f.over \in {"no", "yes"}
    BY Zenon DEF Frames
  <1>3. pub \in [Publishers -> Publications]
    BY Zenon DEF TypeOK, Publications
  <1>4. \A r \in Publications :
           /\ r.at \in {"idle", "incr", "publish"} /\ r.write \in 0..MaxWrites /\ r.seq \in Nat
           /\ r.late \in {"no", "yes"} /\ r.over \in {"no", "yes"}
    BY Zenon DEF Publications
  <1>5. (\A n \in 0..MaxWrites : n \in Nat) /\ \A n \in 1..MaxWrites : n \in Nat
    OBVIOUS
  <1> QED BY <1>1, <1>2, <1>3, <1>4, <1>5, Zenon

\* A record with a field or two replaced is still a publication.
LEMMA Replaced ==
    ASSUME NEW r \in Publications
    PROVE  /\ \A x \in {"no", "yes"} :
                /\ [r EXCEPT !.late = x] \in Publications /\ [r EXCEPT !.over = x] \in Publications
                /\ [r EXCEPT !.late = x].at = r.at /\ [r EXCEPT !.late = x].write = r.write
                /\ [r EXCEPT !.late = x].late = x
                /\ [r EXCEPT !.over = x].at = r.at /\ [r EXCEPT !.over = x].write = r.write
                /\ [r EXCEPT !.over = x].seq = r.seq /\ [r EXCEPT !.over = x].num = r.num
                /\ [r EXCEPT !.over = x].late = r.late /\ [r EXCEPT !.over = x].over = x
  BY Zenon DEF Publications

\* The record of a publisher that does nothing, and of one that wrote the row.
LEMMA AtFirst ==
    /\ Resting \in Publications /\ Resting.at = "idle"
    /\ \A w \in 0..MaxWrites :
        LET t == [Resting EXCEPT !.at = "incr", !.write = w]
        IN  t \in Publications /\ t.at = "incr" /\ t.write = w /\ t.late = "no" /\ t.over = "no"
  <1>1. Resting \in Publications /\ Resting.at = "idle"
    BY DEF Resting, Publications
  <1>2. Resting.late = "no" /\ Resting.over = "no"
    BY Zenon DEF Resting
  <1>3. \A r \in Publications, w \in 0..MaxWrites :
          LET t == [r EXCEPT !.at = "incr", !.write = w]
          IN  t \in Publications /\ t.at = "incr" /\ t.write = w /\ t.late = r.late /\ t.over = r.over
    BY Zenon DEF Publications
  <1> QED BY <1>1, <1>2, <1>3, Zenon

\* A number given was given by the counter as it is, to a write of the row.
LEMMA NumberedBounds ==
    ASSUME TypeOK, Pending(pub, row, seq), Bounded(buffer, row, seq),
           NEW s, NEW w, NEW l, Numbered(pub, buffer, s, w, l)
    PROVE  s \in 1..seq /\ w \in Nat /\ w <= row
  <1>1. ASSUME NEW p \in Publishers, pub[p].at = "publish"
        PROVE  pub[p].seq \in 1..seq /\ pub[p].write \in Nat /\ pub[p].write <= row
    <2>1. pub[p].seq \in 1..seq /\ pub[p].write \in 1..row
      BY <1>1 DEF Pending
    <2> QED BY <2>1 DEF TypeOK
  <1>2. ASSUME NEW n \in 1..Len(buffer)
        PROVE  buffer[n].seq \in 1..seq /\ buffer[n].write \in Nat /\ buffer[n].write <= row
    BY Fields, Zenon DEF Bounded
  <1> QED BY <1>1, <1>2, Zenon DEF Numbered

\* The order of the numbers is kept when no number is added.
LEMMA NothingNew ==
    ASSUME NEW pb, NEW pc, NEW bf, NEW bg,
           \A s, w, l : Numbered(pc, bg, s, w, l) => Numbered(pb, bf, s, w, l)
    PROVE  /\ InOrder(pb, bf) => InOrder(pc, bg)
           /\ \A a, ls, sn : Ahead(pb, bf, a, ls, sn) => Ahead(pc, bg, a, ls, sn)
  BY Zenon DEF InOrder, Ahead

\* Who is publishing was publishing the same; it may have been overtaken.
Kept(pb, pc) ==
    \A q \in Publishers : pc[q].at = "publish" =>
        /\ pb[q].at = "publish" /\ pc[q].seq = pb[q].seq /\ pc[q].write = pb[q].write
        /\ pc[q].num = pb[q].num /\ pc[q].late = pb[q].late
        /\ pc[q].over = pb[q].over \/ pc[q].over = "yes"

\* What is said of the publishers is kept with them.
LEMMA KeptFacts ==
    ASSUME NEW pb, NEW pc, NEW bf, Kept(pb, pc)
    PROVE  /\ \A s, w, l : Numbered(pc, bf, s, w, l) => Numbered(pb, bf, s, w, l)
           /\ \A a, rd : Timed(pb, bf, a, rd) => Timed(pc, bf, a, rd)
           /\ \A a, ct, ls, sq : Counted(pb, a, ct, ls, sq) => Counted(pc, a, ct, ls, sq)
           /\ Rising(pb, bf) => Rising(pc, bf)
           /\ \A a, ls, rd : Passing(pb, bf, a, ls, rd) => Passing(pc, bf, a, ls, rd)
  <1>1. \A s, w, l : Numbered(pc, bf, s, w, l) => Numbered(pb, bf, s, w, l)
    <2> TAKE s, w, l
    <2>1. ASSUME NEW p \in Publishers, pc[p].at = "publish", pc[p].seq = s, pc[p].write = w, pc[p].late = l
          PROVE  Numbered(pb, bf, s, w, l)
      <3>1. pb[p].at = "publish" /\ pb[p].seq = s /\ pb[p].write = w /\ pb[p].late = l
        BY <2>1, Zenon DEF Kept
      <3> QED BY <3>1, Zenon DEF Numbered
    <2>2. ASSUME NEW n \in 1..Len(bf), bf[n].seq = s, bf[n].write = w, bf[n].late = l
          PROVE  Numbered(pb, bf, s, w, l)
      BY <2>2, Zenon DEF Numbered
    <2> QED BY <2>1, <2>2, Zenon DEF Numbered
  <1>2. \A a, rd : Timed(pb, bf, a, rd) => Timed(pc, bf, a, rd)
    <2>1. ASSUME NEW a, NEW rd, NEW p \in Publishers, pc[p].at = "publish", Placed(pb[p], a, rd)
          PROVE  Placed(pc[p], a, rd)
      <3>1. pc[p].num = pb[p].num /\ pc[p].write = pb[p].write
        BY <2>1, Zenon DEF Kept
      <3> QED BY <2>1, <3>1, Zenon DEF Placed
    <2> QED BY <2>1, Zenon DEF Timed, Kept
  <1>3. \A a, ct, ls, sq : Counted(pb, a, ct, ls, sq) => Counted(pc, a, ct, ls, sq)
    BY Zenon DEF Counted, Kept
  <1>4. Rising(pb, bf) => Rising(pc, bf)
    <2>1. ASSUME NEW p \in Publishers, pc[p].at = "publish", pc[p].over = "no"
          PROVE  pb[p].at = "publish" /\ pb[p].over = "no" /\ pc[p].seq = pb[p].seq
      <3>1. "no" # "yes"
        OBVIOUS
      <3> QED BY <2>1, <3>1, Zenon DEF Kept
    <2> QED BY <2>1, Zenon DEF Rising
  <1>5. \A a, ls, rd : Passing(pb, bf, a, ls, rd) => Passing(pc, bf, a, ls, rd)
    <2>1. ASSUME NEW ls, NEW rd, NEW p \in Publishers, pc[p].at = "publish", Passes(pb[p], ls, rd)
          PROVE  Passes(pc[p], ls, rd)
      <3>1. /\ pc[p].num = pb[p].num /\ pc[p].write = pb[p].write /\ pc[p].seq = pb[p].seq
            /\ pc[p].over = pb[p].over \/ pc[p].over = "yes"
        BY <2>1, Zenon DEF Kept
      <3> QED BY <2>1, <3>1, Zenon DEF Passes, Excused
    <2> QED BY <2>1, Zenon DEF Passing, Kept
  <1> QED BY <1>1, <1>2, <1>3, <1>4, <1>5, Zenon

-----------------------------------------------------------------------------
(* Every step preserves the invariant.                                     *)

\* The initial state satisfies the invariant.
LEMMA InvariantInit == Init => IInv
  <1> SUFFICES ASSUME Init PROVE IInv
    OBVIOUS
  <1>1. pub \in [Publishers -> Publications] /\ \A p \in Publishers : pub[p].at = "idle"
    BY AtFirst, Zenon DEF Init
  <1>2. buffer = <<>> /\ Len(buffer) = 0 /\ buffer \in Seq(Frames)
    BY DEF Init
  <1>3. TypeOK
    <2>1. overflowed \in BOOLEAN /\ untold \subseteq Frames /\ skipped \subseteq Nat
      BY Zenon DEF Init
    <2>2. at \in {"closed", "subscribed", "row", "streaming", "ended"} /\ counter \in {"kept", "restarted"}
      BY Zenon DEF Init
    <2>3. /\ row \in 0..MaxWrites /\ seq \in Nat /\ lost \in 0..MaxLost /\ expiries \in 0..MaxExpiries
          /\ {read, seen} \subseteq 0..row /\ lastSeq \in Nat
      BY DEF Init
    <2>4. Len(buffer) <= BufferSize
      BY <1>2
    <2> QED BY <1>1, <1>2, <2>1, <2>2, <2>3, <2>4, Zenon DEF TypeOK, Publications
  <1>4. \A n \in 1..Len(buffer) : FALSE
    BY <1>2
  <1>5. "idle" # "publish" /\ "idle" # "incr" /\ at # "streaming" /\ counter # "restarted"
    BY DEF Init
  <1>6. untold = {}
    BY Zenon DEF Init
  <1>7. \A s, w, l : ~Numbered(pub, buffer, s, w, l)
    BY <1>1, <1>4, <1>5, Zenon DEF Numbered
  <1>8. InOrder(pub, buffer) /\ Ahead(pub, buffer, at, lastSeq, seen)
    BY <1>7, <1>5, Zenon DEF InOrder, Ahead
  <1>9. /\ Pending(pub, row, seq) /\ Bounded(buffer, row, seq)
        /\ Timed(pub, buffer, at, read) /\ Counted(pub, at, counter, lastSeq, seq)
        /\ Rising(pub, buffer) /\ Passing(pub, buffer, at, lastSeq, read)
    BY <1>1, <1>4, <1>5, Zenon DEF Pending, Bounded, Timed, Counted, Rising, Passing
  <1>10. /\ Reached(untold, buffer, overflowed, read) /\ Filled(buffer, at, skipped, lastSeq)
         /\ Known(pub, buffer, at, overflowed, skipped, lastSeq, seq)
    BY <1>5, <1>6, Zenon DEF Reached, Filled, Known
  <1> QED BY <1>3, <1>8, <1>9, <1>10, Zenon DEF IInv

\* Writing the row preserves the invariant (setState, recordDisconnect).
LEMMA WriteRowStep ==
    ASSUME IInv, NEW p \in Publishers, WriteRow(p)
    PROVE  IInv'
  <1> USE DEF IInv
  <1>a. /\ UNCHANGED <<seq, lost, expiries, at, buffer, overflowed, read, lastSeq, seen, counter, untold, skipped>>
        /\ row' = row + 1 /\ row < MaxWrites /\ pub[p].at = "idle"
        /\ pub' = [q \in Publishers |->
                      IF q = p THEN [Resting EXCEPT !.at = "incr", !.write = row + 1]
                      ELSE IF pub[q].at = "incr" THEN [pub[q] EXCEPT !.late = "yes"] ELSE pub[q]]
    BY Zenon DEF WriteRow, wsVars, hist
  <1>b. row + 1 \in 0..MaxWrites /\ row \in Nat
    <2>1. row \in 0..MaxWrites /\ row < MaxWrites
      BY <1>a, Zenon DEF TypeOK
    <2> QED BY <2>1
  <1>c. /\ pub'[p] \in Publications /\ pub'[p].at = "incr" /\ pub'[p].write = row + 1
        /\ pub'[p].late = "no"
    BY <1>a, <1>b, AtFirst, Zenon
  <1>d. ASSUME NEW q \in Publishers, q # p
        PROVE  /\ pub'[q] \in Publications /\ pub'[q].at = pub[q].at /\ pub'[q].write = pub[q].write
               /\ pub[q].at = "incr" => pub'[q].late = "yes"
               /\ pub[q].at # "incr" => pub'[q] = pub[q]
    <2>1. pub[q] \in Publications
      BY Fields, Zenon
    <2>2. CASE pub[q].at = "incr"
      <3>1. pub'[q] = [pub[q] EXCEPT !.late = "yes"]
        BY <1>a, <1>d, <2>2, Zenon
      <3>2. \A r \in Publications :
              /\ [r EXCEPT !.late = "yes"] \in Publications /\ [r EXCEPT !.late = "yes"].at = r.at
              /\ [r EXCEPT !.late = "yes"].write = r.write /\ [r EXCEPT !.late = "yes"].late = "yes"
        BY Replaced, Zenon
      <3>3. /\ pub'[q] \in Publications /\ pub'[q].at = pub[q].at
            /\ pub'[q].write = pub[q].write /\ pub'[q].late = "yes"
        BY <3>1, <3>2, <2>1, Zenon
      <3> QED BY <3>3, <2>2, Zenon
    <2>3. CASE pub[q].at # "incr"
      <3>1. pub'[q] = pub[q]
        BY <1>a, <1>d, <2>3, Zenon
      <3> QED BY <3>1, <2>1, <2>3, Zenon
    <2> QED BY <2>2, <2>3, Zenon
  <1>e. "incr" # "publish" /\ "incr" # "idle" /\ "idle" # "publish" /\ "no" # "yes"
    OBVIOUS
  <1>f. \A q \in Publishers : /\ pub'[q].at = "publish" => pub[q].at = "publish" /\ pub'[q] = pub[q]
                              /\ pub[q].at = "publish" => pub'[q].at = "publish" /\ pub'[q] = pub[q]
    BY <1>a, <1>c, <1>d, <1>e, Zenon
  <1>1. TypeOK'
    <2>1. pub' \in [Publishers -> Publications]
      BY <1>a, <1>c, <1>d, Zenon
    <2>2. {read, seen}' \subseteq 0..row' /\ row' \in 0..MaxWrites
      <3>1. \A n \in 0..row : n \in 0..(row + 1)
        BY <1>b
      <3>2. {read, seen} \subseteq 0..row
        BY Zenon DEF TypeOK
      <3> QED BY <1>a, <1>b, <3>1, <3>2, Zenon
    <2> QED BY <1>a, <2>1, <2>2, Zenon DEF TypeOK, Publications
  <1>2. Pending(pub, row, seq)'
    <2>1. ASSUME NEW q \in Publishers
          PROVE  /\ pub'[q].at # "idle" => pub'[q].write \in 1..row'
                 /\ pub'[q].at = "incr" /\ pub'[q].late = "no" => pub'[q].write = row'
                 /\ pub'[q].at = "publish" => pub'[q].seq \in 1..seq' /\ pub'[q].num \in Moments
      <3>1. CASE q = p
        BY <1>a, <1>b, <1>c, <1>e, <3>1
      <3>2. CASE q # p
        <4>1. pub[q].at # "idle" => pub[q].write \in 1..(row + 1)
          BY <1>b DEF Pending
        <4>2. pub'[q].at = "publish" => pub'[q].seq \in 1..seq' /\ pub'[q].num \in Moments
          BY <1>a, <1>f, Zenon DEF Pending
        <4> QED BY <1>a, <1>d, <1>e, <3>2, <4>1, <4>2, Zenon
      <3> QED BY <3>1, <3>2, Zenon
    <2>2. \A q, r \in Publishers :
            pub'[q].at = "publish" /\ pub'[r].at = "publish" /\ pub'[q].seq = pub'[r].seq => q = r
      BY <1>f, Zenon DEF Pending
    <2> QED BY <2>1, <2>2, Zenon DEF Pending
  <1>3. Bounded(buffer, row, seq)'
    BY <1>a, <1>b, Fields DEF Bounded
  <1>4. Kept(pub, pub')
    BY <1>f, Zenon DEF Kept
  <1>5. /\ InOrder(pub, buffer)' /\ Ahead(pub, buffer, at, lastSeq, seen)'
        /\ Timed(pub, buffer, at, read)' /\ Counted(pub, at, counter, lastSeq, seq)'
        /\ Rising(pub, buffer)' /\ Passing(pub, buffer, at, lastSeq, read)'
    <2>0. Kept(pub, pub')
      BY <1>4, Zenon
    <2>1. \A s, w, l : Numbered(pub', buffer, s, w, l) => Numbered(pub, buffer, s, w, l)
      BY <2>0, KeptFacts, Zenon
    <2>2. InOrder(pub', buffer) /\ Ahead(pub', buffer, at, lastSeq, seen)
      BY <2>1, NothingNew, Zenon
    <2>3. /\ Timed(pub', buffer, at, read) /\ Counted(pub', at, counter, lastSeq, seq)
          /\ Rising(pub', buffer) /\ Passing(pub', buffer, at, lastSeq, read)
      BY <2>0, KeptFacts, Zenon
    <2> QED BY <1>a, <2>2, <2>3, Zenon
  <1>6. Known(pub, buffer, at, overflowed, skipped, lastSeq, seq)'
    BY <1>a, <1>f, Zenon DEF Known
  <1>7. Reached(untold, buffer, overflowed, read)' /\ Filled(buffer, at, skipped, lastSeq)'
    BY <1>a, Zenon
  <1> QED BY <1>1, <1>2, <1>3, <1>5, <1>6, <1>7, Zenon

\* Numbering a frame preserves the invariant: the number is above all others, and
\* the write no older than theirs unless it is late (Publish, INCR).
LEMMA IncrStep ==
    ASSUME IInv, NEW p \in Publishers, Incr(p)
    PROVE  IInv'
  <1> USE DEF IInv
  <1> DEFINE m == IF counter = "kept" THEN at ELSE counter
  <1>a. /\ UNCHANGED <<row, lost, expiries, at, buffer, overflowed, read, lastSeq, seen, counter, untold, skipped>>
        /\ seq' = seq + 1 /\ pub[p].at = "incr"
        /\ pub' = [pub EXCEPT ![p] = [pub[p] EXCEPT !.at = "publish", !.seq = seq + 1, !.num = m]]
    BY Fields, Zenon DEF Incr, wsVars, hist
  <1>b. /\ m \in Moments /\ (counter = "restarted" => m = "restarted") /\ (counter = "kept" => m = at)
        /\ counter \in {"kept", "restarted"}
    BY DEF TypeOK, Moments
  <1> HIDE DEF m
  <1>c. /\ seq \in Nat /\ seq + 1 \in Nat /\ seq + 1 \in 1..seq' /\ row \in Nat
        /\ (\A s \in 1..seq : s \in 1..seq' /\ s # seq + 1 /\ s < seq + 1 /\ s \in Nat)
        /\ \A s \in 1..seq' : s \in 1..seq \/ s = seq + 1
    <2>1. seq \in Nat /\ row \in Nat /\ seq' = seq + 1
      BY <1>a DEF TypeOK
    <2> QED BY <2>1
  <1>d. /\ pub'[p] \in Publications /\ pub'[p].at = "publish" /\ pub'[p].seq = seq + 1 /\ pub'[p].num = m
        /\ pub'[p].write = pub[p].write /\ pub'[p].late = pub[p].late /\ pub'[p].over = pub[p].over
        /\ \A q \in Publishers : q # p => pub'[q] = pub[q]
    <2> DEFINE x == [pub[p] EXCEPT !.at = "publish", !.seq = seq + 1, !.num = m]
    <2>1. pub[p] \in Publications /\ pub \in [Publishers -> Publications]
      BY Fields, Zenon
    <2>2. pub'[p] = x
      BY <1>a, <2>1, Zenon
    <2>3. \A q \in Publishers : q # p => pub'[q] = pub[q]
      BY <1>a, <2>1, Zenon
    <2>4. seq + 1 \in Nat /\ m \in Moments
      BY <1>b, <1>c, Zenon
    <2>5. /\ x \in Publications /\ x.at = "publish" /\ x.seq = seq + 1 /\ x.num = m
          /\ x.write = pub[p].write /\ x.late = pub[p].late /\ x.over = pub[p].over
      BY <2>1, <2>4, Zenon DEF Publications
    <2> HIDE DEF x
    <2> QED BY <2>2, <2>3, <2>5, Zenon
  <1>e. "incr" # "publish" /\ "incr" # "idle" /\ "publish" # "idle"
    OBVIOUS
  <1>f. /\ pub[p].write \in 1..row /\ pub[p].write \in Nat /\ pub[p].write <= row
        /\ pub[p].late = "no" => pub[p].write = row
    <2>1. pub[p].write \in 1..row /\ (pub[p].late = "no" => pub[p].write = row)
      BY <1>a, <1>e, Zenon DEF Pending
    <2> QED BY <1>c, <2>1
  <1>1. TypeOK'
    <2>1. pub' \in [Publishers -> Publications]
      BY <1>a, <1>d, Fields, Zenon
    <2> QED BY <1>a, <1>c, <2>1, Zenon DEF TypeOK, Publications
  <1>2. Pending(pub, row, seq)'
    <2>1. ASSUME NEW q \in Publishers, pub[q].at = "publish"
          PROVE  pub[q].seq \in 1..seq' /\ pub[q].num \in Moments /\ pub[q].seq # seq + 1
      BY <1>c, <2>1, Zenon DEF Pending
    <2>2. ASSUME NEW q \in Publishers
          PROVE  /\ pub'[q].at # "idle" => pub'[q].write \in 1..row'
                 /\ pub'[q].at = "incr" /\ pub'[q].late = "no" => pub'[q].write = row'
                 /\ pub'[q].at = "publish" => pub'[q].seq \in 1..seq' /\ pub'[q].num \in Moments
      <3>1. CASE q = p
        BY <1>a, <1>b, <1>c, <1>d, <1>e, <1>f, <3>1, Zenon
      <3>2. CASE q # p
        BY <1>a, <1>d, <2>1, <3>2, Zenon DEF Pending
      <3> QED BY <3>1, <3>2, Zenon
    <2>3. ASSUME NEW q \in Publishers, NEW r \in Publishers,
                 pub'[q].at = "publish", pub'[r].at = "publish", pub'[q].seq = pub'[r].seq
          PROVE  q = r
      <3>1. CASE q # p /\ r # p
        BY <1>d, <2>3, <3>1, Zenon DEF Pending
      <3> QED BY <1>d, <2>1, <2>3, <3>1, Zenon
    <2> QED BY <2>2, <2>3, Zenon DEF Pending
  <1>3. Bounded(buffer, row, seq)'
    BY <1>a, <1>c, Zenon DEF Bounded
  <1>4. \A s, w, l : Numbered(pub', buffer, s, w, l) =>
            Numbered(pub, buffer, s, w, l) \/ (s = seq + 1 /\ w = pub[p].write /\ l = pub[p].late)
    <2> TAKE s, w, l
    <2>1. ASSUME NEW q \in Publishers, pub'[q].at = "publish", pub'[q].seq = s, pub'[q].write = w, pub'[q].late = l
          PROVE  Numbered(pub, buffer, s, w, l) \/ (s = seq + 1 /\ w = pub[p].write /\ l = pub[p].late)
      <3>1. CASE q = p
        BY <1>d, <2>1, <3>1, Zenon
      <3>2. CASE q # p
        BY <1>d, <2>1, <3>2, Zenon DEF Numbered
      <3> QED BY <3>1, <3>2, Zenon
    <2>2. ASSUME NEW n \in 1..Len(buffer), buffer[n].seq = s, buffer[n].write = w, buffer[n].late = l
          PROVE  Numbered(pub, buffer, s, w, l)
      BY <2>2, Zenon DEF Numbered
    <2> QED BY <2>1, <2>2, Zenon DEF Numbered
  <1>5. InOrder(pub, buffer)'
    <2>1. ASSUME NEW s, NEW w, NEW l, NEW t, NEW v, s < t,
                 Numbered(pub', buffer, s, w, l), Numbered(pub', buffer, t, v, "no")
          PROVE  w <= v
      <3>1. CASE Numbered(pub, buffer, s, w, l) /\ Numbered(pub, buffer, t, v, "no")
        BY <2>1, <3>1, Zenon DEF InOrder
      <3>2. CASE Numbered(pub, buffer, s, w, l) /\ t = seq + 1 /\ v = pub[p].write /\ "no" = pub[p].late
        BY <1>f, <3>2, NumberedBounds, Zenon
      <3>3. CASE s = seq + 1 /\ Numbered(pub, buffer, t, v, "no")
        <4>1. t \in 1..seq
          BY <3>3, NumberedBounds, Zenon
        <4> QED BY <1>c, <2>1, <3>3, <4>1
      <3>4. CASE s = seq + 1 /\ t = seq + 1
        BY <1>c, <2>1, <3>4
      <3>5. Numbered(pub, buffer, s, w, l) \/ s = seq + 1
        BY <1>4, <2>1, Zenon
      <3>6. \/ Numbered(pub, buffer, t, v, "no")
            \/ t = seq + 1 /\ v = pub[p].write /\ "no" = pub[p].late
        BY <1>4, <2>1, Zenon
      <3> QED BY <3>1, <3>2, <3>3, <3>4, <3>5, <3>6, Zenon
    <2> QED BY <1>a, <2>1, Zenon DEF InOrder
  <1>6. Ahead(pub, buffer, at, lastSeq, seen)'
    <2>1. seen <= row
      BY DEF TypeOK
    <2> QED BY <1>a, <1>4, <1>f, <2>1, Zenon DEF Ahead
  <1>7. Timed(pub, buffer, at, read)'
    <2>1. Placed(pub'[p], at, read)
      <3>1. at \in {"closed", "subscribed", "row", "streaming", "ended"}
        BY Zenon DEF TypeOK
      <3>2. counter = "restarted" => at \in {"streaming", "ended"}
        BY Zenon DEF Counted
      <3> QED BY <1>b, <1>d, <3>1, <3>2 DEF Placed
    <2> QED BY <1>a, <1>d, <2>1, Zenon DEF Timed
  <1>8. Counted(pub, at, counter, lastSeq, seq)'
    <2>1. lastSeq <= seq => lastSeq <= seq + 1
      BY <1>c DEF TypeOK
    <2> QED BY <1>a, <1>b, <1>d, <2>1, Zenon DEF Counted
  <1>9. Rising(pub, buffer)'
    <2>1. \A n \in 1..Len(buffer) : buffer[n].seq < seq + 1
      BY <1>c, Zenon DEF Bounded
    <2>2. \A q \in Publishers : pub'[q].at = "publish" /\ pub'[q].over = "no" =>
            \A n \in 1..Len(buffer) : buffer[n].seq < pub'[q].seq
      <3> TAKE q \in Publishers
      <3>1. CASE q = p
        BY <1>d, <2>1, <3>1, Zenon
      <3>2. CASE q # p
        BY <1>d, <3>2, Zenon DEF Rising
      <3> QED BY <3>1, <3>2, Zenon
    <2>3. Rising(pub', buffer)
      BY <2>2, Zenon DEF Rising
    <2> QED BY <1>a, <2>3, Zenon
  <1>10. Passing(pub, buffer, at, lastSeq, read)'
    <2>1. at = "streaming" => Passes(pub'[p], lastSeq, read)
      <3>1. CASE counter = "kept"
        <4>1. at = "streaming" => seq + 1 > lastSeq
          BY <3>1, <1>c DEF Counted, TypeOK
        <4> QED BY <1>d, <4>1, Zenon DEF Passes
      <3>2. CASE counter = "restarted"
        BY <1>b, <1>d, <3>2, Zenon DEF Passes, Excused
      <3> QED BY <1>b, <3>1, <3>2, Zenon
    <2> QED BY <1>a, <1>d, <2>1, Zenon DEF Passing
  <1>11. Known(pub, buffer, at, overflowed, skipped, lastSeq, seq)'
    <2>1. \A q \in Publishers : pub[q].at = "publish" => pub'[q].at = "publish" /\ pub'[q].seq = pub[q].seq
      BY <1>a, <1>d, <1>e, Zenon
    <2>2. ASSUME at = "streaming", ~overflowed, NEW s \in 1..seq'
          PROVE  \/ s \in skipped \/ s <= lastSeq
                 \/ \E n \in 1..Len(buffer) : buffer[n].seq = s
                 \/ \E q \in Publishers : pub'[q].at = "publish" /\ pub'[q].seq = s
      <3>1. CASE s = seq + 1
        BY <1>d, <3>1, Zenon
      <3>2. CASE s \in 1..seq
        BY <2>1, <2>2, <3>2, Zenon DEF Known
      <3> QED BY <1>c, <3>1, <3>2, Zenon
    <2>3. UNCHANGED <<at, buffer, overflowed, skipped, lastSeq>>
      BY <1>a, Zenon
    <2> QED BY <2>2, <2>3, Zenon DEF Known
  <1>12. Reached(untold, buffer, overflowed, read)' /\ Filled(buffer, at, skipped, lastSeq)'
    BY <1>a, Zenon
  <1> QED BY <1>1, <1>2, <1>3, <1>5, <1>6, <1>7, <1>8, <1>9, <1>10, <1>11, <1>12, Zenon

\* A publish that fails after INCR preserves the invariant: its number is one that
\* may be skipped (Publish).
LEMMA PublishLostStep ==
    ASSUME IInv, NEW p \in Publishers, PublishLost(p)
    PROVE  IInv'
  <1> USE DEF IInv
  <1>a. /\ UNCHANGED <<row, seq, expiries, at, buffer, overflowed, read, lastSeq, seen, counter, untold>>
        /\ pub[p].at = "publish" /\ pub' = [pub EXCEPT ![p] = Resting]
        /\ lost' = lost + 1 /\ lost < MaxLost /\ skipped' = skipped \cup {pub[p].seq}
    BY Zenon DEF PublishLost, wsVars
  <1>b. pub' \in [Publishers -> Publications] /\ pub'[p].at = "idle" /\ \A q \in Publishers : q # p => pub'[q] = pub[q]
    BY <1>a, AtFirst, Fields, Zenon
  <1>c. "idle" # "publish" /\ "idle" # "incr"
    OBVIOUS
  <1>1. TypeOK'
    <2>1. lost' \in 0..MaxLost
      BY <1>a DEF TypeOK
    <2>2. skipped' \subseteq Nat
      BY <1>a, Fields, Zenon DEF TypeOK
    <2> QED BY <1>a, <1>b, <2>1, <2>2, Zenon DEF TypeOK, Publications
  <1>2. Pending(pub, row, seq)' /\ Bounded(buffer, row, seq)'
    <2>1. ASSUME NEW q \in Publishers
          PROVE  /\ pub'[q].at # "idle" => pub'[q].write \in 1..row'
                 /\ pub'[q].at = "incr" /\ pub'[q].late = "no" => pub'[q].write = row'
                 /\ pub'[q].at = "publish" => pub'[q].seq \in 1..seq' /\ pub'[q].num \in Moments
      BY <1>a, <1>b, <1>c, Zenon DEF Pending
    <2>2. \A q, r \in Publishers :
            pub'[q].at = "publish" /\ pub'[r].at = "publish" /\ pub'[q].seq = pub'[r].seq => q = r
      BY <1>b, <1>c, Zenon DEF Pending
    <2> QED BY <1>a, <2>1, <2>2, Zenon DEF Pending
  <1>4. Kept(pub, pub')
    BY <1>b, <1>c, Zenon DEF Kept
  <1>5. /\ InOrder(pub, buffer)' /\ Ahead(pub, buffer, at, lastSeq, seen)'
        /\ Timed(pub, buffer, at, read)' /\ Counted(pub, at, counter, lastSeq, seq)'
        /\ Rising(pub, buffer)' /\ Passing(pub, buffer, at, lastSeq, read)'
    <2>0. Kept(pub, pub')
      BY <1>4, Zenon
    <2>1. \A s, w, l : Numbered(pub', buffer, s, w, l) => Numbered(pub, buffer, s, w, l)
      BY <2>0, KeptFacts, Zenon
    <2>2. InOrder(pub', buffer) /\ Ahead(pub', buffer, at, lastSeq, seen)
      BY <2>1, NothingNew, Zenon
    <2>3. /\ Timed(pub', buffer, at, read) /\ Counted(pub', at, counter, lastSeq, seq)
          /\ Rising(pub', buffer) /\ Passing(pub', buffer, at, lastSeq, read)
      BY <2>0, KeptFacts, Zenon
    <2> QED BY <1>a, <2>2, <2>3, Zenon
  <1>6. Known(pub, buffer, at, overflowed, skipped, lastSeq, seq)'
    <2>1. \A q \in Publishers : pub[q].at = "publish" =>
            pub[q].seq \in skipped' \/ (pub'[q].at = "publish" /\ pub'[q].seq = pub[q].seq)
      BY <1>a, <1>b, Zenon
    <2>2. \A s \in skipped : s \in skipped'
      BY <1>a, Zenon
    <2>3. ASSUME at = "streaming", ~overflowed, NEW s \in 1..seq
          PROVE  \/ s \in skipped' \/ s <= lastSeq
                 \/ \E n \in 1..Len(buffer) : buffer[n].seq = s
                 \/ \E q \in Publishers : pub'[q].at = "publish" /\ pub'[q].seq = s
      BY <2>1, <2>2, <2>3, Zenon DEF Known
    <2> QED BY <1>a, <2>3, Zenon DEF Known
  <1>7. Reached(untold, buffer, overflowed, read)' /\ Filled(buffer, at, skipped, lastSeq)'
    <2>1. \A s \in skipped : s \in skipped'
      BY <1>a, Zenon
    <2>2. Filled(buffer, at, skipped', lastSeq)
      BY <2>1, Zenon DEF Filled
    <2> QED BY <1>a, <2>2, Zenon
  <1> QED BY <1>1, <1>2, <1>5, <1>6, <1>7, Zenon

\* What a publisher publishes is a frame.
LEMMA PublishedFrame ==
    ASSUME TypeOK, Pending(pub, row, seq), NEW p \in Publishers, pub[p].at = "publish"
    PROVE  /\ Frame(p) \in Frames
           /\ Frame(p).seq = pub[p].seq /\ Frame(p).write = pub[p].write /\ Frame(p).num = pub[p].num
           /\ Frame(p).late = pub[p].late /\ Frame(p).over = pub[p].over
  <1>1. pub[p].at # "idle"
    OBVIOUS
  <1>2. pub[p].write \in 1..row /\ pub[p].num \in Moments
    BY <1>1, Zenon DEF Pending
  <1>3. pub[p].write \in 1..MaxWrites
    BY <1>2 DEF TypeOK
  <1>4. pub[p].seq \in Nat /\ pub[p].late \in {"no", "yes"} /\ pub[p].over \in {"no", "yes"}
    BY Fields, Zenon
  <1> QED BY <1>2, <1>3, <1>4, Zenon DEF Frame, Frames

\* What the other publishers hold is not touched by the end of a publish.
LEMMA PendingKept ==
    ASSUME NEW pb, NEW pc, NEW r, NEW sq, NEW p \in Publishers, Pending(pb, r, sq), Kept(pb, pc),
           pc[p].at = "idle",
           \A q \in Publishers : q # p =>
                pc[q].at = pb[q].at /\ pc[q].write = pb[q].write /\ pc[q].late = pb[q].late
    PROVE  Pending(pc, r, sq)
  <1>1. "idle" # "publish" /\ "idle" # "incr"
    OBVIOUS
  <1>2. ASSUME NEW q \in Publishers
        PROVE  /\ pc[q].at # "idle" => pc[q].write \in 1..r
               /\ pc[q].at = "incr" /\ pc[q].late = "no" => pc[q].write = r
               /\ pc[q].at = "publish" => pc[q].seq \in 1..sq /\ pc[q].num \in Moments
    <2>1. pc[q].at = "publish" => pc[q].seq \in 1..sq /\ pc[q].num \in Moments
      BY Zenon DEF Pending, Kept
    <2>2. CASE q = p
      BY <1>1, <2>2, Zenon
    <2>3. CASE q # p
      BY <2>1, <2>3, Zenon DEF Pending
    <2> QED BY <2>2, <2>3, Zenon
  <1>3. ASSUME NEW q \in Publishers, NEW s \in Publishers,
               pc[q].at = "publish", pc[s].at = "publish", pc[q].seq = pc[s].seq
        PROVE  q = s
    <2>1. pb[q].at = "publish" /\ pb[s].at = "publish" /\ pb[q].seq = pc[q].seq /\ pb[s].seq = pc[s].seq
      BY <1>3, Zenon DEF Kept
    <2>2. pb[q].seq = pb[s].seq
      BY <1>3, <2>1, Zenon
    <2> QED BY <2>1, <2>2, Zenon DEF Pending
  <1> QED BY <1>2, <1>3, Zenon DEF Pending

\* What a publication leaves of the publishers: its own rests, the others go on,
\* and those with a lower number were overtaken.
LEMMA Published ==
    ASSUME IInv, NEW p \in Publishers, PublishFrame(p)
    PROVE  /\ UNCHANGED <<row, seq, lost, expiries, at, read, lastSeq, seen, counter>>
           /\ pub[p].at = "publish" /\ Enqueue(Frame(p))
           /\ untold' = (IF at \in {"closed", "ended"} THEN untold ELSE untold \cup {Frame(p)})
           /\ skipped' = skipped \cup {pub[q].seq : q \in Overtaken(p)}
           /\ skipped' \subseteq Nat /\ \A s \in skipped : s \in skipped'
           /\ pub' \in [Publishers -> Publications] /\ pub'[p].at = "idle"
           /\ Kept(pub, pub')
           /\ \A q \in Publishers : q # p =>
                /\ pub'[q].at = pub[q].at /\ pub'[q].write = pub[q].write /\ pub'[q].seq = pub[q].seq
                /\ pub'[q].num = pub[q].num /\ pub'[q].late = pub[q].late
                /\ q \in Overtaken(p) => pub'[q].over = "yes"
                /\ q \notin Overtaken(p) => pub'[q] = pub[q]
  <1> USE DEF IInv
  <1>a. /\ UNCHANGED <<row, seq, lost, expiries, at, read, lastSeq, seen, counter>>
        /\ pub[p].at = "publish" /\ Enqueue(Frame(p))
        /\ untold' = (IF at \in {"closed", "ended"} THEN untold ELSE untold \cup {Frame(p)})
        /\ skipped' = skipped \cup {pub[q].seq : q \in Overtaken(p)}
        /\ pub' = [q \in Publishers |->
                      IF q = p THEN Resting
                      ELSE IF q \in Overtaken(p) THEN [pub[q] EXCEPT !.over = "yes"] ELSE pub[q]]
    BY Zenon DEF PublishFrame
  <1>b. skipped' \subseteq Nat /\ \A s \in skipped : s \in skipped'
    <2>1. \A q \in Overtaken(p) : pub[q].seq \in Nat
      BY Fields, Zenon DEF Overtaken
    <2>2. skipped \subseteq Nat
      BY Zenon DEF TypeOK
    <2> QED BY <1>a, <2>1, <2>2, Zenon
  <1>c. pub'[p] \in Publications /\ pub'[p].at = "idle"
    BY <1>a, AtFirst, Zenon
  <1>d. ASSUME NEW q \in Publishers, q # p
        PROVE  /\ pub'[q] \in Publications
               /\ pub'[q].at = pub[q].at /\ pub'[q].write = pub[q].write /\ pub'[q].seq = pub[q].seq
               /\ pub'[q].num = pub[q].num /\ pub'[q].late = pub[q].late
               /\ q \in Overtaken(p) => pub'[q].over = "yes"
               /\ q \notin Overtaken(p) => pub'[q] = pub[q]
    <2>1. pub[q] \in Publications
      BY Fields, Zenon
    <2>2. CASE q \in Overtaken(p)
      <3> DEFINE x == [pub[q] EXCEPT !.over = "yes"]
      <3>1. pub'[q] = x
        BY <1>a, <1>d, <2>2, Zenon
      <3>2. /\ x \in Publications /\ x.at = pub[q].at /\ x.write = pub[q].write /\ x.seq = pub[q].seq
            /\ x.num = pub[q].num /\ x.late = pub[q].late /\ x.over = "yes"
        BY <2>1, Zenon DEF Publications
      <3> HIDE DEF x
      <3> QED BY <3>1, <3>2, <2>2, Zenon
    <2>3. CASE q \notin Overtaken(p)
      <3>1. pub'[q] = pub[q]
        BY <1>a, <1>d, <2>3, Zenon
      <3> QED BY <3>1, <2>1, <2>3, Zenon
    <2> QED BY <2>2, <2>3, Zenon
  <1>e. pub' \in [Publishers -> Publications]
    BY <1>a, <1>c, <1>d, Zenon
  <1>f. "idle" # "publish"
    OBVIOUS
  <1>g. Kept(pub, pub')
    BY <1>c, <1>d, <1>f, Zenon DEF Kept
  <1> QED BY <1>a, <1>b, <1>c, <1>d, <1>e, <1>g, Zenon

\* A publication that reaches no buffer preserves the invariant: nobody is
\* subscribed, or the client was too slow.
LEMMA PublishedPast ==
    ASSUME IInv, NEW p \in Publishers, PublishFrame(p), UNCHANGED buffer,
           overflowed' \in BOOLEAN, overflowed => overflowed',
           at \in {"closed", "ended"} \/ overflowed'
    PROVE  IInv'
  <1> USE DEF IInv
  <1>a. /\ UNCHANGED <<row, seq, lost, expiries, at, read, lastSeq, seen, counter, buffer>>
        /\ pub' \in [Publishers -> Publications] /\ pub'[p].at = "idle"
        /\ skipped' \subseteq Nat /\ \A s \in skipped : s \in skipped'
        /\ Kept(pub, pub')
    BY Published, Zenon
  <1>b. \A q \in Publishers : q # p =>
                pub'[q].at = pub[q].at /\ pub'[q].write = pub[q].write /\ pub'[q].late = pub[q].late
    BY Published, Zenon
  <1>c. pub[p].at = "publish" /\ "idle" # "publish" /\ "idle" # "incr"
    BY Published
  <1>1. TypeOK'
    <2>1. untold' \subseteq Frames
      <3>1. Frame(p) \in Frames
        BY PublishedFrame, <1>c, Zenon
      <3>2. untold' \subseteq untold \cup {Frame(p)}
        BY Published, Zenon
      <3> QED BY <3>1, <3>2, Zenon DEF TypeOK
    <2> QED BY <1>a, <2>1, Zenon DEF TypeOK, Publications
  <1>2. Pending(pub, row, seq)' /\ Bounded(buffer, row, seq)'
    BY <1>a, <1>b, <1>c, PendingKept, Zenon
  <1>5. /\ InOrder(pub, buffer)' /\ Ahead(pub, buffer, at, lastSeq, seen)'
        /\ Timed(pub, buffer, at, read)' /\ Counted(pub, at, counter, lastSeq, seq)'
        /\ Rising(pub, buffer)' /\ Passing(pub, buffer, at, lastSeq, read)'
    <2>0. Kept(pub, pub')
      BY <1>a, Zenon
    <2>1. \A s, w, l : Numbered(pub', buffer, s, w, l) => Numbered(pub, buffer, s, w, l)
      BY <2>0, KeptFacts, Zenon
    <2>2. InOrder(pub', buffer) /\ Ahead(pub', buffer, at, lastSeq, seen)
      BY <2>1, NothingNew, Zenon
    <2>3. /\ Timed(pub', buffer, at, read) /\ Counted(pub', at, counter, lastSeq, seq)
          /\ Rising(pub', buffer) /\ Passing(pub', buffer, at, lastSeq, read)
      BY <2>0, KeptFacts, Zenon
    <2> QED BY <1>a, <2>2, <2>3, Zenon
  <1>6. Known(pub, buffer, at, overflowed, skipped, lastSeq, seq)'
    <2>1. at' = "streaming" => overflowed'
      BY <1>a
    <2> QED BY <2>1, Zenon DEF Known
  <1>7. Reached(untold, buffer, overflowed, read)'
    <2>1. CASE overflowed'
      BY <2>1, Zenon DEF Reached
    <2>2. CASE ~overflowed' /\ at \in {"closed", "ended"}
      <3>1. untold' = untold /\ ~overflowed
        BY <2>2, Published, Zenon
      <3> QED BY <1>a, <3>1, Zenon DEF Reached
    <2> QED BY <2>1, <2>2, Zenon
  <1>8. Filled(buffer, at, skipped, lastSeq)'
    <2>1. Filled(buffer, at, skipped', lastSeq)
      BY <1>a, Zenon DEF Filled
    <2> QED BY <1>a, <2>1, Zenon
  <1> QED BY <1>1, <1>2, <1>5, <1>6, <1>7, <1>8, Zenon

\* A publication that reaches the buffer preserves the invariant: the frame goes
\* behind the lower numbers it did not wait for (Publish, Subscribe's pump).
LEMMA PublishedInto ==
    ASSUME IInv, NEW p \in Publishers, PublishFrame(p), UNCHANGED overflowed,
           at \notin {"closed", "ended"}, ~overflowed, Len(buffer) < BufferSize, buffer' = Append(buffer, Frame(p))
    PROVE  IInv'
  <1> USE DEF IInv
  <1> DEFINE f == Frame(p)
             N == Len(buffer)
  <1>a. /\ UNCHANGED <<row, seq, lost, expiries, at, read, lastSeq, seen, counter>>
        /\ pub' \in [Publishers -> Publications] /\ pub'[p].at = "idle"
        /\ skipped' \subseteq Nat /\ \A s \in skipped : s \in skipped'
        /\ Kept(pub, pub') /\ pub[p].at = "publish"
    BY Published, Zenon
  <1>b. \A q \in Publishers : q # p =>
                pub'[q].at = pub[q].at /\ pub'[q].write = pub[q].write /\ pub'[q].late = pub[q].late
    BY Published, Zenon
  <1>c. /\ f \in Frames /\ f.seq = pub[p].seq /\ f.write = pub[p].write /\ f.num = pub[p].num
        /\ f.late = pub[p].late /\ f.over = pub[p].over
    BY <1>a, PublishedFrame, Zenon
  <1>d. untold' = untold \cup {f} /\ "idle" # "publish" /\ "no" # "yes"
    BY Published
  <1>e. /\ f.seq \in 1..seq /\ f.seq \in Nat /\ f.write \in Nat /\ f.write <= row
    <2>1. pub[p].seq \in 1..seq /\ pub[p].write \in 1..row /\ row \in Nat /\ seq \in Nat
      BY <1>a DEF Pending, TypeOK
    <2> QED BY <1>c, <2>1
  <1> HIDE DEF f
  <1>f. /\ buffer' \in Seq(Frames) /\ Len(buffer') = N + 1 /\ N \in Nat /\ buffer'[N + 1] = f
        /\ \A n \in 1..N : buffer'[n] = buffer[n]
    <2>1. buffer \in Seq(Frames) /\ buffer' = Append(buffer, f)
      BY Zenon DEF TypeOK, f
    <2>2. f \in Frames
      BY <1>c, Zenon
    <2>3. LET b == Append(buffer, f)
          IN  /\ b \in Seq(Frames) /\ Len(b) = N + 1 /\ N \in Nat /\ b[N + 1] = f
              /\ \A n \in 1..N : b[n] = buffer[n]
      BY <2>1, <2>2, AppendFacts, Zenon
    <2> QED BY <2>1, <2>3, Zenon
  <1> HIDE DEF N
  <1>g. /\ \A n \in 1..Len(buffer') : n \in 1..N \/ n = N + 1
        /\ N + 1 \in 1..Len(buffer') /\ \A n \in 1..N : n \in 1..Len(buffer')
    BY <1>f
  <1>1. TypeOK'
    <2>1. Len(buffer') <= BufferSize
      <3>1. N < BufferSize
        BY DEF N
      <3> QED BY <1>f, <3>1
    <2>2. untold' \subseteq Frames /\ overflowed' \in BOOLEAN
      BY <1>c, <1>d, Zenon DEF TypeOK
    <2>3. buffer' \in Seq(Frames)
      BY <1>f, Zenon
    <2> QED BY <1>a, <2>1, <2>2, <2>3, Zenon DEF TypeOK, Publications
  <1>2. Pending(pub, row, seq)'
    BY <1>a, <1>b, PendingKept, Zenon
  <1>3. Bounded(buffer, row, seq)'
    <2>1. \A n \in 1..N : buffer[n].seq \in 1..seq /\ buffer[n].write <= row
      BY Zenon DEF Bounded, N
    <2> QED BY <1>a, <1>e, <1>f, <1>g, <2>1, Zenon DEF Bounded
  <1>4. \A s, w, l : Numbered(pub', buffer', s, w, l) => Numbered(pub, buffer, s, w, l)
    <2> TAKE s, w, l
    <2>1. ASSUME NEW q \in Publishers, pub'[q].at = "publish", pub'[q].seq = s, pub'[q].write = w, pub'[q].late = l
          PROVE  Numbered(pub, buffer, s, w, l)
      BY <1>a, <2>1, Zenon DEF Numbered, Kept
    <2>2. ASSUME NEW n \in 1..Len(buffer'), buffer'[n].seq = s, buffer'[n].write = w, buffer'[n].late = l
          PROVE  Numbered(pub, buffer, s, w, l)
      <3>1. CASE n = N + 1
        BY <1>a, <1>c, <1>f, <2>2, <3>1, Zenon DEF Numbered
      <3>2. CASE n \in 1..N
        BY <1>f, <2>2, <3>2, Zenon DEF Numbered, N
      <3> QED BY <1>g, <3>1, <3>2, Zenon
    <2> QED BY <2>1, <2>2, Zenon DEF Numbered
  <1>5. InOrder(pub, buffer)' /\ Ahead(pub, buffer, at, lastSeq, seen)'
    <2>1. InOrder(pub', buffer') /\ Ahead(pub', buffer', at, lastSeq, seen)
      BY <1>4, NothingNew, Zenon
    <2> QED BY <1>a, <2>1, Zenon
  <1>6. /\ Timed(pub', buffer, at, read) /\ Counted(pub', at, counter, lastSeq, seq)
        /\ Rising(pub', buffer) /\ Passing(pub', buffer, at, lastSeq, read)
    BY <1>a, KeptFacts, Zenon
  <1>7. Timed(pub, buffer, at, read)'
    <2>1. Placed(f, at, read)
      <3>1. Placed(pub[p], at, read)
        BY <1>a, Zenon DEF Timed
      <3> QED BY <1>c, <3>1, Zenon DEF Placed
    <2>2. \A n \in 1..N : Placed(buffer[n], at, read)
      BY Zenon DEF Timed, N
    <2>3. \A n \in 1..Len(buffer') : Placed(buffer'[n], at, read)
      BY <1>f, <1>g, <2>1, <2>2, Zenon
    <2> QED BY <1>a, <1>6, <2>3, Zenon DEF Timed
  <1>8. Counted(pub, at, counter, lastSeq, seq)'
    BY <1>a, <1>6, Zenon
  <1>9. Rising(pub, buffer)'
    <2>0. /\ \A m, n \in 1..N : m < n => buffer[m].seq < buffer[n].seq \/ buffer[n].over = "yes"
          /\ \A n \in 1..N : buffer[n].seq \in Nat
      BY Fields, Zenon DEF Rising, N
    <2>1. ASSUME NEW i \in 1..Len(buffer'), NEW j \in 1..Len(buffer'), i < j
          PROVE  buffer'[i].seq < buffer'[j].seq \/ buffer'[j].over = "yes"
      <3>1. i \in 1..N
        BY <1>f, <2>1
      <3>2. CASE j \in 1..N
        BY <1>f, <2>0, <2>1, <3>1, <3>2, Zenon
      <3>3. CASE j = N + 1
        <4>1. pub[p].over = "no" => buffer[i].seq < pub[p].seq
          BY <1>a, <3>1, Zenon DEF Rising, N
        <4>2. pub[p].over \in {"no", "yes"}
          BY Fields, Zenon
        <4> QED BY <1>c, <1>f, <3>1, <3>3, <4>1, <4>2, Zenon
      <3> QED BY <1>g, <3>2, <3>3, Zenon
    <2>2. ASSUME NEW q \in Publishers, pub'[q].at = "publish", pub'[q].over = "no", NEW n \in 1..Len(buffer')
          PROVE  buffer'[n].seq < pub'[q].seq
      <3>1. CASE n \in 1..N
        <4>1. buffer[n].seq < pub'[q].seq
          BY <1>6, <2>2, <3>1, Zenon DEF Rising, N
        <4> QED BY <1>f, <3>1, <4>1, Zenon
      <3>2. CASE n = N + 1
        <4>1. q # p /\ q \notin Overtaken(p) /\ pub[q].at = "publish" /\ pub'[q].seq = pub[q].seq
          BY <1>a, <1>d, <2>2, Published, Zenon
        <4>2. ~(pub[q].seq < pub[p].seq)
          BY <4>1, Zenon DEF Overtaken
        <4>3. pub[q].seq # pub[p].seq
          BY <1>a, <4>1, Zenon DEF Pending
        <4>4. pub[q].seq \in Nat /\ pub[p].seq \in Nat
          BY Fields, Zenon
        <4>5. pub[p].seq < pub[q].seq
          BY <4>2, <4>3, <4>4
        <4> QED BY <1>c, <1>f, <3>2, <4>1, <4>5, Zenon
      <3> QED BY <1>g, <3>1, <3>2, Zenon
    <2> QED BY <2>1, <2>2, Zenon DEF Rising
  <1>10. Passing(pub, buffer, at, lastSeq, read)'
    <2>1. at = "streaming" => Passes(f, lastSeq, read)
      <3>1. at = "streaming" => Passes(pub[p], lastSeq, read)
        BY <1>a, Zenon DEF Passing
      <3> QED BY <1>c, <3>1, Zenon DEF Passes, Excused
    <2>2. at = "streaming" => \A n \in 1..N : Passes(buffer[n], lastSeq, read)
      BY Zenon DEF Passing, N
    <2>3. at = "streaming" => \A n \in 1..Len(buffer') : Passes(buffer'[n], lastSeq, read)
      BY <1>f, <1>g, <2>1, <2>2, Zenon
    <2> QED BY <1>a, <1>6, <2>3, Zenon DEF Passing
  <1>11. Reached(untold, buffer, overflowed, read)'
    <2>1. ASSUME ~overflowed, NEW g \in untold'
          PROVE  (\E n \in 1..Len(buffer') : buffer'[n] = g) \/ Excused(g, read)
      <3>1. CASE g = f
        BY <1>f, <1>g, <3>1, Zenon
      <3>2. CASE g \in untold
        <4>1. (\E n \in 1..N : buffer[n] = g) \/ Excused(g, read)
          BY <2>1, <3>2, Zenon DEF Reached, N
        <4> QED BY <1>f, <1>g, <4>1, Zenon
      <3> QED BY <1>d, <3>1, <3>2, Zenon
    <2> QED BY <1>a, <2>1, Zenon DEF Reached
  <1>12. Known(pub, buffer, at, overflowed, skipped, lastSeq, seq)'
    <2>1. ASSUME at = "streaming", ~overflowed, NEW s \in 1..seq
          PROVE  \/ s \in skipped' \/ s <= lastSeq
                 \/ \E n \in 1..Len(buffer') : buffer'[n].seq = s
                 \/ \E q \in Publishers : pub'[q].at = "publish" /\ pub'[q].seq = s
      <3>1. CASE s \in skipped \/ s <= lastSeq
        BY <1>a, <3>1, Zenon
      <3>2. CASE \E n \in 1..N : buffer[n].seq = s
        BY <1>f, <1>g, <3>2, Zenon
      <3>3. ASSUME NEW q \in Publishers, pub[q].at = "publish", pub[q].seq = s
            PROVE  \/ \E n \in 1..Len(buffer') : buffer'[n].seq = s
                   \/ \E r \in Publishers : pub'[r].at = "publish" /\ pub'[r].seq = s
        <4>1. CASE q = p
          BY <1>c, <1>f, <1>g, <3>3, <4>1, Zenon
        <4>2. CASE q # p
          BY <3>3, <4>2, Published, Zenon
        <4> QED BY <4>1, <4>2, Zenon
      <3>4. \/ s \in skipped \/ s <= lastSeq
            \/ \E n \in 1..N : buffer[n].seq = s
            \/ \E q \in Publishers : pub[q].at = "publish" /\ pub[q].seq = s
        BY <2>1, Zenon DEF Known, N
      <3> QED BY <3>1, <3>2, <3>3, <3>4, Zenon
    <2> QED BY <1>a, <2>1, Zenon DEF Known
  <1>13. Filled(buffer, at, skipped, lastSeq)'
    <2>1. ASSUME at = "streaming", ~overflowed, NEW s \in 1..(f.seq - 1), s > lastSeq
          PROVE  s \in skipped' \/ \E j \in 1..N : buffer[j].seq = s
      <3>1. s \in 1..seq /\ ~(s <= lastSeq) /\ s < f.seq
        <4>1. seq \in Nat /\ lastSeq \in Nat
          BY DEF TypeOK
        <4> QED BY <1>e, <2>1, <4>1
      <3>2. ASSUME NEW q \in Publishers, pub[q].at = "publish", pub[q].seq = s
            PROVE  s \in skipped'
        <4>1. q \in Overtaken(p)
          BY <1>c, <3>1, <3>2, Zenon DEF Overtaken
        <4> QED BY <3>2, <4>1, Published, Zenon
      <3>3. \/ s \in skipped \/ s <= lastSeq
            \/ \E n \in 1..N : buffer[n].seq = s
            \/ \E q \in Publishers : pub[q].at = "publish" /\ pub[q].seq = s
        BY <2>1, <3>1, Zenon DEF Known, N
      <3> QED BY <1>a, <3>1, <3>2, <3>3, Zenon
    <2>2. ASSUME at = "streaming", NEW k \in 1..Len(buffer'), NEW s \in 1..(buffer'[k].seq - 1), s > lastSeq
          PROVE  s \in skipped' \/ \E j \in 1..(k - 1) : buffer'[j].seq = s
      <3>1. CASE k \in 1..N
        <4>1. s \in skipped \/ \E j \in 1..(k - 1) : buffer[j].seq = s
          <5>1. s \in 1..(buffer[k].seq - 1)
            BY <1>f, <2>2, <3>1, Zenon
          <5> QED BY <2>2, <3>1, <5>1, Zenon DEF Filled, N
        <4>2. \A j \in 1..(k - 1) : j \in 1..N
          BY <1>f, <3>1
        <4> QED BY <1>a, <1>f, <4>1, <4>2, Zenon
      <3>2. CASE k = N + 1 /\ ~overflowed
        <4>1. s \in skipped' \/ \E j \in 1..N : buffer[j].seq = s
          BY <1>f, <2>1, <2>2, <3>2, Zenon
        <4>2. \A j \in 1..N : j \in 1..(k - 1)
          BY <1>f, <3>2
        <4> QED BY <1>f, <4>1, <4>2, Zenon
      <3> QED BY <1>g, <3>1, <3>2, Zenon
    <2>3. Filled(buffer', at, skipped', lastSeq)
      BY <2>2, Zenon DEF Filled
    <2> QED BY <1>a, <2>3, Zenon
  <1> QED BY <1>1, <1>2, <1>3, <1>5, <1>7, <1>8, <1>9, <1>10, <1>11, <1>12, <1>13, Zenon

\* Publishing a frame preserves the invariant.
LEMMA PublishFrameStep ==
    ASSUME IInv, NEW p \in Publishers, PublishFrame(p)
    PROVE  IInv'
  <1>1. Enqueue(Frame(p)) /\ overflowed \in BOOLEAN
    BY Published, Zenon DEF IInv, TypeOK
  <1>2. CASE (at \in {"closed", "ended"} \/ overflowed) /\ UNCHANGED <<buffer, overflowed>>
    BY <1>1, <1>2, PublishedPast, Zenon
  <1>3. CASE /\ at \notin {"closed", "ended"} /\ ~overflowed /\ Len(buffer) < BufferSize
             /\ buffer' = Append(buffer, Frame(p)) /\ UNCHANGED overflowed
    BY <1>3, PublishedInto, Zenon
  <1>4. CASE overflowed' = TRUE /\ UNCHANGED buffer
    BY <1>4, PublishedPast, Zenon
  <1> QED BY <1>1, <1>2, <1>3, <1>4, Zenon DEF Enqueue

\* Losing the counter preserves the invariant: nothing is under way, and a client
\* that is streaming is not told (seqTTL, Publish).
LEMMA SeqExpiresStep ==
    ASSUME IInv, SeqExpires
    PROVE  IInv'
  <1> USE DEF IInv
  <1>a. /\ UNCHANGED <<row, pub, lost, at, buffer, overflowed, read, lastSeq, seen, untold>>
        /\ seq' = 0 /\ expiries' = expiries + 1 /\ expiries < MaxExpiries
        /\ buffer = <<>> /\ \A p \in Publishers : pub[p].at = "idle"
        /\ counter' = (IF at = "streaming" THEN "restarted" ELSE counter) /\ skipped' = {}
    BY Zenon DEF SeqExpires, wsVars
  <1>b. \A n \in 1..Len(buffer) : FALSE
    BY <1>a
  <1>c. "idle" # "publish" /\ "idle" # "incr" /\ (at = "streaming" => counter' = "restarted" /\ counter' # "kept")
    BY <1>a
  <1>1. TypeOK'
    <2>1. seq' \in Nat /\ expiries' \in 0..MaxExpiries
      BY <1>a DEF TypeOK
    <2>2. counter' \in {"kept", "restarted"} /\ skipped' \subseteq Nat
      BY <1>a, Zenon DEF TypeOK
    <2> QED BY <1>a, <2>1, <2>2, Zenon DEF TypeOK
  <1>2. /\ Pending(pub, row, seq)' /\ Bounded(buffer, row, seq)'
        /\ Timed(pub, buffer, at, read)' /\ Rising(pub, buffer)' /\ Passing(pub, buffer, at, lastSeq, read)'
        /\ Filled(buffer, at, skipped, lastSeq)'
    BY <1>a, <1>b, <1>c, Zenon DEF Pending, Bounded, Timed, Rising, Passing, Filled
  <1>3. InOrder(pub, buffer)' /\ Ahead(pub, buffer, at, lastSeq, seen)'
    BY <1>a, Zenon
  <1>4. Counted(pub, at, counter, lastSeq, seq)'
    <2>1. counter' = "restarted" => at \in {"streaming", "ended"}
      BY <1>a, Zenon DEF Counted
    <2> QED BY <1>a, <1>c, <2>1, Zenon DEF Counted
  <1>5. Reached(untold, buffer, overflowed, read)'
    BY <1>a, Zenon
  <1>6. Known(pub, buffer, at, overflowed, skipped, lastSeq, seq)'
    <2>1. \A s \in 1..seq' : FALSE
      BY <1>a
    <2> QED BY <2>1, Zenon DEF Known
  <1> QED BY <1>1, <1>2, <1>3, <1>4, <1>5, <1>6, Zenon

\* Subscribing, and the end of the connection, preserve the invariant: what is
\* said of a stream is not said of a connection that has none yet, or no more
\* (Subscribe, stream).
LEMMA OutsideStep ==
    ASSUME IInv, Subscribe \/ CloseSlow
    PROVE  IInv'
  <1> USE DEF IInv
  <1>a. /\ UNCHANGED <<row, seq, pub, lost, expiries, buffer, overflowed, read, lastSeq, seen, counter, untold, skipped>>
        /\ \/ at = "closed" /\ at' = "subscribed"
           \/ at = "streaming" /\ at' = "ended"
    BY Zenon DEF Subscribe, CloseSlow, pubVars, hist
  <1>b. at' # "streaming" /\ at' \in {"closed", "subscribed", "row", "streaming", "ended"}
    BY <1>a
  <1>1. TypeOK'
    BY <1>a, <1>b, Zenon DEF TypeOK
  <1>2. /\ Pending(pub, row, seq)' /\ Bounded(buffer, row, seq)' /\ InOrder(pub, buffer)'
        /\ Rising(pub, buffer)' /\ Reached(untold, buffer, overflowed, read)'
    BY <1>a, Zenon
  <1>3. /\ Ahead(pub, buffer, at, lastSeq, seen)' /\ Passing(pub, buffer, at, lastSeq, read)'
        /\ Known(pub, buffer, at, overflowed, skipped, lastSeq, seq)' /\ Filled(buffer, at, skipped, lastSeq)'
    BY <1>b, Zenon DEF Ahead, Passing, Known, Filled
  <1>4. Timed(pub, buffer, at, read)'
    <2>1. ASSUME NEW g, Placed(g, at, read)
          PROVE  Placed(g, at', read)
      BY <1>a, <2>1 DEF Placed
    <2> QED BY <1>a, <2>1, Zenon DEF Timed
  <1>5. Counted(pub, at, counter, lastSeq, seq)'
    BY <1>a, <1>b DEF Counted
  <1> QED BY <1>1, <1>2, <1>3, <1>4, <1>5, Zenon

\* Reading the row preserves the invariant: it has every write numbered so far
\* (Snapshot).
LEMMA SnapshotRowStep ==
    ASSUME IInv, SnapshotRow
    PROVE  IInv'
  <1> USE DEF IInv
  <1>a. /\ UNCHANGED <<row, seq, pub, lost, expiries, buffer, overflowed, lastSeq, seen, counter, untold, skipped>>
        /\ at = "subscribed" /\ at' = "row" /\ read' = row
    BY Zenon DEF SnapshotRow, pubVars, hist
  <1>b. at' # "streaming" /\ at' \in {"closed", "subscribed", "row", "streaming", "ended"}
    BY <1>a
  <1>1. TypeOK'
    <2>1. {read, seen}' \subseteq 0..row'
      BY <1>a DEF TypeOK
    <2> QED BY <1>a, <1>b, <2>1, Zenon DEF TypeOK
  <1>2. /\ Pending(pub, row, seq)' /\ Bounded(buffer, row, seq)' /\ InOrder(pub, buffer)'
        /\ Rising(pub, buffer)'
    BY <1>a, Zenon
  <1>3. /\ Ahead(pub, buffer, at, lastSeq, seen)' /\ Passing(pub, buffer, at, lastSeq, read)'
        /\ Known(pub, buffer, at, overflowed, skipped, lastSeq, seq)' /\ Filled(buffer, at, skipped, lastSeq)'
    BY <1>b, Zenon DEF Ahead, Passing, Known, Filled
  <1>4. Timed(pub, buffer, at, read)'
    <2>1. ASSUME NEW g, Placed(g, at, read), g.write <= row
          PROVE  Placed(g, at', read')
      BY <1>a, <2>1 DEF Placed
    <2>2. ASSUME NEW q \in Publishers, pub[q].at = "publish"
          PROVE  pub[q].write <= row
      BY <2>2 DEF Pending, TypeOK
    <2>3. \A n \in 1..Len(buffer) : buffer[n].write <= row
      BY Zenon DEF Bounded
    <2> QED BY <1>a, <2>1, <2>2, <2>3, Zenon DEF Timed
  <1>5. Counted(pub, at, counter, lastSeq, seq)'
    BY <1>a, <1>b DEF Counted
  <1>6. Reached(untold, buffer, overflowed, read)'
    <2>1. ASSUME NEW g \in untold, Excused(g, read)
          PROVE  Excused(g, row)
      <3>1. g.write \in Nat
        <4>1. g \in Frames
          BY Zenon DEF TypeOK
        <4>2. g.write \in 1..MaxWrites
          BY <4>1, Zenon DEF Frames
        <4> QED BY <4>2
      <3>2. g.write <= read => g.write <= row
        BY <3>1 DEF TypeOK
      <3> QED BY <2>1, <3>2, Zenon DEF Excused
    <2>2. Reached(untold, buffer, overflowed, row)
      BY <2>1, Zenon DEF Reached
    <2> QED BY <1>a, <2>2, Zenon
  <1> QED BY <1>1, <1>2, <1>3, <1>4, <1>5, <1>6, Zenon

\* Reading the number preserves the invariant: whatever is under way has a lower
\* one, and is in the snapshot or was numbered after the row was read (Snapshot,
\* CurrentSeq).
LEMMA SnapshotSeqStep ==
    ASSUME IInv, SnapshotSeq
    PROVE  IInv'
  <1> USE DEF IInv
  <1>a. /\ UNCHANGED <<row, seq, pub, lost, expiries, buffer, overflowed, read, counter, untold, skipped>>
        /\ at = "row" /\ at' = "streaming" /\ lastSeq' = seq /\ seen' = read
    BY Zenon DEF SnapshotSeq, pubVars, hist
  <1>b. seq \in Nat /\ \A s \in 1..seq : s \in Nat /\ s <= seq /\ ~(s > seq)
    <2>1. seq \in Nat
      BY DEF TypeOK
    <2> QED BY <2>1
  <1>1. TypeOK'
    <2>1. {read, seen}' \subseteq 0..row'
      BY <1>a DEF TypeOK
    <2> QED BY <1>a, <1>b, <2>1, Zenon DEF TypeOK
  <1>2. /\ Pending(pub, row, seq)' /\ Bounded(buffer, row, seq)' /\ InOrder(pub, buffer)'
        /\ Rising(pub, buffer)' /\ Reached(untold, buffer, overflowed, read)'
    BY <1>a, Zenon
  <1>3. Ahead(pub, buffer, at, lastSeq, seen)'
    BY <1>a, <1>b, NumberedBounds, Zenon DEF Ahead
  <1>4. Timed(pub, buffer, at, read)'
    <2>1. ASSUME NEW g, Placed(g, at, read)
          PROVE  Placed(g, at', read)
      BY <1>a, <2>1 DEF Placed
    <2> QED BY <1>a, <2>1, Zenon DEF Timed
  <1>5. Counted(pub, at, counter, lastSeq, seq)'
    BY <1>a, <1>b DEF Counted
  <1>6. Passing(pub, buffer, at, lastSeq, read)'
    <2>1. ASSUME NEW g, g.num \in Moments, Placed(g, at, read)
          PROVE  Excused(g, read)
      BY <1>a, <2>1 DEF Placed, Moments, Excused
    <2>2. \A q \in Publishers : pub[q].at = "publish" => Passes(pub[q], seq, read)
      BY <2>1, Zenon DEF Pending, Timed, Passes
    <2>3. \A n \in 1..Len(buffer) : Passes(buffer[n], seq, read)
      BY <2>1, Fields, Zenon DEF Timed, Passes
    <2> QED BY <1>a, <2>2, <2>3, Zenon DEF Passing
  <1>7. Known(pub, buffer, at, overflowed, skipped, lastSeq, seq)'
    <2>1. \A s \in 1..seq' : s <= lastSeq'
      BY <1>a, <1>b, Zenon
    <2> QED BY <2>1, Zenon DEF Known
  <1>8. Filled(buffer, at, skipped, lastSeq)'
    <2>1. ASSUME NEW k \in 1..Len(buffer), NEW s \in 1..(buffer[k].seq - 1)
          PROVE  ~(s > seq)
      <3>1. buffer[k].seq \in 1..seq
        BY Zenon DEF Bounded
      <3> QED BY <1>b, <3>1
    <2> QED BY <1>a, <2>1, Zenon DEF Filled
  <1> QED BY <1>1, <1>2, <1>3, <1>4, <1>5, <1>6, <1>7, <1>8, Zenon

\* What one turn of the streaming loop does to the buffer and to the client.
LEMMA Forwarded ==
    ASSUME IInv, Forward
    PROVE  /\ UNCHANGED <<row, seq, pub, lost, expiries, at, overflowed, read, counter, skipped>>
           /\ at = "streaming" /\ Head(buffer) = buffer[1] /\ 1 \in 1..Len(buffer)
           /\ buffer' \in Seq(Frames) /\ Len(buffer') = Len(buffer) - 1 /\ Len(buffer) \in Nat \ {0}
           /\ \A n \in 1..Len(buffer') : buffer'[n] = buffer[n + 1] /\ n + 1 \in 1..Len(buffer)
           /\ \A n \in 1..Len(buffer) : n = 1 \/ (n - 1 \in 1..Len(buffer') /\ buffer'[n - 1] = buffer[n])
           /\ \/ /\ buffer[1].seq <= lastSeq /\ UNCHANGED <<lastSeq, seen, untold>>
              \/ /\ buffer[1].seq > lastSeq
                 /\ lastSeq' = buffer[1].seq /\ seen' = buffer[1].write /\ untold' = untold \ {buffer[1]}
  <1>1. buffer \in Seq(Frames) /\ buffer # <<>> /\ buffer' = Tail(buffer) /\ at = "streaming"
    BY Zenon DEF IInv, TypeOK, Forward
  <1>2. UNCHANGED <<row, seq, pub, lost, expiries, at, overflowed, read, counter, skipped>>
    BY Zenon DEF Forward, pubVars
  <1>3. /\ buffer' \in Seq(Frames) /\ Len(buffer') = Len(buffer) - 1 /\ Len(buffer) \in Nat \ {0}
        /\ Head(buffer) = buffer[1]
        /\ \A n \in 1..Len(buffer') : buffer'[n] = buffer[n + 1] /\ n + 1 \in 1..Len(buffer)
    <2>1. LET b == Tail(buffer)
          IN  /\ b \in Seq(Frames) /\ Len(b) = Len(buffer) - 1 /\ Len(buffer) \in Nat \ {0}
              /\ Head(buffer) = buffer[1]
              /\ \A n \in 1..Len(b) : b[n] = buffer[n + 1] /\ n + 1 \in 1..Len(buffer)
      BY <1>1, TailFacts, Zenon
    <2> QED BY <1>1, <2>1, Zenon
  <1>4. ASSUME NEW n \in 1..Len(buffer), n # 1
        PROVE  n - 1 \in 1..Len(buffer') /\ buffer'[n - 1] = buffer[n]
    <2>1. n - 1 \in 1..Len(buffer') /\ (n - 1) + 1 = n
      BY <1>3, <1>4
    <2> QED BY <1>3, <2>1, Zenon
  <1>5. 1 \in 1..Len(buffer)
    BY <1>3
  <1>6. \/ /\ buffer[1].seq <= lastSeq /\ UNCHANGED <<lastSeq, seen, untold>>
        \/ /\ buffer[1].seq > lastSeq
           /\ lastSeq' = buffer[1].seq /\ seen' = buffer[1].write /\ untold' = untold \ {buffer[1]}
    BY <1>3, Zenon DEF Forward
  <1> QED BY <1>1, <1>2, <1>3, <1>4, <1>5, <1>6, Zenon

\* One turn of the streaming loop preserves the invariant: a frame it does not
\* forward is one of those that may be missed, and whatever is behind the one it
\* forwards has a higher number, or was overtaken (stream).
LEMMA ForwardStep ==
    ASSUME IInv, Forward
    PROVE  IInv'
  <1> USE DEF IInv
  <1> DEFINE h == buffer[1]
             N == Len(buffer)
             M == Len(buffer')
  <1>a. /\ UNCHANGED <<row, seq, pub, lost, expiries, at, overflowed, read, counter, skipped>>
        /\ at = "streaming" /\ 1 \in 1..N
        /\ buffer' \in Seq(Frames) /\ M = N - 1 /\ N \in Nat \ {0}
        /\ \A n \in 1..M : buffer'[n] = buffer[n + 1] /\ n + 1 \in 1..N
        /\ \A n \in 1..N : n = 1 \/ (n - 1 \in 1..M /\ buffer'[n - 1] = buffer[n])
    BY Forwarded, Zenon
  <1>b. \/ h.seq <= lastSeq /\ UNCHANGED <<lastSeq, seen, untold>>
        \/ h.seq > lastSeq /\ lastSeq' = h.seq /\ seen' = h.write /\ untold' = untold \ {h}
    BY Forwarded, Zenon
  <1>c. /\ h.seq \in 1..seq /\ h.seq \in Nat /\ h.write \in Nat /\ h.write <= row
        /\ seq \in Nat /\ row \in Nat /\ lastSeq \in Nat
    <2>1. 1 \in 1..Len(buffer)
      BY <1>a, Zenon
    <2>2. h.seq \in 1..seq /\ h.write <= row
      BY <2>1, Zenon DEF Bounded
    <2>3. h.seq \in Nat /\ h.write \in Nat
      BY <2>1, Fields, Zenon
    <2>4. seq \in Nat /\ row \in Nat /\ lastSeq \in Nat
      BY DEF TypeOK
    <2> QED BY <2>2, <2>3, <2>4, Zenon
  <1>d. Numbered(pub, buffer, h.seq, h.write, h.late) /\ Passes(h, lastSeq, read)
    BY <1>a, Zenon DEF Numbered, Passing
  <1>e. lastSeq' \in Nat /\ lastSeq <= lastSeq' /\ h.seq <= lastSeq'
    BY <1>b, <1>c
  <1>1. TypeOK'
    <2>1. {read, seen}' \subseteq 0..row' /\ Len(buffer') <= BufferSize
      BY <1>a, <1>b, <1>c DEF TypeOK
    <2>2. untold' \subseteq Frames
      BY <1>b, Zenon DEF TypeOK
    <2>3. buffer' \in Seq(Frames)
      BY <1>a, Zenon
    <2> QED BY <1>a, <1>e, <2>1, <2>2, <2>3, Zenon DEF TypeOK
  <1> HIDE DEF h, N, M
  <1>2. Pending(pub, row, seq)'
    BY <1>a, Zenon
  <1>3. Bounded(buffer, row, seq)'
    <2>1. \A n \in 1..N : buffer[n].seq \in 1..seq /\ buffer[n].write <= row
      BY Zenon DEF Bounded, N
    <2>2. \A n \in 1..M : buffer'[n].seq \in 1..seq /\ buffer'[n].write <= row
      BY <1>a, <2>1, Zenon
    <2> QED BY <1>a, <2>2, Zenon DEF Bounded, M
  <1>4. \A s, w, l : Numbered(pub, buffer', s, w, l) => Numbered(pub, buffer, s, w, l)
    <2>1. \A n \in 1..Len(buffer') : buffer'[n] = buffer[n + 1] /\ n + 1 \in 1..Len(buffer)
      BY <1>a, Zenon DEF N, M
    <2> TAKE s, w, l
    <2>2. ASSUME NEW n \in 1..Len(buffer'), buffer'[n].seq = s, buffer'[n].write = w, buffer'[n].late = l
          PROVE  Numbered(pub, buffer, s, w, l)
      BY <2>1, <2>2, Zenon DEF Numbered
    <2>3. ASSUME NEW q \in Publishers, pub[q].at = "publish", pub[q].seq = s, pub[q].write = w, pub[q].late = l
          PROVE  Numbered(pub, buffer, s, w, l)
      BY <2>3, Zenon DEF Numbered
    <2> QED BY <2>2, <2>3, Zenon DEF Numbered
  <1>5. InOrder(pub, buffer') /\ Ahead(pub, buffer', at, lastSeq, seen)
    BY <1>4, NothingNew, Zenon
  <1>6. Ahead(pub, buffer, at, lastSeq, seen)'
    <2>1. CASE UNCHANGED <<lastSeq, seen>>
      BY <1>a, <1>5, <2>1, Zenon
    <2>2. CASE lastSeq' = h.seq /\ seen' = h.write
      <3>1. ASSUME NEW s, NEW w, Numbered(pub, buffer', s, w, "no"), s > h.seq
            PROVE  h.write <= w
        <4>1. Numbered(pub, buffer, s, w, "no")
          BY <1>4, <3>1, Zenon
        <4>2. s \in 1..seq
          BY <4>1, NumberedBounds, Zenon
        <4>3. h.seq < s
          BY <1>c, <3>1, <4>2
        <4> QED BY <1>d, <4>1, <4>3, Zenon DEF InOrder
      <3>2. Ahead(pub, buffer', at, h.seq, h.write)
        BY <3>1, Zenon DEF Ahead
      <3> QED BY <1>a, <2>2, <3>2, Zenon
    <2> QED BY <1>b, <2>1, <2>2, Zenon
  <1>7. Timed(pub, buffer, at, read)'
    <2>1. \A n \in 1..M : Placed(buffer'[n], at, read)
      BY <1>a, Zenon DEF Timed, N
    <2>2. Timed(pub, buffer', at, read)
      BY <2>1, Zenon DEF Timed, M
    <2> QED BY <1>a, <2>2, Zenon
  <1>8. Counted(pub, at, counter, lastSeq, seq)'
    <2>1. counter = "kept" => lastSeq' <= seq
      BY <1>a, <1>b, <1>c DEF Counted
    <2>2. Counted(pub, at, counter, lastSeq', seq)
      BY <2>1, Zenon DEF Counted
    <2> QED BY <1>a, <2>2, Zenon
  <1>9. Rising(pub, buffer)'
    <2>1. ASSUME NEW i \in 1..M, NEW j \in 1..M, i < j
          PROVE  buffer'[i].seq < buffer'[j].seq \/ buffer'[j].over = "yes"
      <3>1. i + 1 < j + 1
        BY <2>1
      <3>2. \A m, n \in 1..N : m < n => buffer[m].seq < buffer[n].seq \/ buffer[n].over = "yes"
        BY Zenon DEF Rising, N
      <3>3. i + 1 \in 1..N /\ j + 1 \in 1..N /\ buffer'[i] = buffer[i + 1] /\ buffer'[j] = buffer[j + 1]
        BY <1>a, Zenon
      <3> QED BY <3>1, <3>2, <3>3, Zenon
    <2>2. \A q \in Publishers : pub[q].at = "publish" /\ pub[q].over = "no" =>
            \A n \in 1..M : buffer'[n].seq < pub[q].seq
      BY <1>a, Zenon DEF Rising, N
    <2>3. Rising(pub, buffer')
      BY <2>1, <2>2, Zenon DEF Rising, M
    <2> QED BY <1>a, <2>3, Zenon
  <1>10. Passing(pub, buffer, at, lastSeq, read)'
    <2>1. CASE UNCHANGED lastSeq
      <3>1. \A n \in 1..M : Passes(buffer'[n], lastSeq, read)
        BY <1>a, Zenon DEF Passing, N
      <3>2. Passing(pub, buffer', at, lastSeq, read)
        BY <3>1, Zenon DEF Passing, M
      <3> QED BY <1>a, <2>1, <3>2, Zenon
    <2>2. CASE lastSeq' = h.seq
      <3>1. ASSUME NEW n \in 1..M
            PROVE  Passes(buffer'[n], h.seq, read)
        <4>1. n + 1 \in 1..N /\ 1 < n + 1 /\ buffer'[n] = buffer[n + 1]
          BY <1>a
        <4>2. h.seq < buffer[n + 1].seq \/ buffer[n + 1].over = "yes"
          BY <1>a, <4>1, Zenon DEF Rising, N, h
        <4>3. buffer[n + 1].seq \in Nat
          BY <4>1, Fields, Zenon DEF N
        <4>4. h.seq < buffer[n + 1].seq => buffer[n + 1].seq > h.seq
          <5>1. \A a, b \in Nat : a < b => b > a
            OBVIOUS
          <5> QED BY <1>c, <4>3, <5>1, Zenon
        <4> QED BY <4>1, <4>2, <4>4, Zenon DEF Passes, Excused
      <3>2. ASSUME NEW q \in Publishers, pub[q].at = "publish"
            PROVE  Passes(pub[q], h.seq, read)
        <4>1. pub[q].over = "no" => h.seq < pub[q].seq
          BY <1>a, <3>2, Zenon DEF Rising, N, h
        <4>2. pub[q].over \in {"no", "yes"} /\ pub[q].seq \in Nat
          BY Fields, Zenon
        <4>3. h.seq < pub[q].seq => pub[q].seq > h.seq
          <5>1. \A a, b \in Nat : a < b => b > a
            OBVIOUS
          <5> QED BY <1>c, <4>2, <5>1, Zenon
        <4> QED BY <4>1, <4>2, <4>3, Zenon DEF Passes, Excused
      <3>3. Passing(pub, buffer', at, h.seq, read)
        BY <3>1, <3>2, Zenon DEF Passing, M
      <3> QED BY <1>a, <2>2, <3>3, Zenon
    <2> QED BY <1>b, <2>1, <2>2, Zenon
  <1>11. Reached(untold, buffer, overflowed, read)'
    <2>1. ASSUME ~overflowed, NEW g \in untold'
          PROVE  (\E n \in 1..M : buffer'[n] = g) \/ Excused(g, read)
      <3>1. g \in untold
        BY <1>b, Zenon
      <3>2. (\E n \in 1..N : buffer[n] = g) \/ Excused(g, read)
        BY <2>1, <3>1, Zenon DEF Reached, N
      <3>3. ASSUME g = h
            PROVE  Excused(g, read)
        <4>1. h.seq <= lastSeq
          BY <1>b, <3>3, Zenon
        <4>2. ~(h.seq > lastSeq)
          BY <1>c, <4>1
        <4> QED BY <1>d, <3>3, <4>2, Zenon DEF Passes
      <3>4. ASSUME NEW n \in 1..N, buffer[n] = g, n # 1
            PROVE  \E k \in 1..M : buffer'[k] = g
        BY <1>a, <3>4, Zenon
      <3> QED BY <3>2, <3>3, <3>4, Zenon DEF h
    <2>2. Reached(untold', buffer', overflowed, read)
      BY <2>1, Zenon DEF Reached, M
    <2> QED BY <1>a, <2>2, Zenon
  <1>12. Known(pub, buffer, at, overflowed, skipped, lastSeq, seq)'
    <2>1. ASSUME ~overflowed, NEW s \in 1..seq
          PROVE  \/ s \in skipped \/ s <= lastSeq'
                 \/ \E n \in 1..M : buffer'[n].seq = s
                 \/ \E q \in Publishers : pub[q].at = "publish" /\ pub[q].seq = s
      <3>1. s <= lastSeq => s <= lastSeq'
        BY <1>c, <1>e
      <3>2. ASSUME NEW n \in 1..N, buffer[n].seq = s
            PROVE  s <= lastSeq' \/ \E k \in 1..M : buffer'[k].seq = s
        <4>1. CASE n = 1
          BY <1>e, <3>2, <4>1, Zenon DEF h
        <4>2. CASE n # 1
          BY <1>a, <3>2, <4>2, Zenon
        <4> QED BY <4>1, <4>2, Zenon
      <3>3. \/ s \in skipped \/ s <= lastSeq
            \/ \E n \in 1..N : buffer[n].seq = s
            \/ \E q \in Publishers : pub[q].at = "publish" /\ pub[q].seq = s
        BY <1>a, <2>1, Zenon DEF Known, N
      <3> QED BY <3>1, <3>2, <3>3, Zenon
    <2>2. Known(pub, buffer', at, overflowed, skipped, lastSeq', seq)
      BY <2>1, Zenon DEF Known, M
    <2> QED BY <1>a, <2>2, Zenon
  <1>13. Filled(buffer, at, skipped, lastSeq)'
    <2>1. ASSUME NEW k \in 1..M, NEW s \in 1..(buffer'[k].seq - 1), s > lastSeq'
          PROVE  s \in skipped \/ \E j \in 1..(k - 1) : buffer'[j].seq = s
      <3>1. k + 1 \in 1..N /\ buffer'[k] = buffer[k + 1]
        BY <1>a, Zenon
      <3>2. s > lastSeq /\ s # h.seq
        <4>1. s \in Nat
          OBVIOUS
        <4> QED BY <1>c, <1>e, <2>1, <4>1
      <3>3. s \in skipped \/ \E j \in 1..((k + 1) - 1) : buffer[j].seq = s
        <4>1. s \in 1..(buffer[k + 1].seq - 1)
          BY <3>1, Zenon
        <4> QED BY <1>a, <3>1, <3>2, <4>1, Zenon DEF Filled, N
      <3>4. ASSUME NEW j \in 1..((k + 1) - 1), buffer[j].seq = s
            PROVE  \E i \in 1..(k - 1) : buffer'[i].seq = s
        <4>1. j # 1
          BY <3>2, <3>4, Zenon DEF h
        <4>2. j \in 1..N /\ j - 1 \in 1..(k - 1)
          BY <1>a, <4>1
        <4> QED BY <1>a, <3>4, <4>1, <4>2, Zenon
      <3> QED BY <3>3, <3>4, Zenon
    <2>2. Filled(buffer', at, skipped, lastSeq')
      BY <2>1, Zenon DEF Filled, M
    <2> QED BY <1>a, <2>2, Zenon
  <1>14. InOrder(pub, buffer)'
    BY <1>a, <1>5, Zenon
  <1> QED BY <1>1, <1>2, <1>3, <1>6, <1>7, <1>8, <1>9, <1>10, <1>11, <1>12, <1>13, <1>14, Zenon

-----------------------------------------------------------------------------
(* Theorems.                                                               *)

\* Every step preserves the invariant.
LEMMA InvariantNext == IInv /\ [Next]_vars => IInv'
  <1> SUFFICES ASSUME IInv, [Next]_vars PROVE IInv'
    OBVIOUS
  <1>1. CASE Next
    <2>1. ASSUME NEW p \in Publishers, WriteRow(p) \/ Incr(p) \/ PublishFrame(p) \/ PublishLost(p)
          PROVE  IInv'
      BY <2>1, WriteRowStep, IncrStep, PublishFrameStep, PublishLostStep, Zenon
    <2> QED BY <1>1, <2>1, SeqExpiresStep, OutsideStep, SnapshotRowStep, SnapshotSeqStep, ForwardStep, Zenon
            DEF Next
  <1>2. CASE UNCHANGED vars
    <2>1. UNCHANGED <<row, seq, pub, lost, expiries, at, buffer, overflowed, read, lastSeq, seen, counter, untold, skipped>>
      BY <1>2, Zenon DEF vars, pubVars, wsVars, hist
    <2> QED BY <2>1, Zenon DEF IInv, TypeOK
  <1> QED BY <1>1, <1>2, Zenon

\* The invariant holds in every reachable state.
LEMMA Invariant == Spec => []IInv
  BY InvariantInit, InvariantNext, PTL DEF Spec

\* Every variable keeps its type: in particular the buffer its limit, and neither
\* the snapshot nor the client is ahead of the row (Subscribe, Snapshot, stream).
THEOREM TypeCorrect == Spec => []TypeOK
  <1>1. IInv => TypeOK
    BY Zenon DEF IInv
  <1> QED BY Invariant, <1>1, PTL

\* While the client keeps up, it is told of every frame published since it
\* subscribed whose write is not in its snapshot, unless that frame was numbered
\* between the two reads of the snapshot, was overtaken, or the counter had been
\* restarted (stream, Snapshot, Publish).
THEOREM ToldEverything == Spec => []NothingMissed
  <1>1. IInv => NothingMissed
    BY Zenon DEF IInv, Reached, Excused, NothingMissed
  <1> QED BY Invariant, <1>1, PTL

\* What changes the client's number, while it streams, is one turn of the loop.
LEMMA OnlyForward ==
    ASSUME IInv, [Next]_vars, at = "streaming", lastSeq' # lastSeq \/ seen' # seen
    PROVE  Forward
  <1>1. "closed" # "streaming" /\ "subscribed" # "streaming" /\ "row" # "streaming"
    OBVIOUS
  <1>2. CASE UNCHANGED vars
    BY <1>2, Zenon DEF vars, wsVars
  <1>3. ASSUME NEW p \in Publishers, WriteRow(p) \/ Incr(p) \/ PublishFrame(p) \/ PublishLost(p)
        PROVE  FALSE
    BY <1>3, Zenon DEF WriteRow, Incr, PublishFrame, PublishLost, wsVars
  <1>4. ASSUME SeqExpires \/ Subscribe \/ SnapshotRow \/ SnapshotSeq \/ CloseSlow
        PROVE  FALSE
    BY <1>1, <1>4, Zenon DEF SeqExpires, Subscribe, SnapshotRow, SnapshotSeq, CloseSlow, wsVars
  <1> QED BY <1>2, <1>3, <1>4, Zenon DEF Next

\* Frames reach the client in the order of their numbers, and a number it does not
\* see was lost by Redis or overtaken by a higher one (stream, Subscribe, Publish).
THEOREM InOrderWithoutHoles == Spec => NoHoles
  <1> DEFINE A == at = "streaming" /\ lastSeq' # lastSeq =>
                    lastSeq' > lastSeq /\ (lastSeq + 1)..(lastSeq' - 1) \subseteq skipped
  <1>1. ASSUME IInv, [Next]_vars PROVE A
    <2> SUFFICES ASSUME at = "streaming", lastSeq' # lastSeq
                 PROVE  lastSeq' > lastSeq /\ (lastSeq + 1)..(lastSeq' - 1) \subseteq skipped
      OBVIOUS
    <2>1. IInv /\ Forward
      BY <1>1, OnlyForward, Zenon
    <2>2. 1 \in 1..Len(buffer) /\ buffer[1].seq > lastSeq /\ lastSeq' = buffer[1].seq
      BY <2>1, Forwarded, Zenon
    <2>3. buffer[1].seq \in Nat /\ lastSeq \in Nat
      <3>1. TypeOK
        BY <2>1, Zenon DEF IInv
      <3>2. buffer[1].seq \in Nat
        BY <2>2, <3>1, Fields, Zenon
      <3>3. lastSeq \in Nat
        BY <3>1, Zenon DEF TypeOK
      <3> QED BY <3>2, <3>3
    <2>4. ASSUME NEW s \in (lastSeq + 1)..(lastSeq' - 1)
          PROVE  s \in skipped
      <3>1. s \in 1..(buffer[1].seq - 1) /\ s > lastSeq
        BY <2>2, <2>3
      <3>2. s \in skipped \/ \E j \in 1..(1 - 1) : buffer[j].seq = s
        BY <2>1, <2>2, <3>1, Zenon DEF IInv, Filled
      <3>3. \A j \in 1..(1 - 1) : FALSE
        OBVIOUS
      <3> QED BY <3>2, <3>3, Zenon
    <2> QED BY <2>2, <2>4, Zenon
  <1>2. IInv /\ [Next]_vars => [A]_vars
    BY <1>1, Zenon
  <1> HIDE DEF A
  <1>3. Spec => [][A]_vars
    BY Invariant, <1>2, PTL DEF Spec
  <1> QED BY <1>3, PTL DEF NoHoles, A

\* The client is told of an older write than before only by a late frame: one
\* whose publisher was held up between its write of the row and its number while
\* another wrote the row (stream, Publish).
THEOREM ToldInOrder == Spec => NeverOlder
  <1> DEFINE A == at = "streaming" /\ seen' < seen => Head(buffer).late = "yes"
  <1>1. ASSUME IInv, [Next]_vars PROVE A
    <2> SUFFICES ASSUME at = "streaming", seen' < seen
                 PROVE  Head(buffer).late = "yes"
      OBVIOUS
    <2>0. TypeOK /\ seen \in Nat
      BY <1>1 DEF IInv, TypeOK
    <2>1. IInv /\ Forward
      <3>1. seen' # seen
        BY <2>0
      <3> QED BY <1>1, <3>1, OnlyForward, Zenon
    <2>2. /\ 1 \in 1..Len(buffer) /\ Head(buffer) = buffer[1]
          /\ \/ seen' = seen
             \/ buffer[1].seq > lastSeq /\ seen' = buffer[1].write
      BY <2>1, Forwarded, Zenon
    <2>3. buffer[1].seq > lastSeq /\ seen' = buffer[1].write
      BY <2>0, <2>2
    <2>4. buffer[1].late \in {"no", "yes"} /\ buffer[1].write \in Nat
      BY <2>0, <2>2, Fields, Zenon
    <2>5. ASSUME buffer[1].late = "no"
          PROVE  seen <= buffer[1].write
      <3>1. Numbered(pub, buffer, buffer[1].seq, buffer[1].write, "no")
        BY <2>2, <2>5, Zenon DEF Numbered
      <3> QED BY <2>1, <2>3, <3>1, Zenon DEF IInv, Ahead
    <2>6. buffer[1].late # "no"
      BY <2>0, <2>3, <2>4, <2>5
    <2> QED BY <2>2, <2>4, <2>6, Zenon
  <1>2. IInv /\ [Next]_vars => [A]_vars
    BY <1>1, Zenon
  <1> HIDE DEF A
  <1>3. Spec => [][A]_vars
    BY Invariant, <1>2, PTL DEF Spec
  <1> QED BY <1>3, PTL DEF NeverOlder, A
=============================================================================

-------------------------- MODULE AudioTrackProofs --------------------------
(***************************************************************************)
(* What a seek leaves in the buffer of an audio track, for any file, any   *)
(* sizes of queue and buffer and any number of seeks, pauses and resumes.  *)
(***************************************************************************)
EXTENDS AudioTrack, SequenceTheorems, FiniteSetTheorems, WellFoundedInduction, TLAPS

(* The operators on the queue value, as in PlaybackProofs: what each       *)
(* returns is a queue, and how it changes the number of packets.           *)
LEMMA EnqueueType ==
  ASSUME NEW Pkts, NEW r \in QueueType(Pkts), NEW p \in Pkts
  PROVE  /\ Enqueue(r, p) \in QueueType(Pkts)
         /\ Enqueue(r, p).aborted = r.aborted
         /\ ~Enqueue(r, p).flushed
         /\ Enqueue(r, p).items = Append(r.items, p)
         /\ Len(Enqueue(r, p).items) = Len(r.items) + 1
<1>1. /\ Append(r.items, p) \in Seq(Pkts)
      /\ Len(Append(r.items, p)) = Len(r.items) + 1
  BY DEF QueueType
<1> QED BY <1>1 DEF Enqueue, QueueType

LEMMA AfterPopType ==
  ASSUME NEW Pkts, NEW r \in QueueType(Pkts), NEW status \in PopStatuses,
         status = "Packet" => r.items # <<>>
  PROVE  /\ AfterPop(r, status) \in QueueType(Pkts)
         /\ AfterPop(r, status).aborted = r.aborted
         /\ ~r.flushed => ~AfterPop(r, status).flushed
         /\ status = "Packet" =>
              /\ AfterPop(r, status).items = Tail(r.items)
              /\ Len(AfterPop(r, status).items) = Len(r.items) - 1
         /\ status # "Packet" => AfterPop(r, status).items = r.items
<1>1. CASE status = "Packet"
  <2>1. AfterPop(r, status) = [r EXCEPT !.items = Tail(@)]
    BY <1>1 DEF AfterPop
  <2>2. /\ Tail(r.items) \in Seq(Pkts)
        /\ Len(Tail(r.items)) = Len(r.items) - 1
    BY <1>1 DEF QueueType
  <2> QED BY <1>1, <2>1, <2>2 DEF QueueType
<1>2. CASE status = "Flushed"
  <2>1. AfterPop(r, status) = [r EXCEPT !.flushed = FALSE]
    BY <1>2 DEF AfterPop
  <2> QED BY <1>2, <2>1 DEF QueueType
<1>3. CASE status \notin {"Packet", "Flushed"}
  <2>1. AfterPop(r, status) = r
    BY <1>3 DEF AfterPop
  <2> QED BY <1>3, <2>1
<1> QED BY <1>1, <1>2, <1>3

LEMMA StatusType ==
  ASSUME NEW Pkts, NEW r \in QueueType(Pkts)
  PROVE  /\ PopStatus(r) \in PopStatuses
         /\ TryPopStatus(r) \in PopStatuses
         /\ PopStatus(r) = "Packet" => r.items # <<>>
         /\ PopStatus(r) = "Eof" => r.items = <<>>
         /\ TryPopStatus(r) = "Packet" => r.items # <<>>
         /\ TryPopStatus(r) \in {"Eof", "Empty"} =>
              r.items = <<>> /\ ~r.aborted /\ ~r.flushed
  BY DEF PopStatus, TryPopStatus, PopStatuses, QueueType

LEMMA QueueOpsType ==
  ASSUME NEW Pkts, NEW r \in QueueType(Pkts)
  PROVE  /\ Flush(r) \in QueueType(Pkts) /\ Flush(r).items = <<>>
         /\ Abort(r) \in QueueType(Pkts) /\ Abort(r).items = r.items
         /\ Reset(r) \in QueueType(Pkts) /\ Reset(r).items = <<>>
         /\ SignalEof(r) \in QueueType(Pkts)
         /\ SignalEof(r).items = r.items
         /\ SignalEof(r).aborted = r.aborted
         /\ SignalEof(r).flushed = r.flushed
<1>1. <<>> \in Seq(Pkts)
  OBVIOUS
<1>2. Flush(r) \in QueueType(Pkts) /\ Flush(r).items = <<>>
  BY <1>1 DEF Flush, QueueType
<1>3. Abort(r) \in QueueType(Pkts) /\ Abort(r).items = r.items
  BY DEF Abort, QueueType
<1>4. Reset(r) \in QueueType(Pkts) /\ Reset(r).items = <<>>
  BY <1>1 DEF Reset, NewQueue, QueueType
<1>5. /\ SignalEof(r) \in QueueType(Pkts)
      /\ SignalEof(r).items = r.items
      /\ SignalEof(r).aborted = r.aborted
      /\ SignalEof(r).flushed = r.flushed
  BY DEF SignalEof, QueueType
<1> QED BY <1>2, <1>3, <1>4, <1>5
-----------------------------------------------------------------------------
Packets == [p : Nat, e : Nat]

IsChunk(c) ==
  /\ c = [frames |-> c.frames, pts |-> c.pts, packet |-> c.packet, epoch |-> c.epoch]
  /\ c.packet \in Nat /\ c.epoch \in Nat

IsChunks(s) == s \in Seq({s[k] : k \in DOMAIN s}) /\ \A k \in DOMAIN s : IsChunk(s[k])

IsBuffer(b) ==
  /\ b = [chunks |-> b.chunks, queued |-> b.queued, serial |-> b.serial, aborted |-> b.aborted,
          aligning |-> b.aligning, target |-> b.target, exact |-> b.exact,
          alignedBy |-> b.alignedBy]
  /\ b.serial \in Nat /\ IsChunks(b.chunks)

(* The buffer is at the same seek, and in the same alignment.              *)
SameSeek(a, b) ==
  /\ a.serial = b.serial /\ a.aligning = b.aligning /\ a.target = b.target
  /\ a.alignedBy = b.alignedBy

InHand == pc \in {"Push", "Append"}

Typed ==
  /\ dxNext \in Nat /\ seeks \in Nat
  /\ dx \in {"Loop", "Notify", "Begin"}
  /\ engine \in {"Registered", "Stop", "AbortQueue", "AbortBuffer", "Join", "Removed"}
  /\ queue \in QueueType(Packets)
  /\ codec \in Seq(Packets) /\ packet \in Packets /\ IsChunk(chunk)
  /\ IsBuffer(pcm)

(* The buffer counts the seeks it was told of; a notification is under way *)
(* from the first of its two lines to the second.                          *)
Current == IF dx = "Begin" THEN pcm.serial + 1 ELSE pcm.serial

Counted ==
  /\ Current <= seeks
  /\ dx = "Begin" => engine = "Registered"
  /\ engine = "Registered" => seeks = IF dx = "Loop" THEN pcm.serial ELSE pcm.serial + 1

(* The demuxer flushes the queue before it notifies, so the queue has no   *)
(* packet of before the seek notified last.                                *)
QueueFresh ==
  /\ \A k \in DOMAIN queue.items : queue.items[k].e >= Current
  /\ dx # "Loop" => queue.items = <<>>

(* What is of before that seek is ahead of all else on the way from the    *)
(* decode thread's hands through the codec to the buffer.                  *)
Old(e) == e < Current

OldBuffer == \A k \in DOMAIN pcm.chunks : Old(pcm.chunks[k].epoch)

OldFirst ==
  /\ \A k \in DOMAIN pcm.chunks : Old(pcm.chunks[k].epoch) =>
       \A j \in 1 .. k : Old(pcm.chunks[j].epoch)
  /\ InHand /\ Old(chunk.epoch) => OldBuffer
  /\ \A i \in DOMAIN codec : Old(codec[i].e) =>
       /\ OldBuffer
       /\ InHand => Old(chunk.epoch)
       /\ \A j \in 1 .. i : Old(codec[j].e)
  /\ pc = "Send" /\ Old(packet.e) => OldBuffer /\ \A i \in DOMAIN codec : Old(codec[i].e)

(* And all of it is of packet p.                                           *)
OldFrom(p) ==
  /\ \A k \in DOMAIN pcm.chunks :
       Old(pcm.chunks[k].epoch) => pcm.chunks[k].packet \in {Silence, p}
  /\ InHand /\ Old(chunk.epoch) => chunk.packet = p
  /\ \A i \in DOMAIN codec : Old(codec[i].e) => codec[i].p = p
  /\ pc = "Send" /\ Old(packet.e) => packet.p = p

OneOld == ~seekPending => OldFirst /\ \E p \in Nat : OldFrom(p)
-----------------------------------------------------------------------------
(* The buffer's operators: what they do to the order of the chunks, and    *)
(* that a chunk keeps its packet and its seek through all of them.         *)
LEMMA NoChunks == IsChunks(<<>>)
BY DEF IsChunks

LEMMA Appended ==
  ASSUME NEW s, IsChunks(s), NEW c, IsChunk(c)
  PROVE  /\ IsChunks(Append(s, c)) /\ DOMAIN s = 1 .. Len(s) /\ Len(s) \in Nat
         /\ DOMAIN Append(s, c) = 1 .. Len(s) + 1
         /\ \A k \in DOMAIN s : Append(s, c)[k] = s[k]
         /\ Append(s, c)[Len(s) + 1] = c
<1> DEFINE S == {s[k] : k \in DOMAIN s}
           T == S \union {c}
           a == Append(s, c)
<1>1. s \in Seq(S) /\ \A k \in DOMAIN s : IsChunk(s[k]) BY DEF IsChunks
<1> HIDE DEF S
<1>2. s \in Seq(T) BY <1>1, SeqMonotonic
<1>3. a \in Seq(T) /\ Len(s) \in Nat /\ Len(a) = Len(s) + 1 /\ DOMAIN s = 1 .. Len(s)
      /\ DOMAIN a = 1 .. Len(s) + 1
  BY <1>2
<1>4. (\A k \in DOMAIN s : a[k] = s[k]) /\ a[Len(s) + 1] = c BY <1>2, <1>3
<1>5. {a[k] : k \in DOMAIN a} = T
  <2>1. \A k \in DOMAIN a : k \in DOMAIN s \/ k = Len(s) + 1 BY <1>3
  <2>2. \A k \in DOMAIN s : k \in DOMAIN a BY <1>3
  <2>3. Len(s) + 1 \in DOMAIN a BY <1>3
  <2> QED BY <1>4, <2>1, <2>2, <2>3 DEF S
<1>6. \A k \in DOMAIN a : IsChunk(a[k])
  <2>1. \A k \in DOMAIN a : k \in DOMAIN s \/ k = Len(s) + 1 BY <1>3
  <2> QED BY <1>1, <1>4, <2>1
<1> QED BY <1>3, <1>4, <1>5, <1>6 DEF IsChunks

LEMMA Trimmed ==
  ASSUME NEW c, IsChunk(c), NEW n
  PROVE  /\ IsChunk(TrimmedFront(c, n))
         /\ TrimmedFront(c, n).packet = c.packet /\ TrimmedFront(c, n).epoch = c.epoch
<1>1. c = [frames |-> c.frames, pts |-> c.pts, packet |-> c.packet, epoch |-> c.epoch]
  BY DEF IsChunk
<1>2. PICK fr, pt : TrimmedFront(c, n) = [c EXCEPT !.frames = fr, !.pts = pt]
  BY DEF TrimmedFront
<1>3. TrimmedFront(c, n) = [frames |-> fr, pts |-> pt, packet |-> c.packet, epoch |-> c.epoch]
  BY <1>1, <1>2
<1> QED BY <1>3 DEF IsChunk

LEMMA Capped ==
  ASSUME NEW c, IsChunk(c)
  PROVE  /\ IsChunk(CappedChunk(c))
         /\ CappedChunk(c).packet = c.packet /\ CappedChunk(c).epoch = c.epoch
BY Trimmed DEF CappedChunk

LEMMA AppendedChunk ==
  ASSUME NEW b, IsBuffer(b), NEW c, IsChunk(c)
  PROVE  /\ IsBuffer(AppendChunk(b, c)) /\ AppendChunk(b, c).serial = b.serial
         /\ AppendChunk(b, c).chunks = Append(b.chunks, c)
         /\ AppendChunk(b, c).queued = b.queued + c.frames
         /\ SameSeek(AppendChunk(b, c), b) /\ AppendChunk(b, c).aborted = b.aborted
<1> DEFINE a == AppendChunk(b, c)
<1>1. a = [b EXCEPT !.chunks = Append(b.chunks, c), !.queued = b.queued + c.frames]
  BY DEF AppendChunk
<1>2. a = [chunks |-> Append(b.chunks, c), queued |-> b.queued + c.frames, serial |-> b.serial,
           aborted |-> b.aborted, aligning |-> b.aligning, target |-> b.target,
           exact |-> b.exact, alignedBy |-> b.alignedBy]
  BY <1>1 DEF IsBuffer
<1>3. IsChunks(Append(b.chunks, c)) BY Appended DEF IsBuffer
<1> HIDE DEF a
<1>4. IsBuffer(a) BY <1>2, <1>3 DEF IsBuffer
<1>5. /\ a.serial = b.serial /\ a.chunks = Append(b.chunks, c) /\ a.queued = b.queued + c.frames
      /\ SameSeek(a, b) /\ a.aborted = b.aborted
  BY <1>2 DEF SameSeek
<1> QED BY <1>4, <1>5 DEF a

(* The chunk keeps its packet and seek, and the silence put before it has  *)
(* its seek.                                                               *)
LEMMA Aligned ==
  ASSUME NEW b, IsBuffer(b), NEW c, IsChunk(c)
  PROVE  LET a == AlignAfterSeek(b, c) IN
         /\ IsBuffer(a.buf) /\ a.buf.serial = b.serial
         /\ IsChunk(a.chunk) /\ a.chunk.packet = c.packet /\ a.chunk.epoch = c.epoch
         /\ \/ a.buf.chunks = b.chunks
            \/ \E q : /\ IsChunk(q) /\ q.packet = Silence /\ q.epoch = c.epoch
                      /\ a.buf.chunks = Append(b.chunks, q)
<1> DEFINE a == AlignAfterSeek(b, c)
           aligned == [b EXCEPT !.aligning = FALSE, !.alignedBy = c.epoch]
           gap == c.pts - b.target
           trimmed == WithoutPrefix(c, b.target)
           quiet == Chunk(UsToFrames(gap), b.target, Silence, c.epoch)
           near == IF b.exact /\ gap <= SmallSeekGapUs
                   THEN AppendSilence(aligned, UsToFrames(gap), b.target, c.epoch) ELSE aligned
<1> DEFINE plain == [b EXCEPT !.aligning = FALSE]
<1>1. IsBuffer(plain) /\ plain.serial = b.serial /\ plain.chunks = b.chunks
  <2>0. plain = [b EXCEPT !.aligning = FALSE] OBVIOUS
  <2> HIDE DEF plain
  <2>1. plain = [chunks |-> b.chunks, queued |-> b.queued, serial |-> b.serial,
                 aborted |-> b.aborted, aligning |-> FALSE, target |-> b.target,
                 exact |-> b.exact, alignedBy |-> b.alignedBy]
    BY <2>0 DEF IsBuffer
  <2> QED BY <2>1 DEF IsBuffer
<1>2. IsBuffer(aligned) /\ aligned.serial = b.serial /\ aligned.chunks = b.chunks
  <2>0. aligned = [b EXCEPT !.aligning = FALSE, !.alignedBy = c.epoch] OBVIOUS
  <2> HIDE DEF aligned
  <2>1. aligned = [chunks |-> b.chunks, queued |-> b.queued, serial |-> b.serial,
                   aborted |-> b.aborted, aligning |-> FALSE, target |-> b.target,
                   exact |-> b.exact, alignedBy |-> c.epoch]
    BY <2>0 DEF IsBuffer
  <2> QED BY <2>1 DEF IsBuffer
<1>3. IsChunk(trimmed) /\ trimmed.packet = c.packet /\ trimmed.epoch = c.epoch
  BY Trimmed DEF WithoutPrefix
<1>4. IsChunk(quiet) /\ quiet.packet = Silence /\ quiet.epoch = c.epoch
  BY DEF IsChunk, Chunk, Silence
<1> HIDE DEF plain, aligned, trimmed, gap, quiet
<1>5. near = aligned \/ near = AppendChunk(aligned, quiet)
  BY DEF AppendSilence, quiet
<1>6. /\ IsBuffer(near) /\ near.serial = b.serial
      /\ near.chunks = b.chunks \/ near.chunks = Append(b.chunks, quiet)
  <2>1. CASE near = aligned BY <1>2, <2>1
  <2>2. CASE near = AppendChunk(aligned, quiet)
    <3>1. /\ IsBuffer(AppendChunk(aligned, quiet))
          /\ AppendChunk(aligned, quiet).serial = aligned.serial
          /\ AppendChunk(aligned, quiet).chunks = Append(aligned.chunks, quiet)
      BY <1>2, <1>4, AppendedChunk
    <3> QED BY <1>2, <2>2, <3>1
  <2> QED BY <1>5, <2>1, <2>2
<1> HIDE DEF near
<1>7. \/ a.buf = b /\ a.chunk = c
      \/ a.buf = plain /\ a.chunk = c
      \/ a.buf = aligned /\ a.chunk = trimmed
      \/ a.buf = near /\ a.chunk = c
  BY DEF AlignAfterSeek, plain, aligned, trimmed, gap, near
<1> HIDE DEF a
<1>8. /\ IsBuffer(a.buf) /\ a.buf.serial = b.serial
      /\ IsChunk(a.chunk) /\ a.chunk.packet = c.packet /\ a.chunk.epoch = c.epoch
      /\ a.buf.chunks = b.chunks \/ a.buf.chunks = Append(b.chunks, quiet)
  BY <1>1, <1>2, <1>3, <1>6, <1>7
<1> QED BY <1>4, <1>8 DEF a

LEMMA Emptied ==
  ASSUME NEW b, IsBuffer(b)
  PROVE  /\ IsBuffer(FlushBuffer(b)) /\ FlushBuffer(b).chunks = <<>>
         /\ FlushBuffer(b).serial = b.serial
         /\ FlushBuffer(b).queued = 0 /\ SameSeek(FlushBuffer(b), b)
         /\ IsBuffer(AbortBuffer(b)) /\ AbortBuffer(b).chunks = <<>>
         /\ AbortBuffer(b).serial = b.serial
         /\ AbortBuffer(b).queued = 0 /\ SameSeek(AbortBuffer(b), b)
<1> DEFINE f == FlushBuffer(b)
<1>0. f = [b EXCEPT !.chunks = <<>>, !.queued = 0] BY DEF FlushBuffer
<1> HIDE DEF f
<1>1. f = [chunks |-> <<>>, queued |-> 0, serial |-> b.serial, aborted |-> b.aborted,
           aligning |-> b.aligning, target |-> b.target, exact |-> b.exact,
           alignedBy |-> b.alignedBy]
  BY <1>0 DEF IsBuffer
<1>2. IsBuffer(f) BY <1>1, NoChunks DEF IsBuffer
<1>3. AbortBuffer(b) = [f EXCEPT !.aborted = TRUE] BY DEF AbortBuffer, f
<1>4. AbortBuffer(b) = [chunks |-> <<>>, queued |-> 0, serial |-> b.serial, aborted |-> TRUE,
                        aligning |-> b.aligning, target |-> b.target, exact |-> b.exact,
                        alignedBy |-> b.alignedBy]
  BY <1>1, <1>3
<1>5. IsBuffer(AbortBuffer(b)) BY <1>2, <1>4, NoChunks DEF IsBuffer
<1>6. /\ f.chunks = <<>> /\ f.serial = b.serial /\ f.queued = 0 /\ SameSeek(f, b)
  BY <1>1 DEF SameSeek
<1>7. /\ AbortBuffer(b).chunks = <<>> /\ AbortBuffer(b).serial = b.serial
      /\ AbortBuffer(b).queued = 0 /\ SameSeek(AbortBuffer(b), b)
  BY <1>4 DEF SameSeek
<1> QED BY <1>2, <1>5, <1>6, <1>7 DEF f

LEMMA Begun ==
  ASSUME NEW b, IsBuffer(b), NEW target, NEW exact
  PROVE  LET a == BeginSeek(b, target, exact) IN
         /\ IsBuffer(a) /\ a.chunks = <<>> /\ a.serial = b.serial + 1
         /\ a.queued = 0 /\ a.aligning /\ a.target = target /\ a.alignedBy = -1
         /\ a.aborted = b.aborted
<1> DEFINE a == BeginSeek(b, target, exact)
<1>0. a = [b EXCEPT !.serial = b.serial + 1, !.chunks = <<>>, !.queued = 0, !.aligning = TRUE,
                    !.target = target, !.exact = exact, !.alignedBy = -1]
  BY DEF BeginSeek
<1> HIDE DEF a
<1>1. a = [chunks |-> <<>>, queued |-> 0, serial |-> b.serial + 1, aborted |-> b.aborted,
           aligning |-> TRUE, target |-> target, exact |-> exact, alignedBy |-> -1]
  BY <1>0 DEF IsBuffer
<1>2. IsBuffer(a) BY <1>1, NoChunks DEF IsBuffer
<1> QED BY <1>1, <1>2 DEF a

(* The device takes from the front: what is left is the end of what was    *)
(* there, the first chunk perhaps cut.                                     *)
Gone(s, m) == {k \in 1 .. Len(s) : FramesIn(s, k) <= m}

LEMMA TakenShape ==
  ASSUME NEW b, IsBuffer(b), NEW m
  PROVE  LET a    == TakeFrames(b, m)
             s    == b.chunks
             n    == Cardinality(Gone(s, m))
             part == m - FramesIn(s, n)
         IN
         /\ IsBuffer(a) /\ SameSeek(a, b) /\ a.aborted = b.aborted
         /\ a.queued = b.queued - IF m < b.queued THEN m ELSE b.queued
         /\ n \in Nat /\ Len(s) \in Nat /\ DOMAIN s = 1 .. Len(s)
         /\ Len(a.chunks) = (IF n + 1 <= Len(s) THEN Len(s) - n ELSE 0)
         /\ DOMAIN a.chunks = 1 .. Len(a.chunks)
         /\ \A k \in DOMAIN a.chunks :
              /\ k \in Nat /\ k + n \in DOMAIN s
              /\ a.chunks[k] = IF k = 1 /\ part # 0 THEN TrimmedFront(s[k + n], part) ELSE s[k + n]
<1> DEFINE a == TakeFrames(b, m)
           s == b.chunks
           S == {s[k] : k \in DOMAIN s}
           gone == Gone(s, m)
           n == Cardinality(gone)
           rest == SubSeq(s, n + 1, Len(s))
           part == m - FramesIn(s, n)
           left == IF rest = <<>> \/ part = 0 THEN rest
                   ELSE <<TrimmedFront(Head(rest), part)>> \o Tail(rest)
           took == IF m < b.queued THEN m ELSE b.queued
<1>1. a = [b EXCEPT !.chunks = left, !.queued = @ - took] BY DEF TakeFrames, Gone
<1>2. s \in Seq(S) /\ Len(s) \in Nat /\ DOMAIN s = 1 .. Len(s) /\ \A k \in DOMAIN s : IsChunk(s[k])
  BY DEF IsBuffer, IsChunks
<1> HIDE DEF S
<1>3. n \in Nat
  <2>1. gone \in SUBSET (1 .. Len(s)) BY DEF Gone
  <2> HIDE DEF gone
  <2>2. IsFiniteSet(1 .. Len(s)) BY <1>2, FS_Interval
  <2>3. IsFiniteSet(gone) BY <2>1, <2>2, FS_Subset
  <2> QED BY <2>3, FS_CardinalityType
<1> HIDE DEF n, gone
<1>4. /\ rest \in Seq(S) /\ Len(rest) \in Nat /\ DOMAIN rest = 1 .. Len(rest)
      /\ Len(rest) = IF n + 1 <= Len(s) THEN Len(s) - n ELSE 0
      /\ \A k \in DOMAIN rest : k + n \in DOMAIN s /\ rest[k] = s[k + n]
  <2>1. \A i \in n + 1 .. Len(s) : s[i] \in S BY <1>2, <1>3, ElementOfSeq
  <2>2. /\ rest \in Seq(S) /\ Len(rest) = IF n + 1 <= Len(s) THEN Len(s) - (n + 1) + 1 ELSE 0
        /\ \A i \in 1 .. Len(s) - (n + 1) + 1 : rest[i] = s[n + 1 + i - 1]
    BY <1>2, <1>3, <2>1, SubSeqProperties
  <2> HIDE DEF rest
  <2>3. Len(rest) \in Nat /\ DOMAIN rest = 1 .. Len(rest) BY <2>2
  <2>4. \A k \in DOMAIN rest : /\ k \in 1 .. Len(s) - (n + 1) + 1 /\ n + 1 + k - 1 = k + n
                               /\ k + n \in 1 .. Len(s)
    <3>1. CASE n + 1 <= Len(s)
      <4>1. Len(rest) = Len(s) - n BY <1>2, <1>3, <2>2, <3>1
      <4> SUFFICES ASSUME NEW k \in 1 .. Len(s) - n
                   PROVE  /\ k \in 1 .. Len(s) - (n + 1) + 1 /\ n + 1 + k - 1 = k + n
                          /\ k + n \in 1 .. Len(s)
        BY <2>3, <4>1
      <4> QED BY <1>2, <1>3
    <3>2. CASE ~ (n + 1 <= Len(s)) BY <2>2, <2>3, <3>2
    <3> QED BY <3>1, <3>2
  <2>5. Len(rest) = IF n + 1 <= Len(s) THEN Len(s) - n ELSE 0 BY <1>2, <1>3, <2>2
  <2> QED BY <1>2, <2>2, <2>3, <2>4, <2>5
<1> HIDE DEF rest
<1>5. /\ IsChunks(left) /\ Len(left) = Len(rest) /\ DOMAIN left = DOMAIN rest
      /\ \A k \in DOMAIN left :
           left[k] = IF k = 1 /\ part # 0 THEN TrimmedFront(rest[k], part) ELSE rest[k]
  <2>1. CASE rest = <<>> \/ part = 0
    <3>1. left = rest BY <2>1
    <3>2. rest \in Seq({rest[k] : k \in DOMAIN rest}) BY <1>4
    <3>3. \A k \in DOMAIN rest : IsChunk(rest[k]) BY <1>2, <1>4
    <3>4. DOMAIN rest # {} => part = 0 BY <1>4, <2>1
    <3> HIDE DEF part, left
    <3> QED BY <3>1, <3>2, <3>3, <3>4 DEF IsChunks
  <2>2. CASE ~ (rest = <<>> \/ part = 0)
    <3> DEFINE h == TrimmedFront(rest[1], part)
               U == S \union {h}
    <3>1. rest # <<>> /\ 1 \in DOMAIN rest /\ Head(rest) = rest[1] BY <1>4, <2>2
    <3>2. IsChunk(rest[1]) BY <1>2, <1>4, <3>1
    <3>3. IsChunk(h) /\ h.packet = rest[1].packet /\ h.epoch = rest[1].epoch BY <3>2, Trimmed
    <3>4. left = <<h>> \o Tail(rest) BY <2>2, <3>1
    <3> HIDE DEF h
    <3>5. /\ Tail(rest) \in Seq(U) /\ Len(Tail(rest)) = Len(rest) - 1
          /\ \A i \in 1 .. Len(Tail(rest)) : Tail(rest)[i] = rest[i + 1]
      BY <1>4, <3>1, HeadTailProperties, SeqMonotonic
    <3>6. <<h>> \in Seq(U) /\ Len(<<h>>) = 1 /\ <<h>>[1] = h OBVIOUS
    <3> HIDE DEF U
    <3>7. /\ left \in Seq(U) /\ Len(left) = Len(rest)
          /\ \A i \in 1 .. Len(rest) : left[i] = IF i <= 1 THEN h ELSE Tail(rest)[i - 1]
      BY <1>4, <3>4, <3>5, <3>6, ConcatProperties
    <3> HIDE DEF left
    <3>8. DOMAIN left = 1 .. Len(rest) BY <3>7
    <3>9. left[1] = h /\ \A i \in DOMAIN left : i # 1 => left[i] = rest[i]
      <4>1. \A i \in 2 .. Len(rest) : i - 1 \in 1 .. Len(Tail(rest)) /\ (i - 1) + 1 = i
        BY <1>4, <3>5
      <4>2. \A i \in 2 .. Len(rest) : left[i] = rest[i] BY <1>4, <3>5, <3>7, <4>1
      <4>3. 1 \in 1 .. Len(rest) BY <1>4, <3>1
      <4> QED BY <3>7, <3>8, <4>2, <4>3, <1>4
    <3>10. \A k \in DOMAIN left : /\ IsChunk(left[k]) /\ k \in DOMAIN rest
                                  /\ left[k].packet = rest[k].packet
                                  /\ left[k].epoch = rest[k].epoch
      BY <1>2, <1>4, <3>3, <3>8, <3>9
    <3>11. left \in Seq({left[k] : k \in DOMAIN left}) BY <3>7
    <3>12. part # 0 BY <2>2
    <3> HIDE DEF part
    <3>13. \A k \in DOMAIN left :
             left[k] = IF k = 1 /\ part # 0 THEN TrimmedFront(rest[k], part) ELSE rest[k]
      BY <3>9, <3>12 DEF h
    <3> QED BY <1>4, <3>7, <3>8, <3>10, <3>11, <3>13 DEF IsChunks
  <2> QED BY <2>1, <2>2
<1> HIDE DEF left, took
<1>6. a = [chunks |-> left, queued |-> b.queued - took, serial |-> b.serial,
           aborted |-> b.aborted, aligning |-> b.aligning, target |-> b.target,
           exact |-> b.exact, alignedBy |-> b.alignedBy]
  BY <1>1 DEF IsBuffer
<1> HIDE DEF a
<1>7. IsBuffer(a) BY <1>5, <1>6 DEF IsBuffer
<1>8. /\ SameSeek(a, b) /\ a.aborted = b.aborted /\ a.queued = b.queued - took
      /\ a.chunks = left
  BY <1>6 DEF SameSeek
<1> HIDE DEF part
<1>9. \A k \in DOMAIN a.chunks : /\ k \in Nat /\ k + n \in DOMAIN s
         /\ a.chunks[k] = IF k = 1 /\ part # 0 THEN TrimmedFront(s[k + n], part) ELSE s[k + n]
  BY <1>4, <1>5, <1>8
<1>10. Len(a.chunks) = (IF n + 1 <= Len(s) THEN Len(s) - n ELSE 0)
       /\ DOMAIN a.chunks = 1 .. Len(a.chunks)
  BY <1>4, <1>5, <1>8
<1> QED BY <1>2, <1>3, <1>7, <1>8, <1>9, <1>10 DEF a, part, n, gone, took

LEMMA TakenAway ==
  ASSUME NEW b, IsBuffer(b), NEW m
  PROVE  LET a == TakeFrames(b, m) IN
         /\ IsBuffer(a) /\ a.serial = b.serial
         /\ \E n \in Nat : \A k \in DOMAIN a.chunks :
              /\ k \in Nat /\ k + n \in DOMAIN b.chunks
              /\ a.chunks[k].packet = b.chunks[k + n].packet
              /\ a.chunks[k].epoch = b.chunks[k + n].epoch
<1> DEFINE a == TakeFrames(b, m)
           s == b.chunks
           n == Cardinality(Gone(s, m))
           part == m - FramesIn(s, n)
<1>1. /\ IsBuffer(a) /\ SameSeek(a, b) /\ n \in Nat
      /\ \A k \in DOMAIN a.chunks :
           /\ k \in Nat /\ k + n \in DOMAIN s
           /\ a.chunks[k] = IF k = 1 /\ part # 0 THEN TrimmedFront(s[k + n], part) ELSE s[k + n]
  BY TakenShape
<1> HIDE DEF n, part, a
<1>2. \A k \in DOMAIN s : IsChunk(s[k]) BY DEF IsBuffer, IsChunks
<1>3. \A k \in DOMAIN a.chunks : /\ a.chunks[k].packet = s[k + n].packet
                                 /\ a.chunks[k].epoch = s[k + n].epoch
  BY <1>1, <1>2, Trimmed
<1>4. a.serial = b.serial BY <1>1 DEF SameSeek
<1> QED BY <1>1, <1>3, <1>4 DEF a
-----------------------------------------------------------------------------
LEMMA TypedInit == Init => Typed
<1> SUFFICES ASSUME Init PROVE Typed OBVIOUS
<1> USE DEF Init
<1>1. NewQueue \in QueueType(Packets) BY DEF NewQueue, QueueType
<1>2. IsChunk(NoChunk) BY DEF NoChunk, IsChunk, Chunk, Silence
<1>3. IsBuffer(NewBuffer) BY NoChunks DEF NewBuffer, IsBuffer
<1>4. NoPacket \in Packets /\ <<>> \in Seq(Packets) BY DEF NoPacket, Packet, Packets
<1> QED BY <1>1, <1>2, <1>3, <1>4 DEF Typed

LEMMA TypedStep ==
  ASSUME Typed, Next
  PROVE  Typed'
<1> USE DEF demuxVars, decodeVars, engineVars
<1>0. /\ dxNext \in Nat /\ seeks \in Nat /\ queue \in QueueType(Packets)
      /\ dx \in {"Loop", "Notify", "Begin"}
      /\ engine \in {"Registered", "Stop", "AbortQueue", "AbortBuffer", "Join", "Removed"}
      /\ codec \in Seq(Packets) /\ packet \in Packets /\ IsChunk(chunk) /\ IsBuffer(pcm)
  BY DEF Typed
<1>1. IsChunk(NoChunk) BY DEF NoChunk, IsChunk, Chunk, Silence
<1>2. NoPacket \in Packets /\ <<>> \in Seq(Packets) BY DEF NoPacket, Packet, Packets
<1>3. /\ IsBuffer(FlushBuffer(pcm)) /\ IsBuffer(AbortBuffer(pcm))
      /\ IsBuffer(TakeFrames(pcm, DeviceFrames)) /\ IsBuffer(AppendChunk(pcm, chunk))
  BY <1>0, Emptied, TakenAway, AppendedChunk
<1>4. CASE ReadPacket
  <2>1. Packet(dxNext, seeks) \in Packets BY <1>0 DEF Packet, Packets
  <2>2. Enqueue(queue, Packet(dxNext, seeks)) \in QueueType(Packets) BY <1>0, <2>1, EnqueueType
  <2>3. queue' \in QueueType(Packets) BY <1>0, <1>4, <2>2 DEF ReadPacket, TryPush
  <2>4. dxNext' = dxNext + 1
        /\ UNCHANGED <<dx, seeks, engine, codec, packet, chunk, pcm>>
    BY <1>4 DEF ReadPacket
  <2> QED BY <1>0, <2>3, <2>4 DEF Typed
<1>5. CASE ReadEof
  <2>1. queue' = SignalEof(queue) /\ UNCHANGED <<dx, dxNext, seeks, engine, codec, packet, chunk, pcm>>
    BY <1>5 DEF ReadEof
  <2> QED BY <1>0, <2>1, QueueOpsType DEF Typed
<1>6. ASSUME NEW request \in Requests, SeekInput(request) PROVE Typed'
  <2>1. /\ queue' = Flush(queue) /\ seeks' = seeks + 1 /\ dx' = "Notify"
        /\ dxNext' \in Landings(request.target) \union {dxNext}
        /\ UNCHANGED <<engine, codec, packet, chunk, pcm>>
    BY <1>6 DEF SeekInput
  <2>2. Landings(request.target) \subseteq Nat
    BY AudioAssumption DEF Landings
  <2> QED BY <1>0, <2>1, <2>2, QueueOpsType DEF Typed
<1>7. CASE NotifyUnregistered \/ NotifyPending
  BY <1>0, <1>7 DEF NotifyUnregistered, NotifyPending, Typed
<1>8. CASE NotifyBegin
  <2>1. /\ pcm' = BeginSeek(pcm, sought.target, sought.exact) /\ dx' = "Loop"
        /\ UNCHANGED <<dxNext, seeks, engine, codec, packet, chunk, queue>>
    BY <1>8 DEF NotifyBegin
  <2>2. IsBuffer(pcm') BY <1>0, <2>1, Begun
  <2> QED BY <1>0, <2>1, <2>2 DEF Typed
<1>9. CASE LoopEnd \/ ReceiveEnd
  BY <1>0, <1>9 DEF LoopEnd, ReceiveEnd, Typed
<1>10. CASE LoopFlush
  BY <1>0, <1>2, <1>3, <1>10 DEF LoopFlush, Typed
<1>11. CASE PopPacket
  <2>1. /\ queue' = AfterPop(queue, PopStatus(queue))
        /\ packet' = IF PopStatus(queue) = "Packet" THEN Head(queue.items) ELSE packet
        /\ UNCHANGED <<dx, dxNext, seeks, engine, codec, chunk, pcm>>
    BY <1>11 DEF PopPacket
  <2>2. PopStatus(queue) = "Packet" => queue.items # <<>> BY <1>0, StatusType
  <2>3. queue' \in QueueType(Packets) BY <1>0, <2>1, StatusType, AfterPopType
  <2>4. packet' \in Packets BY <1>0, <2>1, <2>2 DEF QueueType
  <2> QED BY <1>0, <2>1, <2>3, <2>4 DEF Typed
<1>12. CASE SendPacket
  <2> DEFINE left == IF seekPending THEN <<>> ELSE codec
  <2>1. /\ pcm' = IF seekPending THEN FlushBuffer(pcm) ELSE pcm
        /\ codec' = IF packet.p \in Corrupt THEN left ELSE Append(left, packet)
        /\ packet' = NoPacket
        /\ UNCHANGED <<dx, dxNext, seeks, engine, chunk, queue>>
    BY <1>12 DEF SendPacket
  <2>2. left \in Seq(Packets) BY <1>0, <1>2
  <2> HIDE DEF left
  <2>3. codec' \in Seq(Packets) BY <1>0, <2>1, <2>2
  <2>4. IsBuffer(pcm') BY <1>0, <1>3, <2>1
  <2> QED BY <1>0, <1>2, <2>1, <2>3, <2>4 DEF Typed
<1>13. CASE ReceiveFrame
  <2>1. /\ chunk' = Chunk(PacketFrames, PacketPts(Head(codec).p), Head(codec).p, Head(codec).e)
        /\ codec' = Tail(codec) /\ codec # <<>>
        /\ UNCHANGED <<dx, dxNext, seeks, engine, packet, queue, pcm>>
    BY <1>13 DEF ReceiveFrame
  <2>2. Head(codec) \in Packets /\ codec' \in Seq(Packets) BY <1>0, <2>1
  <2>3. IsChunk(chunk') BY <2>1, <2>2 DEF IsChunk, Chunk, Packets
  <2> QED BY <1>0, <2>1, <2>2, <2>3 DEF Typed
<1>14. CASE PushEnter
  <2> DEFINE a == AlignAfterSeek(pcm, chunk)
  <2>1. IsBuffer(a.buf) /\ IsChunk(a.chunk) BY <1>0, Aligned
  <2>2. IsChunk(CappedChunk(a.chunk)) BY <2>1, Capped
  <2> HIDE DEF a
  <2>3. /\ pcm' = pcm \/ pcm' = a.buf
        /\ chunk' = NoChunk \/ chunk' = CappedChunk(a.chunk)
        /\ UNCHANGED <<dx, dxNext, seeks, engine, packet, codec, queue>>
    BY <1>14 DEF PushEnter, a
  <2> QED BY <1>0, <1>1, <2>1, <2>2, <2>3 DEF Typed
<1>15. CASE PushAppend
  BY <1>0, <1>1, <1>3, <1>15 DEF PushAppend, Typed
<1>16. CASE Render
  BY <1>0, <1>3, <1>16 DEF Render, Typed
<1>17. CASE SetPaused \/ Unregister \/ StopRunning \/ StopJoin
  BY <1>0, <1>17 DEF SetPaused, Unregister, StopRunning, StopJoin, Typed
<1>18. CASE StopAbortQueue
  BY <1>0, <1>18, QueueOpsType DEF StopAbortQueue, Typed
<1>19. CASE StopAbortBuffer
  BY <1>0, <1>3, <1>19 DEF StopAbortBuffer, Typed
<1> QED BY <1>4, <1>5, <1>6, <1>7, <1>8, <1>9, <1>10, <1>11, <1>12, <1>13, <1>14, <1>15, <1>16,
          <1>17, <1>18, <1>19 DEF Next, Demux, Decode, Engine

(* The seeks are counted, and the queue is fresh.                          *)
LEMMA CountedStep ==
  ASSUME Typed, Counted, QueueFresh, Next
  PROVE  Counted' /\ QueueFresh'
<1> USE DEF demuxVars, decodeVars, engineVars
<1>0. /\ seeks \in Nat /\ queue \in QueueType(Packets) /\ pcm.serial \in Nat /\ IsBuffer(pcm)
      /\ dx \in {"Loop", "Notify", "Begin"} /\ IsChunk(chunk)
  BY DEF Typed, IsBuffer
<1>1. queue.items \in Seq(Packets) BY <1>0 DEF QueueType
<1>2. UNCHANGED <<dx, seeks, engine>> /\ pcm'.serial = pcm.serial => Counted'
  BY DEF Counted, Current
<1>3. UNCHANGED <<dx, queue>> /\ pcm'.serial = pcm.serial => QueueFresh'
  BY DEF QueueFresh, Current
<1>4. CASE ReadPacket
  <2>1. UNCHANGED <<dx, seeks, engine, pcm>> /\ dx = "Loop" BY <1>4 DEF ReadPacket
  <2> DEFINE pk == Packet(dxNext, seeks)
  <2>2. pk \in Packets /\ pk.e = seeks BY <1>0 DEF Packet, Packets, Typed
  <2> HIDE DEF pk
  <2>3. queue' = queue \/ queue'.items = Append(queue.items, pk)
    BY <1>0, <1>4, <2>2, EnqueueType DEF ReadPacket, TryPush, pk
  <2>4. CASE queue' = queue BY <1>2, <1>3, <2>1, <2>4
  <2>5. CASE queue'.items = Append(queue.items, pk)
    <3>1. Current' = Current /\ Current <= seeks /\ Current \in Nat
      BY <1>0, <2>1 DEF Current, Counted
    <3>2. \A k \in DOMAIN queue'.items : queue'.items[k].e >= Current
      <4>1. \A k \in DOMAIN queue'.items : k \in DOMAIN queue.items \/ queue'.items[k] = pk
        BY <1>1, <2>2, <2>5
      <4>2. \A k \in DOMAIN queue.items : queue'.items[k] = queue.items[k]
        BY <1>1, <2>2, <2>5
      <4> QED BY <1>0, <2>2, <3>1, <4>1, <4>2 DEF QueueFresh
    <3> QED BY <1>2, <2>1, <3>1, <3>2 DEF QueueFresh
  <2> QED BY <2>3, <2>4, <2>5
<1>5. CASE ReadEof
  <2>1. queue' = SignalEof(queue) /\ UNCHANGED <<dx, seeks, engine, pcm>> BY <1>5 DEF ReadEof
  <2>2. queue'.items = queue.items BY <1>0, <2>1, QueueOpsType
  <2> QED BY <1>2, <2>1, <2>2 DEF QueueFresh, Current
<1>6. ASSUME NEW request \in Requests, SeekInput(request) PROVE Counted' /\ QueueFresh'
  <2>1. /\ dx = "Loop" /\ dx' = "Notify" /\ seeks' = seeks + 1 /\ queue' = Flush(queue)
        /\ UNCHANGED <<engine, pcm>>
    BY <1>6 DEF SeekInput
  <2>2. queue'.items = <<>> BY <1>0, <2>1, QueueOpsType
  <2>3. Counted' BY <1>0, <2>1 DEF Counted, Current
  <2> QED BY <2>2, <2>3 DEF QueueFresh
<1>7. CASE NotifyUnregistered
  <2>1. dx = "Notify" /\ engine # "Registered" /\ dx' = "Loop"
        /\ UNCHANGED <<seeks, engine, pcm, queue>>
    BY <1>7 DEF NotifyUnregistered
  <2> QED BY <2>1 DEF Counted, QueueFresh, Current
<1>8. CASE NotifyPending
  <2>1. dx = "Notify" /\ engine = "Registered" /\ dx' = "Begin"
        /\ UNCHANGED <<seeks, engine, pcm, queue>>
    BY <1>8 DEF NotifyPending
  <2> QED BY <1>0, <2>1 DEF Counted, QueueFresh, Current
<1>9. CASE NotifyBegin
  <2>1. dx = "Begin" /\ dx' = "Loop" /\ UNCHANGED <<seeks, engine, queue>>
        /\ pcm' = BeginSeek(pcm, sought.target, sought.exact)
    BY <1>9 DEF NotifyBegin
  <2>2. pcm'.serial = pcm.serial + 1 BY <1>0, <2>1, Begun
  <2> QED BY <1>0, <2>1, <2>2 DEF Counted, QueueFresh, Current
<1>10. CASE PopPacket
  <2>1. UNCHANGED <<dx, seeks, engine, pcm>> /\ queue' = AfterPop(queue, PopStatus(queue))
    BY <1>10 DEF PopPacket
  <2>2. queue'.items = queue.items \/ (queue.items # <<>> /\ queue'.items = Tail(queue.items))
    BY <1>0, <2>1, StatusType, AfterPopType
  <2>3. CASE queue'.items = queue.items BY <1>2, <2>1, <2>3 DEF QueueFresh, Current
  <2>4. CASE queue.items # <<>> /\ queue'.items = Tail(queue.items)
    <3>1. \A k \in DOMAIN queue'.items :
            k + 1 \in DOMAIN queue.items /\ queue'.items[k] = queue.items[k + 1]
      BY <1>1, <2>4
    <3> QED BY <1>2, <2>1, <2>4, <3>1 DEF QueueFresh, Current
  <2> QED BY <2>2, <2>3, <2>4
<1>11. CASE LoopEnd \/ ReceiveEnd \/ ReceiveFrame \/ SetPaused \/ StopRunning \/ StopJoin
  BY <1>2, <1>3, <1>11
     DEF LoopEnd, ReceiveEnd, ReceiveFrame, SetPaused, StopRunning, StopJoin, Counted, Current
<1>12. CASE Unregister
  BY <1>3, <1>12 DEF Unregister, Counted, Current
<1>13. CASE LoopFlush \/ SendPacket \/ PushEnter \/ PushAppend \/ Render
  <2>1. UNCHANGED <<dx, seeks, engine, queue>>
    BY <1>13 DEF LoopFlush, SendPacket, PushEnter, PushAppend, Render
  <2>2. \/ pcm' = pcm \/ pcm' = FlushBuffer(pcm) \/ pcm' = AlignAfterSeek(pcm, chunk).buf
        \/ pcm' = AppendChunk(pcm, chunk) \/ pcm' = TakeFrames(pcm, DeviceFrames)
    <3>1. CASE LoopFlush BY <3>1 DEF LoopFlush
    <3>2. CASE SendPacket BY <3>2 DEF SendPacket
    <3>3. CASE PushEnter BY <3>3 DEF PushEnter
    <3>4. CASE PushAppend BY <3>4 DEF PushAppend
    <3>5. CASE Render BY <3>5 DEF Render
    <3> QED BY <1>13, <3>1, <3>2, <3>3, <3>4, <3>5
  <2>3. pcm'.serial = pcm.serial
    <3>1. FlushBuffer(pcm).serial = pcm.serial BY <1>0, Emptied
    <3>2. AlignAfterSeek(pcm, chunk).buf.serial = pcm.serial BY <1>0, Aligned
    <3>3. AppendChunk(pcm, chunk).serial = pcm.serial BY <1>0, AppendedChunk
    <3>4. TakeFrames(pcm, DeviceFrames).serial = pcm.serial BY <1>0, TakenAway
    <3> QED BY <2>2, <3>1, <3>2, <3>3, <3>4
  <2> QED BY <1>2, <1>3, <2>1, <2>3
<1>14. CASE StopAbortQueue
  <2>1. /\ queue' = Abort(queue) /\ UNCHANGED <<dx, seeks, pcm>> /\ engine # "Registered"
        /\ engine' # "Registered"
    BY <1>14 DEF StopAbortQueue
  <2>2. queue'.items = queue.items BY <1>0, <2>1, QueueOpsType
  <2> QED BY <2>1, <2>2 DEF Counted, QueueFresh, Current
<1>15. CASE StopAbortBuffer
  <2>1. /\ pcm' = AbortBuffer(pcm) /\ UNCHANGED <<dx, seeks, queue>> /\ engine # "Registered"
        /\ engine' # "Registered"
    BY <1>15 DEF StopAbortBuffer
  <2>2. pcm'.serial = pcm.serial BY <1>0, <2>1, Emptied
  <2> QED BY <2>1, <2>2 DEF Counted, QueueFresh, Current
<1> QED BY <1>4, <1>5, <1>6, <1>7, <1>8, <1>9, <1>10, <1>11, <1>12, <1>13, <1>14, <1>15
     DEF Next, Demux, Decode, Engine

(* Once the thread has answered the seek notified last, no step brings     *)
(* more of before it, nor puts something in front of it.                   *)
LEMMA OldStep ==
  ASSUME Typed, Counted, QueueFresh, Next, ~seekPending, ~seekPending',
         NEW p \in Nat, OldFirst, OldFrom(p)
  PROVE  OldFirst' /\ OldFrom(p)'
<1> USE DEF demuxVars, decodeVars, engineVars
<1>0. /\ queue \in QueueType(Packets) /\ pcm.serial \in Nat /\ IsBuffer(pcm)
      /\ IsChunk(chunk) /\ codec \in Seq(Packets) /\ packet \in Packets
      /\ IsChunks(pcm.chunks) /\ queue.items \in Seq(Packets)
  BY DEF Typed, IsBuffer, QueueType
<1>1. ASSUME Current' = Current, UNCHANGED <<codec, pcm, chunk, packet, pc>>
      PROVE  OldFirst' /\ OldFrom(p)'
  BY <1>1 DEF OldFirst, OldFrom, Old, OldBuffer, InHand
<1>2. ASSUME Current' = Current, UNCHANGED <<codec, pcm>>, pc' \notin {"Push", "Append", "Send"}
      PROVE  OldFirst' /\ OldFrom(p)'
  BY <1>2 DEF OldFirst, OldFrom, Old, OldBuffer, InHand
<1>3. ASSUME Current' = Current, pcm'.chunks = <<>>, UNCHANGED <<codec, chunk, packet, pc>>
      PROVE  OldFirst' /\ OldFrom(p)'
  BY <1>3 DEF OldFirst, OldFrom, Old, OldBuffer, InHand
<1>4. ASSUME Current' = Current, UNCHANGED codec, InHand, pc' # "Send",
             InHand' => chunk'.epoch = chunk.epoch /\ chunk'.packet = chunk.packet,
             \/ pcm'.chunks = pcm.chunks
             \/ \E q : /\ IsChunk(q) /\ q.epoch = chunk.epoch
                       /\ q.packet \in {Silence, chunk.packet}
                       /\ pcm'.chunks = Append(pcm.chunks, q)
      PROVE  OldFirst' /\ OldFrom(p)'
  <2>1. CASE pcm'.chunks = pcm.chunks
    BY <1>4, <2>1 DEF OldFirst, OldFrom, Old, OldBuffer
  <2>2. ASSUME NEW q, IsChunk(q), q.epoch = chunk.epoch, q.packet \in {Silence, chunk.packet},
               pcm'.chunks = Append(pcm.chunks, q)
        PROVE  OldFirst' /\ OldFrom(p)'
    <3> DEFINE n == Len(pcm.chunks)
    <3>1. /\ n \in Nat /\ DOMAIN pcm.chunks = 1 .. n /\ DOMAIN pcm'.chunks = 1 .. n + 1
          /\ \A k \in 1 .. n : pcm'.chunks[k] = pcm.chunks[k]
          /\ pcm'.chunks[n + 1] = q
      <4> DEFINE s == pcm.chunks
                 a == Append(s, q)
      <4>1. /\ Len(s) \in Nat /\ DOMAIN s = 1 .. Len(s) /\ DOMAIN a = 1 .. Len(s) + 1
            /\ \A k \in DOMAIN s : a[k] = s[k]
            /\ a[Len(s) + 1] = q
        <5>1. IsChunks(s) BY <1>0
        <5> HIDE DEF s
        <5> QED BY <2>2, <5>1, Appended
      <4>2. pcm'.chunks = a BY <2>2
      <4> HIDE DEF a
      <4> QED BY <4>1, <4>2
    <3> HIDE DEF n
    <3>2. \A k \in 1 .. n + 1 : k \in 1 .. n \/ k = n + 1 BY <3>1
    <3>3. Old(q.epoch) <=> Old(chunk.epoch) BY <2>2
    <3>4. \A k \in 1 .. n : Old(pcm'.chunks[k].epoch) <=> Old(pcm.chunks[k].epoch)
      BY <3>1
    <3>5. Old(chunk.epoch) => OldBuffer'
      <4> SUFFICES ASSUME Old(chunk.epoch) PROVE OldBuffer' OBVIOUS
      <4>1. \A k \in 1 .. n : Old(pcm.chunks[k].epoch) BY <1>4, <3>1 DEF OldFirst, OldBuffer
      <4>2. \A k \in 1 .. n + 1 : Old(pcm'.chunks[k].epoch) BY <3>1, <3>2, <3>3, <3>4, <4>1
      <4> QED BY <1>4, <3>1, <4>2 DEF OldBuffer, Old
    <3>6. \A k \in DOMAIN pcm'.chunks : Old(pcm'.chunks[k].epoch) =>
            \A j \in 1 .. k : Old(pcm'.chunks[j].epoch)
      <4>1. CASE Old(chunk.epoch)
        <5>1. \A k \in 1 .. n + 1 : \A j \in 1 .. k : j \in 1 .. n + 1 BY <3>1
        <5>2. \A k \in 1 .. n + 1 : Old(pcm'.chunks[k].epoch)
          BY <1>4, <3>1, <3>5, <4>1 DEF OldBuffer, Old
        <5> QED BY <3>1, <5>1, <5>2
      <4>2. CASE ~Old(chunk.epoch)
        <5>1. \A k \in 1 .. n : \A j \in 1 .. k : j \in 1 .. n BY <3>1
        <5> QED BY <2>2, <3>1, <3>2, <3>3, <3>4, <4>2, <5>1 DEF OldFirst
      <4> QED BY <4>1, <4>2
    <3>7. InHand' /\ Old(chunk.epoch) => OldBuffer' BY <1>4, <3>5 DEF Old
    <3>8. \A i \in DOMAIN codec : Old(codec[i].e) =>
            /\ OldBuffer'
            /\ InHand' => Old(chunk.epoch)
            /\ \A j \in 1 .. i : Old(codec[j].e)
      BY <1>4, <3>5 DEF OldFirst, Old
    <3>9. OldFirst' BY <1>4, <3>6, <3>7, <3>8 DEF OldFirst, Old
    <3>10. \A k \in DOMAIN pcm'.chunks :
             Old(pcm'.chunks[k].epoch) => pcm'.chunks[k].packet \in {Silence, p}
      BY <1>4, <2>2, <3>1, <3>2, <3>3, <3>4 DEF OldFrom
    <3>11. OldFrom(p)' BY <1>4, <3>10 DEF OldFrom, Old
    <3> QED BY <3>9, <3>11
  <2> QED BY <1>4, <2>1, <2>2
<1>5. pcm' = pcm /\ dx' = dx => Current' = Current BY DEF Current
<1>6. CASE ReadPacket \/ ReadEof \/ SetPaused \/ Unregister \/ StopRunning \/ StopAbortQueue
           \/ StopJoin
  <2>1. UNCHANGED <<codec, pcm, chunk, packet, pc, dx>>
    BY <1>6 DEF ReadPacket, ReadEof, SetPaused, Unregister, StopRunning, StopAbortQueue, StopJoin
  <2> QED BY <1>1, <1>5, <2>1
<1>7. ASSUME NEW request \in Requests, SeekInput(request) PROVE OldFirst' /\ OldFrom(p)'
  <2>1. UNCHANGED <<codec, pcm, chunk, packet, pc>> /\ dx = "Loop" /\ dx' = "Notify"
    BY <1>7 DEF SeekInput
  <2>2. Current' = Current BY <2>1 DEF Current
  <2> QED BY <1>1, <2>1, <2>2
<1>8. CASE NotifyUnregistered
  <2>1. UNCHANGED <<codec, pcm, chunk, packet, pc>> /\ dx = "Notify" /\ dx' = "Loop"
    BY <1>8 DEF NotifyUnregistered
  <2>2. Current' = Current BY <2>1 DEF Current
  <2> QED BY <1>1, <2>1, <2>2
<1>9. CASE NotifyPending BY <1>9 DEF NotifyPending
<1>10. CASE NotifyBegin
  <2>1. /\ pcm' = BeginSeek(pcm, sought.target, sought.exact) /\ dx = "Begin" /\ dx' = "Loop"
        /\ UNCHANGED <<codec, chunk, packet, pc>>
    BY <1>10 DEF NotifyBegin
  <2>2. pcm'.chunks = <<>> /\ pcm'.serial = pcm.serial + 1 BY <1>0, <2>1, Begun
  <2>3. Current' = Current BY <2>1, <2>2 DEF Current
  <2> QED BY <1>3, <2>1, <2>2, <2>3
<1>11. CASE LoopEnd \/ LoopFlush \/ ReceiveEnd
  <2>1. UNCHANGED <<codec, pcm, dx>> /\ pc' \notin {"Push", "Append", "Send"}
    <3>1. CASE LoopEnd BY <3>1 DEF LoopEnd
    <3>2. CASE LoopFlush BY <3>2 DEF LoopFlush
    <3>3. CASE ReceiveEnd BY <3>3 DEF ReceiveEnd
    <3> QED BY <1>11, <3>1, <3>2, <3>3
  <2> QED BY <1>2, <1>5, <2>1
<1>12. CASE PopPacket
  <2>1. UNCHANGED <<codec, chunk, pcm, dx>> BY <1>12 DEF PopPacket
  <2>2. CASE PopStatus(queue) = "Packet"
    <3>1. packet' = Head(queue.items) /\ pc' = "Send" BY <1>12, <2>2 DEF PopPacket
    <3>2. queue.items # <<>> BY <1>0, <2>2, StatusType
    <3>3. packet' = queue.items[1] /\ 1 \in DOMAIN queue.items BY <1>0, <3>1, <3>2
    <3>4. packet'.e >= Current /\ packet'.e \in Nat
      <4>1. queue.items[1] \in Packets BY <1>0, <3>3
      <4>2. queue.items[1].e >= Current BY <3>3 DEF QueueFresh
      <4> QED BY <3>3, <4>1, <4>2 DEF Packets
    <3>5. Current \in Nat BY <1>0 DEF Current
    <3>6. ~Old(packet'.e) BY <3>4, <3>5 DEF Old
    <3> QED BY <1>5, <2>1, <3>1, <3>6 DEF OldFirst, OldFrom, Old, OldBuffer, InHand
  <2>3. CASE PopStatus(queue) # "Packet"
    <3>1. pc' = "Loop" BY <1>12, <2>3 DEF PopPacket
    <3> QED BY <1>2, <1>5, <2>1, <3>1
  <2> QED BY <2>2, <2>3
<1>13. CASE SendPacket
  <2>1. /\ UNCHANGED <<pcm, dx>> /\ pc = "Send" /\ pc' \notin {"Push", "Append", "Send"}
        /\ codec' = codec \/ codec' = Append(codec, packet)
    <3>1. CASE packet.p \in Corrupt BY <1>13, <3>1 DEF SendPacket
    <3>2. CASE packet.p \notin Corrupt BY <1>13, <3>2 DEF SendPacket
    <3> QED BY <3>1, <3>2
  <2>2. CASE codec' = codec BY <1>2, <1>5, <2>1, <2>2
  <2>3. CASE codec' = Append(codec, packet)
    <3> DEFINE n == Len(codec)
    <3>1. /\ n \in Nat /\ DOMAIN codec = 1 .. n /\ DOMAIN codec' = 1 .. n + 1
          /\ \A i \in 1 .. n : codec'[i] = codec[i]
          /\ codec'[n + 1] = packet
      BY <1>0, <2>3
    <3> HIDE DEF n
    <3>2. \A i \in 1 .. n + 1 : i \in 1 .. n \/ i = n + 1 BY <3>1
    <3>3. \A i \in 1 .. n + 1 : \A j \in 1 .. i : j = n + 1 \/ j \in 1 .. n BY <3>1
    <3>4. \A i \in 1 .. n : \A j \in 1 .. i : j \in 1 .. n BY <3>1
    <3>5. Current' = Current /\ pcm' = pcm /\ ~InHand' /\ pc' # "Send" BY <1>5, <2>1 DEF InHand
    <3>6. \A i \in 1 .. n + 1 : Old(codec'[i].e) =>
            OldBuffer /\ \A j \in 1 .. i : Old(codec'[j].e)
      <4>1. CASE Old(packet.e)
        <5>1. OldBuffer /\ \A j \in 1 .. n : Old(codec[j].e) BY <2>1, <3>1, <4>1 DEF OldFirst
        <5>2. \A j \in 1 .. n + 1 : Old(codec'[j].e) BY <3>1, <3>2, <4>1, <5>1
        <5> QED BY <3>1, <3>3, <5>1, <5>2
      <4>2. CASE ~Old(packet.e)
        BY <3>1, <3>2, <3>4, <4>2 DEF OldFirst
      <4> QED BY <4>1, <4>2
    <3>7. OldFirst' BY <3>1, <3>5, <3>6 DEF OldFirst, OldBuffer, Old
    <3>8. OldFrom(p)' BY <2>1, <3>1, <3>2, <3>5 DEF OldFrom, Old
    <3> QED BY <3>7, <3>8
  <2> QED BY <2>1, <2>2, <2>3
<1>14. CASE ReceiveFrame
  <2>1. /\ chunk' = Chunk(PacketFrames, PacketPts(Head(codec).p), Head(codec).p, Head(codec).e)
        /\ codec' = Tail(codec) /\ codec # <<>> /\ pc' = "Push"
        /\ UNCHANGED <<dx, pcm>>
    BY <1>14 DEF ReceiveFrame
  <2> DEFINE n == Len(codec)
  <2>2. /\ n \in Nat /\ DOMAIN codec = 1 .. n /\ 1 \in 1 .. n /\ Head(codec) = codec[1]
        /\ DOMAIN codec' = 1 .. n - 1 /\ \A i \in 1 .. n - 1 : codec'[i] = codec[i + 1]
    BY <1>0, <2>1
  <2>3. chunk'.epoch = codec[1].e /\ chunk'.packet = codec[1].p BY <2>1, <2>2 DEF Chunk
  <2> HIDE DEF n
  <2>4. \A i \in 1 .. n - 1 : /\ i + 1 \in 1 .. n /\ 1 \in 1 .. i + 1
                              /\ \A j \in 1 .. i : j \in 1 .. n - 1 /\ j + 1 \in 1 .. i + 1
    <3> SUFFICES ASSUME NEW i \in 1 .. n - 1
                 PROVE  /\ i + 1 \in 1 .. n /\ 1 \in 1 .. i + 1
                        /\ \A j \in 1 .. i : j \in 1 .. n - 1 /\ j + 1 \in 1 .. i + 1
      OBVIOUS
    <3> QED BY <2>2
  <2>5. Current' = Current /\ InHand' /\ pc' # "Send" BY <1>5, <2>1 DEF InHand
  <2>7. OldBuffer' <=> OldBuffer BY <2>1, <2>5 DEF OldBuffer, Old
  <2>8. Old(chunk'.epoch) => OldBuffer' BY <2>2, <2>3, <2>7 DEF OldFirst
  <2>9. \A i \in DOMAIN codec' : Old(codec'[i].e) =>
          /\ OldBuffer'
          /\ Old(chunk'.epoch)
          /\ \A j \in 1 .. i : Old(codec'[j].e)
    <3> SUFFICES ASSUME NEW i \in 1 .. n - 1, Old(codec'[i].e)
                 PROVE  OldBuffer' /\ Old(chunk'.epoch) /\ \A j \in 1 .. i : Old(codec'[j].e)
      BY <2>2
    <3>1. Old(codec[i + 1].e) BY <2>2
    <3>2. OldBuffer /\ \A j \in 1 .. i + 1 : Old(codec[j].e) BY <2>2, <2>4, <3>1 DEF OldFirst
    <3> QED BY <2>2, <2>3, <2>4, <2>7, <3>2
  <2>10. OldFirst' BY <2>1, <2>5, <2>8, <2>9 DEF OldFirst, Old
  <2>11. OldFrom(p)' BY <2>1, <2>2, <2>3, <2>4, <2>5 DEF OldFrom, Old
  <2> QED BY <2>10, <2>11
<1>15. CASE PushEnter
  <2> DEFINE a == AlignAfterSeek(pcm, chunk)
  <2>1. /\ a.buf.serial = pcm.serial
        /\ IsChunk(a.chunk) /\ a.chunk.packet = chunk.packet /\ a.chunk.epoch = chunk.epoch
        /\ \/ a.buf.chunks = pcm.chunks
           \/ \E q : /\ IsChunk(q) /\ q.packet = Silence /\ q.epoch = chunk.epoch
                     /\ a.buf.chunks = Append(pcm.chunks, q)
    BY <1>0, Aligned
  <2>2. CappedChunk(a.chunk).packet = chunk.packet /\ CappedChunk(a.chunk).epoch = chunk.epoch
    BY <2>1, Capped
  <2> HIDE DEF a
  <2>3. UNCHANGED <<dx, codec>> /\ InHand BY <1>15 DEF PushEnter, InHand
  <2>4. CASE pcm' = pcm /\ pc' = "Receive" BY <1>2, <1>5, <2>3, <2>4
  <2>5. CASE pcm' = a.buf /\ (\/ pc' = "Append" /\ chunk' = CappedChunk(a.chunk)
                              \/ pc' = "Receive")
    <3>1. Current' = Current BY <2>1, <2>3, <2>5 DEF Current
    <3>2. pc' # "Send" /\ (InHand' => chunk'.epoch = chunk.epoch /\ chunk'.packet = chunk.packet)
      BY <2>2, <2>5 DEF InHand
    <3>3. \/ pcm'.chunks = pcm.chunks
          \/ \E q : /\ IsChunk(q) /\ q.epoch = chunk.epoch
                    /\ q.packet \in {Silence, chunk.packet}
                    /\ pcm'.chunks = Append(pcm.chunks, q)
      BY <2>1, <2>5
    <3> QED BY <1>4, <2>3, <3>1, <3>2, <3>3
  <2>6. \/ pcm' = pcm /\ pc' = "Receive"
        \/ pcm' = a.buf /\ (\/ pc' = "Append" /\ chunk' = CappedChunk(a.chunk)
                            \/ pc' = "Receive")
    BY <1>15 DEF PushEnter, a
  <2> QED BY <2>4, <2>5, <2>6
<1>16. CASE PushAppend
  <2>1. /\ UNCHANGED <<dx, codec>> /\ InHand /\ pc' = "Receive"
        /\ pcm' = pcm \/ pcm' = AppendChunk(pcm, chunk)
    BY <1>16 DEF PushAppend, InHand
  <2>2. CASE pcm' = pcm BY <1>2, <1>5, <2>1, <2>2
  <2>3. CASE pcm' = AppendChunk(pcm, chunk)
    <3>1. pcm'.serial = pcm.serial /\ pcm'.chunks = Append(pcm.chunks, chunk)
      BY <1>0, <2>3, AppendedChunk
    <3>2. Current' = Current BY <2>1, <3>1 DEF Current
    <3>3. ~InHand' /\ pc' # "Send" BY <2>1 DEF InHand
    <3>4. \E q : /\ IsChunk(q) /\ q.epoch = chunk.epoch
                 /\ q.packet \in {Silence, chunk.packet}
                 /\ pcm'.chunks = Append(pcm.chunks, q)
      BY <1>0, <3>1
    <3> QED BY <1>4, <2>1, <3>2, <3>3, <3>4
  <2> QED BY <2>1, <2>2, <2>3
<1>17. CASE Render
  <2>1. pcm' = TakeFrames(pcm, DeviceFrames) /\ UNCHANGED <<dx, codec, chunk, packet, pc>>
    BY <1>17 DEF Render
  <2>2. /\ pcm'.serial = pcm.serial /\ IsBuffer(pcm')
        /\ \E n \in Nat : \A k \in DOMAIN pcm'.chunks :
             /\ k \in Nat /\ k + n \in DOMAIN pcm.chunks
             /\ pcm'.chunks[k].packet = pcm.chunks[k + n].packet
             /\ pcm'.chunks[k].epoch = pcm.chunks[k + n].epoch
    <3> DEFINE a == TakeFrames(pcm, DeviceFrames)
    <3>1. /\ a.serial = pcm.serial /\ IsBuffer(a)
          /\ \E n \in Nat : \A k \in DOMAIN a.chunks :
               /\ k \in Nat /\ k + n \in DOMAIN pcm.chunks
               /\ a.chunks[k].packet = pcm.chunks[k + n].packet
               /\ a.chunks[k].epoch = pcm.chunks[k + n].epoch
      BY <1>0, TakenAway
    <3>2. pcm' = a BY <2>1
    <3> HIDE DEF a
    <3> QED BY <3>1, <3>2
  <2>3. PICK n \in Nat : \A k \in DOMAIN pcm'.chunks :
             /\ k \in Nat /\ k + n \in DOMAIN pcm.chunks
             /\ pcm'.chunks[k].packet = pcm.chunks[k + n].packet
             /\ pcm'.chunks[k].epoch = pcm.chunks[k + n].epoch
    BY <2>2
  <2>4. Current' = Current BY <2>1, <2>2 DEF Current
  <2>6. OldBuffer => OldBuffer' BY <2>3, <2>4 DEF OldBuffer, Old
  <2>7. \A k \in DOMAIN pcm'.chunks : \A j \in 1 .. k :
          j \in DOMAIN pcm'.chunks /\ j + n \in 1 .. k + n
    <3>1. DOMAIN pcm'.chunks = 1 .. Len(pcm'.chunks) /\ Len(pcm'.chunks) \in Nat
      BY <2>2 DEF IsBuffer, IsChunks
    <3> SUFFICES ASSUME NEW k \in 1 .. Len(pcm'.chunks), NEW j \in 1 .. k
                 PROVE  j \in 1 .. Len(pcm'.chunks) /\ j + n \in 1 .. k + n
      BY <3>1
    <3> QED BY <3>1
  <2>8. \A k \in DOMAIN pcm'.chunks : Old(pcm'.chunks[k].epoch) =>
          \A j \in 1 .. k : Old(pcm'.chunks[j].epoch)
    BY <2>3, <2>7 DEF OldFirst
  <2>9. OldFirst' BY <2>1, <2>4, <2>6, <2>8 DEF OldFirst, Old, InHand
  <2>10. OldFrom(p)' BY <2>1, <2>3, <2>4 DEF OldFrom, Old, InHand
  <2> QED BY <2>9, <2>10
<1>18. CASE StopAbortBuffer
  <2>1. pcm' = AbortBuffer(pcm) /\ UNCHANGED <<dx, codec, chunk, packet, pc>>
    BY <1>18 DEF StopAbortBuffer
  <2>2. pcm'.chunks = <<>> /\ pcm'.serial = pcm.serial BY <1>0, <2>1, Emptied
  <2>3. Current' = Current BY <2>1, <2>2 DEF Current
  <2> QED BY <1>3, <2>1, <2>2, <2>3
<1> QED BY <1>6, <1>7, <1>8, <1>9, <1>10, <1>11, <1>12, <1>13, <1>14, <1>15, <1>16, <1>17, <1>18
     DEF Next, Demux, Decode, Engine

(* While a seek waits for its answer nothing is said; the answer empties   *)
(* codec and buffer, and leaves the packet in hand at most.                *)
LEMMA OneOldStep ==
  ASSUME Typed, Counted, QueueFresh, OneOld, Next
  PROVE  OneOld'
<1>1. CASE seekPending' BY <1>1 DEF OneOld
<1>2. CASE ~seekPending /\ ~seekPending'
  <2>1. PICK p \in Nat : OldFirst /\ OldFrom(p) BY <1>2 DEF OneOld
  <2>2. OldFirst' /\ OldFrom(p)' BY <1>2, <2>1, OldStep
  <2> QED BY <2>2 DEF OneOld
<1>3. CASE seekPending /\ ~seekPending'
  <2>0. IsBuffer(pcm) /\ packet \in Packets BY DEF Typed
  <2>1. \/ LoopFlush
        \/ SendPacket
    BY <1>3
       DEF Next, Demux, Decode, Engine, ReadPacket, ReadEof, SeekInput, NotifyUnregistered,
           NotifyPending, NotifyBegin, LoopEnd, PopPacket, ReceiveEnd, ReceiveFrame, PushEnter,
           PushAppend, Render, SetPaused, Unregister, StopRunning, StopAbortQueue,
           StopAbortBuffer, StopJoin
  <2>2. CASE LoopFlush
    <3>1. codec' = <<>> /\ pcm' = FlushBuffer(pcm) /\ pc' = "Pop" BY <1>3, <2>2 DEF LoopFlush
    <3>2. pcm'.chunks = <<>> BY <2>0, <3>1, Emptied
    <3>3. OldFirst' /\ OldFrom(0)' BY <3>1, <3>2 DEF OldFirst, OldFrom, InHand
    <3> QED BY <3>3 DEF OneOld
  <2>3. CASE SendPacket
    <3>1. pcm' = FlushBuffer(pcm) BY <1>3, <2>3 DEF SendPacket
    <3>2. pc' \in {"Loop", "Receive"} /\ (codec' = <<>> \/ codec' = <<packet>>)
      <4>1. CASE packet.p \in Corrupt BY <1>3, <2>3, <4>1 DEF SendPacket
      <4>2. CASE packet.p \notin Corrupt BY <1>3, <2>3, <4>2 DEF SendPacket
      <4> QED BY <4>1, <4>2
    <3>3. pcm'.chunks = <<>> BY <2>0, <3>1, Emptied
    <3>4. packet.p \in Nat BY <2>0 DEF Packets
    <3>5. \A k \in DOMAIN codec' : codec'[k] = packet /\ \A j \in 1 .. k : codec'[j] = packet
      BY <3>2
    <3>6. OldFirst' BY <3>2, <3>3, <3>5 DEF OldFirst, OldBuffer, InHand, Old
    <3>7. \E p \in Nat : OldFrom(p)' BY <3>2, <3>3, <3>4, <3>5 DEF OldFrom, InHand
    <3> QED BY <3>6, <3>7 DEF OneOld
  <2> QED BY <2>1, <2>2, <2>3
<1> QED BY <1>1, <1>2, <1>3
-----------------------------------------------------------------------------
IInv == Typed /\ Counted /\ QueueFresh /\ OneOld

LEMMA Begins == Init => IInv
<1> SUFFICES ASSUME Init PROVE IInv OBVIOUS
<1>1. Typed BY TypedInit
<1>2. /\ dx = "Loop" /\ seeks = 0 /\ queue.items = <<>> /\ pc = "Loop" /\ codec = <<>>
      /\ pcm.chunks = <<>> /\ pcm.serial = 0
  BY DEF Init, NewQueue, NewBuffer
<1>3. Counted BY <1>2 DEF Counted, Current
<1>4. QueueFresh BY <1>2 DEF QueueFresh
<1>5. OldFirst /\ OldFrom(0) BY <1>2 DEF OldFirst, OldFrom, InHand
<1> QED BY <1>1, <1>3, <1>4, <1>5 DEF IInv, OneOld

LEMMA Stutters == IInv /\ UNCHANGED vars => IInv'
BY DEF IInv, Typed, Counted, QueueFresh, OneOld, OldFirst, OldFrom, OldBuffer, Old, InHand, Current,
       vars, demuxVars, decodeVars, engineVars

(* A set of positions which has all positions before each of its own is a  *)
(* beginning of the sequence, as long as the set is large.                 *)
LEMMA Beginning ==
  ASSUME NEW n \in Nat, NEW S \in SUBSET (1 .. n), \A k \in S : 1 .. k \subseteq S
  PROVE  S \subseteq 1 .. Cardinality(S)
<1>1. CASE S = 1 .. n
  <2>1. Cardinality(1 .. n) = n BY FS_Interval
  <2> QED BY <1>1, <2>1
<1>2. CASE S # 1 .. n
  <2> DEFINE T == (1 .. n) \ S
  <2>1. T # {} /\ T \in SUBSET Nat
    <3>1. S \subseteq 1 .. n OBVIOUS
    <3>2. \E k \in 1 .. n : k \notin S BY <1>2, <3>1
    <3>3. 1 .. n \subseteq Nat OBVIOUS
    <3> QED BY <3>2, <3>3
  <2>2. \E m \in T : \A j \in T : ~ (<<j, m>> \in OpToRel(<, Nat))
    BY <2>1, NatLessThanWellFounded, WFMin, Zenon
  <2>3. \A m, j \in T : <<j, m>> \in OpToRel(<, Nat) <=> j < m BY <2>1, Zenon DEF OpToRel
  <2>4. \E m \in T : \A j \in T : ~ (j < m) BY <2>2, <2>3, Zenon
  <2>5. PICK m \in T : \A j \in T : ~ (j < m) BY <2>4
  <2>6. m \in 1 .. n /\ m \notin S OBVIOUS
  <2>7. \A k \in S : k < m
    <3> SUFFICES ASSUME NEW k \in S, ~ (k < m) PROVE FALSE OBVIOUS
    <3>1. k \in 1 .. n OBVIOUS
    <3>2. m \in 1 .. k BY <2>6, <3>1
    <3> QED BY <2>6, <3>2
  <2>8. \A k \in 1 .. n : k < m => k \in S BY <2>1, <2>5
  <2>9. S = 1 .. m - 1
    <3>1. \A k \in S : k \in 1 .. m - 1 BY <2>6, <2>7
    <3>2. \A k \in 1 .. m - 1 : k \in 1 .. n /\ k < m BY <2>6
    <3> QED BY <2>8, <3>1, <3>2
  <2>10. Cardinality(1 .. m - 1) = m - 1
    <3>1. m - 1 \in Nat BY <2>6
    <3> HIDE DEF T
    <3>2. \A a, b \in Int : Cardinality(a .. b) = IF a > b THEN 0 ELSE b - a + 1 BY FS_Interval
    <3> QED BY <3>1, <3>2
  <2> QED BY <2>9, <2>10
<1> QED BY <1>1, <1>2

LEMMA OneStale == IInv => OneStalePacket
<1> SUFFICES ASSUME IInv, ~seekPending, dx = "Loop"
             PROVE  /\ Cardinality(StalePackets) <= 1
                    /\ StaleChunks \subseteq 1 .. Cardinality(StaleChunks)
  BY DEF OneStalePacket
<1>1. /\ Len(pcm.chunks) \in Nat /\ DOMAIN pcm.chunks = 1 .. Len(pcm.chunks)
  BY DEF IInv, Typed, IsBuffer, IsChunks
<1>2. Current = pcm.serial BY DEF Current
<1>3. OldFirst /\ \E p \in Nat : OldFrom(p) BY DEF IInv, OneOld
<1>4. PICK p \in Nat : OldFrom(p) BY <1>3
<1>5. Cardinality(StalePackets) <= 1
  <2>1. StalePackets \in SUBSET {p}
    BY <1>1, <1>2, <1>4 DEF StalePackets, StaleChunks, OldFrom, Old
  <2>2. StalePackets = {} \/ StalePackets = {p} BY <2>1
  <2>3. Cardinality({}) = 0 /\ Cardinality({p}) = 1 BY FS_EmptySet, FS_Singleton
  <2> QED BY <2>2, <2>3
<1>6. StaleChunks \subseteq 1 .. Cardinality(StaleChunks)
  <2> DEFINE n == Len(pcm.chunks)
  <2>1. n \in Nat /\ StaleChunks \in SUBSET (1 .. n) BY <1>1 DEF StaleChunks
  <2>2. \A k \in StaleChunks : 1 .. k \subseteq StaleChunks
    <3> SUFFICES ASSUME NEW k \in StaleChunks, NEW j \in 1 .. k PROVE j \in StaleChunks
      OBVIOUS
    <3>1. k \in 1 .. n /\ Old(pcm.chunks[k].epoch) BY <1>2 DEF StaleChunks, Old
    <3>2. Old(pcm.chunks[j].epoch) BY <1>1, <1>3, <3>1 DEF OldFirst
    <3>3. j \in 1 .. n BY <1>1, <3>1
    <3> QED BY <1>2, <3>2, <3>3 DEF StaleChunks, Old
  <2> HIDE DEF n
  <2> QED BY <2>1, <2>2, Beginning
<1> QED BY <1>5, <1>6

(* OneStalePacket, of AudioDecodeThread::notify_seek, receive_frames and   *)
(* PcmBuffer: whatever the file, the queue and the buffer, and however     *)
(* often seeks, pauses and the removal of the track come in between.       *)
THEOREM OneStaleCorrect == Spec => []OneStalePacket
<1>1. IInv /\ [Next]_vars => IInv'
  <2>1. CASE Next BY <2>1, TypedStep, CountedStep, OneOldStep DEF IInv
  <2>2. CASE UNCHANGED vars BY <2>2, Stutters
  <2> QED BY <2>1, <2>2
<1> QED BY <1>1, Begins, OneStale, PTL DEF Spec
-----------------------------------------------------------------------------
(* The conversions, both of which round, and the sums of chunks.           *)

LEMMA Divided ==
  ASSUME NEW x \in Int, NEW u \in Nat \ {0}
  PROVE  /\ x \div u \in Int /\ u * (x \div u) <= x /\ x < u * (x \div u) + u
         /\ x >= 0 => x \div u \in Nat
OBVIOUS

LEMMA DividedLess ==
  ASSUME NEW x \in Int, NEW y \in Int, NEW u \in Nat \ {0}, x <= y
  PROVE  x \div u <= y \div u
OBVIOUS

LEMMA LessTimes ==
  ASSUME NEW a \in Int, NEW b \in Int, NEW u \in Nat \ {0}, u * a < u * b + u
  PROVE  a <= b
OBVIOUS

LEMMA ToUs ==
  /\ \A n \in Nat : FramesToUs(n) \in Nat
  /\ \A a, b \in Nat : FramesToUs(a) + FramesToUs(b) <= FramesToUs(a + b)
<1>0. FramesOf \in Nat \ {0} /\ UsOf \in Nat \ {0} BY PcmAssumption
<1>1. ASSUME NEW n \in Nat PROVE FramesToUs(n) \in Nat
  <2>1. n * UsOf \in Nat BY <1>0
  <2> QED BY <1>0, <2>1, Divided DEF FramesToUs
<1>2. ASSUME NEW a \in Nat, NEW b \in Nat
      PROVE  FramesToUs(a) + FramesToUs(b) <= FramesToUs(a + b)
  <2> DEFINE x == a * UsOf
             y == b * UsOf
             p == x \div FramesOf
             q == y \div FramesOf
             r == (x + y) \div FramesOf
  <2>1. x \in Nat /\ y \in Nat /\ (a + b) * UsOf = x + y BY <1>0
  <2>2. FramesToUs(a) = p /\ FramesToUs(b) = q /\ FramesToUs(a + b) = r
    BY <2>1 DEF FramesToUs
  <2> HIDE DEF x, y
  <2>3. /\ p \in Int /\ FramesOf * p <= x
        /\ q \in Int /\ FramesOf * q <= y
        /\ r \in Int /\ x + y < FramesOf * r + FramesOf
    BY <1>0, <2>1, Divided
  <2> HIDE DEF p, q, r
  <2>4. FramesOf * (p + q) = FramesOf * p + FramesOf * q BY <1>0, <2>3
  <2>5. FramesOf * (p + q) < FramesOf * r + FramesOf
    <3>1. FramesOf * p \in Int /\ FramesOf * q \in Int /\ FramesOf * r \in Int
      BY <1>0, <2>3
    <3> QED BY <1>0, <2>1, <2>3, <2>4, <3>1
  <2>6. p + q <= r BY <1>0, <2>3, <2>5, LessTimes
  <2> QED BY <2>2, <2>6
<1> QED BY <1>1, <1>2

(* The samples of a time last at least so long, and less than one more.    *)
LEMMA ToFrames ==
  /\ \A us \in Int : UsToFrames(us) \in Nat
  /\ \A us, most \in Int : us <= most => UsToFrames(us) <= UsToFrames(most)
  /\ \A us \in Int : us > 0 =>
       /\ FramesToUs(UsToFrames(us)) >= us
       /\ (FramesToUs(UsToFrames(us)) - us) * FramesOf < UsOf
<1>0. FramesOf \in Nat \ {0} /\ UsOf \in Nat \ {0} BY PcmAssumption
<1> DEFINE x(us) == us * FramesOf + UsOf - 1
<1>1. \A us \in Int : us * FramesOf \in Int /\ x(us) \in Int BY <1>0
<1>2. \A us \in Int : us > 0 => us * FramesOf >= 0 /\ x(us) >= 0 BY <1>0
<1>3. \A us \in Int : UsToFrames(us) = IF us <= 0 THEN 0 ELSE x(us) \div UsOf
  BY DEF UsToFrames
<1>4. \A us, most \in Int : us <= most => x(us) <= x(most) BY <1>0
<1> HIDE DEF x
<1>5. ASSUME NEW us \in Int PROVE UsToFrames(us) \in Nat
  BY <1>0, <1>1, <1>2, <1>3, Divided
<1>6. ASSUME NEW us \in Int, NEW most \in Int, us <= most
      PROVE  UsToFrames(us) <= UsToFrames(most)
  <2>1. CASE us <= 0 BY <1>3, <1>5, <2>1
  <2>2. CASE us > 0
    <3>1. x(us) \div UsOf <= x(most) \div UsOf BY <1>0, <1>1, <1>4, <1>6, DividedLess
    <3> QED BY <1>3, <1>6, <2>2, <3>1
  <2> QED BY <2>1, <2>2
<1>7. ASSUME NEW us \in Int, us > 0
      PROVE  /\ FramesToUs(UsToFrames(us)) >= us
             /\ (FramesToUs(UsToFrames(us)) - us) * FramesOf < UsOf
  <2> DEFINE n == UsToFrames(us)
             y == n * UsOf
             t == y \div FramesOf
             z == us * FramesOf
  <2>1. n \in Nat /\ n = x(us) \div UsOf BY <1>3, <1>5, <1>7
  <2>2. UsOf * n <= x(us) /\ x(us) < UsOf * n + UsOf BY <1>0, <1>1, <2>1, Divided
  <2>3. FramesToUs(n) = t BY DEF FramesToUs
  <2> HIDE DEF n
  <2>4. y \in Nat /\ y = UsOf * n BY <1>0, <2>1
  <2> HIDE DEF y
  <2>5. t \in Int /\ FramesOf * t <= y /\ y < FramesOf * t + FramesOf
    <3>1. y \in Int BY <2>4
    <3> QED BY <1>0, <3>1, Divided, Zenon
  <2> HIDE DEF t
  <2>6. z \in Int /\ z = FramesOf * us /\ x(us) = z + UsOf - 1 BY <1>0, <1>1 DEF x
  <2> HIDE DEF z
  <2>7. z <= y /\ y <= z + UsOf - 1 BY <1>0, <2>2, <2>4, <2>6
  <2>8. FramesOf * t \in Int /\ FramesOf * us < FramesOf * t + FramesOf
    BY <1>0, <2>5, <2>6, <2>7, <2>4
  <2>9. us <= t BY <1>0, <2>5, <2>8, LessTimes
  <2>10. (t - us) * FramesOf = FramesOf * t - FramesOf * us BY <1>0, <2>5
  <2>11. (t - us) * FramesOf < UsOf BY <1>0, <2>4, <2>5, <2>6, <2>7, <2>8, <2>10
  <2> QED BY <2>3, <2>9, <2>11 DEF n
<1> QED BY <1>5, <1>6, <1>7

IsSum(f, s, n) == f = [k \in 0 .. n |-> IF k = 0 THEN 0 ELSE f[k - 1] + s[k].frames]

LEMMA Counting ==
  ASSUME NEW S, 0 \in S, \A n \in Nat : n \in S => n + 1 \in S
  PROVE  \A n \in Nat : n \in S
<1> DEFINE Bad == {n \in Nat : n \notin S}
<1>1. SUFFICES ASSUME Bad # {} PROVE FALSE OBVIOUS
<1>2. \E m \in Bad : \A j \in Bad : ~ (<<j, m>> \in OpToRel(<, Nat))
  BY <1>1, NatLessThanWellFounded, WFMin, Zenon
<1>3. \A m, j \in Bad : <<j, m>> \in OpToRel(<, Nat) <=> j < m BY Zenon DEF OpToRel
<1>4. PICK m \in Bad : \A j \in Bad : ~ (j < m) BY <1>2, <1>3, Zenon
<1>5. m \in Nat /\ m \notin S /\ m # 0 OBVIOUS
<1>6. m - 1 \in Nat /\ m - 1 < m /\ m - 1 + 1 = m BY <1>5
<1>7. m - 1 \in S BY <1>4, <1>6
<1> QED BY <1>5, <1>6, <1>7

LEMMA SumIs ==
  ASSUME NEW s, NEW n \in Nat
  PROVE  \E f : IsSum(f, s, n) /\ FramesIn(s, n) = f[n]
<1> DEFINE S == {m \in Nat : \E f : IsSum(f, s, m)}
<1>1. 0 \in S
  <2> DEFINE f == [k \in 0 .. 0 |-> 0]
  <2>1. IsSum(f, s, 0) BY DEF IsSum
  <2> QED BY <2>1
<1>2. ASSUME NEW m \in Nat, m \in S PROVE m + 1 \in S
  <2>1. PICK f : IsSum(f, s, m) BY <1>2
  <2> DEFINE g == [k \in 0 .. m + 1 |-> IF k = m + 1 THEN f[m] + s[m + 1].frames ELSE f[k]]
  <2>2. \A k \in 0 .. m : f[k] = IF k = 0 THEN 0 ELSE f[k - 1] + s[k].frames
    BY <2>1 DEF IsSum
  <2>3. ASSUME NEW k \in 0 .. m + 1
        PROVE  g[k] = IF k = 0 THEN 0 ELSE g[k - 1] + s[k].frames
    <3>1. CASE k = m + 1
      <4>1. k # 0 /\ k - 1 = m /\ m \in 0 .. m + 1 /\ m # m + 1 BY <3>1
      <4>2. g[m] = f[m] BY <4>1
      <4> QED BY <3>1, <4>1, <4>2
    <3>2. CASE k # m + 1
      <4>1. k \in 0 .. m /\ (k # 0 => k - 1 \in 0 .. m) BY <3>2
      <4> QED BY <4>1, <2>2
    <3> QED BY <3>1, <3>2
  <2>4. g = [k \in 0 .. m + 1 |-> g[k]] OBVIOUS
  <2> HIDE DEF g
  <2>5. IsSum(g, s, m + 1) BY <2>3, <2>4 DEF IsSum
  <2> QED BY <2>5
<1>3. n \in S
  <2> HIDE DEF S
  <2> QED BY <1>1, <1>2, Counting
<1> DEFINE F == CHOOSE f : f = [k \in 0 .. n |-> IF k = 0 THEN 0 ELSE f[k - 1] + s[k].frames]
<1>4. \E f : f = [k \in 0 .. n |-> IF k = 0 THEN 0 ELSE f[k - 1] + s[k].frames]
  BY <1>3 DEF IsSum
<1>5. F = [k \in 0 .. n |-> IF k = 0 THEN 0 ELSE F[k - 1] + s[k].frames] BY <1>4, Zenon
<1>6. FramesIn(s, n) = F[n] BY Zenon DEF FramesIn
<1>7. IsSum(F, s, n) BY <1>5, Zenon DEF IsSum
<1> QED BY <1>6, <1>7, Zenon

(* Sums over beginnings of a sequence.                                     *)
LEMMA Sums ==
  ASSUME NEW s
  PROVE  /\ FramesIn(s, 0) = 0
         /\ \A n \in Nat : FramesIn(s, n + 1) = FramesIn(s, n) + s[n + 1].frames
<1>1. FramesIn(s, 0) = 0
  <2>1. PICK f : IsSum(f, s, 0) /\ FramesIn(s, 0) = f[0] BY SumIs
  <2> QED BY <2>1 DEF IsSum
<1>2. ASSUME NEW n \in Nat PROVE FramesIn(s, n + 1) = FramesIn(s, n) + s[n + 1].frames
  <2>1. PICK f : IsSum(f, s, n) /\ FramesIn(s, n) = f[n] BY SumIs
  <2>2. n + 1 \in Nat OBVIOUS
  <2>3. PICK g : IsSum(g, s, n + 1) /\ FramesIn(s, n + 1) = g[n + 1] BY <2>2, SumIs
  <2>4. \A k \in 0 .. n : f[k] = IF k = 0 THEN 0 ELSE f[k - 1] + s[k].frames
    BY <2>1 DEF IsSum
  <2>5. \A k \in 0 .. n + 1 : g[k] = IF k = 0 THEN 0 ELSE g[k - 1] + s[k].frames
    BY <2>3 DEF IsSum
  <2> DEFINE S == {k \in Nat : k <= n => f[k] = g[k]}
  <2>6. 0 \in S BY <2>4, <2>5
  <2>7. ASSUME NEW k \in Nat, k \in S PROVE k + 1 \in S
    <3> SUFFICES ASSUME k + 1 <= n PROVE f[k + 1] = g[k + 1] OBVIOUS
    <3>1. /\ k + 1 \in 0 .. n /\ k + 1 \in 0 .. n + 1 /\ k + 1 # 0 /\ (k + 1) - 1 = k
          /\ k <= n
      OBVIOUS
    <3>2. f[k] = g[k] BY <2>7, <3>1
    <3> QED BY <2>4, <2>5, <3>1, <3>2
  <2> HIDE DEF S
  <2>8. n \in S BY <2>6, <2>7, Counting
  <2>9. f[n] = g[n] BY <2>8 DEF S
  <2>10. n + 1 \in 0 .. n + 1 /\ n + 1 # 0 /\ (n + 1) - 1 = n OBVIOUS
  <2> QED BY <2>1, <2>3, <2>5, <2>9, <2>10
<1> QED BY <1>1, <1>2

(* The end of another sequence, its first chunk perhaps cut.               *)
Whole(s, m) == \A k \in 1 .. m : s[k].frames \in Nat
Shifted(s, t, n, j, m) == \A k \in Nat : j < k /\ k <= m => t[k].frames = s[n + k].frames
Less(s, t, i, j, d) == FramesIn(t, j) = FramesIn(s, i) - d

LEMMA SumsOfEnd ==
  ASSUME NEW s, NEW t, NEW n \in Nat, NEW j \in Nat, NEW m \in Nat, NEW d \in Int, j <= m,
         NEW i, i = n + j, NEW l, l = n + m,
         Whole(s, l), Less(s, t, i, j, d), Shifted(s, t, n, j, m)
  PROVE  Less(s, t, l, m, d)
<1>0. (\A k \in 1 .. n + m : s[k].frames \in Nat) /\ FramesIn(t, j) = FramesIn(s, n + j) - d
  BY DEF Whole, Less
<1> DEFINE S == {k \in Nat : k <= n + m => FramesIn(s, k) \in Nat}
           T == {k \in Nat : j + k <= m => FramesIn(t, j + k) = FramesIn(s, n + j + k) - d}
<1>1. 0 \in S BY Sums
<1>2. ASSUME NEW k \in Nat, k \in S PROVE k + 1 \in S
  <2> SUFFICES ASSUME k + 1 <= n + m PROVE FramesIn(s, k + 1) \in Nat OBVIOUS
  <2>1. FramesIn(s, k) \in Nat /\ s[k + 1].frames \in Nat BY <1>0, <1>2
  <2> QED BY <2>1, Sums
<1>3. \A k \in Nat : k \in S
  <2> HIDE DEF S
  <2> QED BY <1>1, <1>2, Counting
<1>4. 0 \in T
  <2>1. j + 0 = j /\ n + j + 0 = n + j OBVIOUS
  <2> QED BY <1>0, <2>1
<1>5. ASSUME NEW k \in Nat, k \in T PROVE k + 1 \in T
  <2> SUFFICES ASSUME j + (k + 1) <= m
               PROVE  FramesIn(t, j + (k + 1)) = FramesIn(s, n + j + (k + 1)) - d
    OBVIOUS
  <2>1. /\ j + (k + 1) = (j + k) + 1 /\ n + j + (k + 1) = (n + j + k) + 1
        /\ j + k \in Nat /\ n + j + k \in Nat /\ (j + k) + 1 \in Nat
        /\ j < (j + k) + 1 /\ (j + k) + 1 <= m
        /\ n + ((j + k) + 1) = (n + j + k) + 1 /\ n + j + k <= n + m
        /\ (n + j + k) + 1 \in 1 .. n + m
    OBVIOUS
  <2>2. FramesIn(t, j + k) = FramesIn(s, n + j + k) - d BY <1>5
  <2>3. t[(j + k) + 1].frames = s[(n + j + k) + 1].frames BY <2>1 DEF Shifted
  <2>4. FramesIn(s, n + j + k) \in Nat BY <1>3, <2>1
  <2>5. s[(n + j + k) + 1].frames \in Nat BY <1>0, <2>1
  <2>6. FramesIn(t, (j + k) + 1) = FramesIn(t, j + k) + t[(j + k) + 1].frames BY <2>1, Sums
  <2>7. FramesIn(s, (n + j + k) + 1) = FramesIn(s, n + j + k) + s[(n + j + k) + 1].frames
    BY <2>1, Sums
  <2> QED BY <2>1, <2>2, <2>3, <2>4, <2>5, <2>6, <2>7
<1>6. \A k \in Nat : k \in T
  <2> HIDE DEF T
  <2> QED BY <1>4, <1>5, Counting
<1>7. m - j \in Nat /\ j + (m - j) = m /\ n + j + (m - j) = n + m OBVIOUS
<1>8. FramesIn(t, m) = FramesIn(s, n + m) - d BY <1>6, <1>7
<1> QED BY <1>8 DEF Less

LEMMA Intervals == \A n \in Nat : IsFiniteSet(1 .. n) /\ Cardinality(1 .. n) = n
BY FS_Interval
-----------------------------------------------------------------------------
(* What a chunk holds and how long it lasts.                               *)
EndOf(c) == c.pts + FramesToUs(c.frames)
Measured(c) == c.frames \in Nat /\ c.pts \in Nat \union {NoPts}

(* t is c or the end of c.                                                 *)
Cut(t, c) ==
  /\ t.epoch = c.epoch /\ t.frames \in Nat /\ t.frames <= c.frames
  /\ c.pts = NoPts => t.pts = NoPts
  /\ c.pts # NoPts => t.pts \in Nat /\ c.pts <= t.pts /\ EndOf(t) <= EndOf(c)

LEMMA CutSelf ==
  ASSUME NEW c, Measured(c)
  PROVE  Cut(c, c) /\ (c.pts # NoPts => EndOf(c) \in Nat /\ c.pts <= EndOf(c) /\ c.pts \in Nat)
<1>1. c.frames \in Nat /\ (c.pts # NoPts => c.pts \in Nat) BY DEF Measured
<1>2. FramesToUs(c.frames) \in Nat BY <1>1, ToUs
<1> QED BY <1>1, <1>2 DEF Cut, EndOf

LEMMA CutMeasured ==
  ASSUME NEW t, NEW c, Cut(t, c)
  PROVE  Measured(t)
BY DEF Cut, Measured

LEMMA TrimmedCut ==
  ASSUME NEW c, IsChunk(c), Measured(c), NEW n \in Nat, n <= c.frames
  PROVE  /\ Cut(TrimmedFront(c, n), c) /\ TrimmedFront(c, n).frames = c.frames - n
         /\ c.pts # NoPts => TrimmedFront(c, n).pts = c.pts + FramesToUs(n)
<1> DEFINE fr == c.frames - n
           pt == IF c.pts = NoPts THEN NoPts ELSE c.pts + FramesToUs(n)
           t  == TrimmedFront(c, n)
<1>1. c = [frames |-> c.frames, pts |-> c.pts, packet |-> c.packet, epoch |-> c.epoch]
  BY DEF IsChunk
<1>2. t = [c EXCEPT !.frames = fr, !.pts = pt] BY DEF TrimmedFront
<1> HIDE DEF t
<1>3. t = [frames |-> fr, pts |-> pt, packet |-> c.packet, epoch |-> c.epoch] BY <1>1, <1>2
<1>4. t.frames = fr /\ t.pts = pt /\ t.epoch = c.epoch BY <1>3
<1>5. c.frames \in Nat /\ (c.pts # NoPts => c.pts \in Nat) BY DEF Measured
<1>6. fr \in Nat /\ fr <= c.frames /\ n + fr = c.frames BY <1>5
<1>7. /\ FramesToUs(n) \in Nat /\ FramesToUs(fr) \in Nat /\ FramesToUs(c.frames) \in Nat
      /\ FramesToUs(n) + FramesToUs(fr) <= FramesToUs(c.frames)
  BY <1>5, <1>6, ToUs
<1>8. c.pts # NoPts => pt \in Nat /\ c.pts <= pt /\ pt = c.pts + FramesToUs(n) BY <1>5, <1>7
<1>9. c.pts # NoPts => EndOf(t) <= EndOf(c) BY <1>4, <1>5, <1>7, <1>8 DEF EndOf
<1>10. c.pts = NoPts => pt = NoPts OBVIOUS
<1> HIDE DEF fr, pt
<1> QED BY <1>4, <1>6, <1>8, <1>9, <1>10 DEF Cut, t, fr

(* A packet's chunk with a part of it missing ends where it did.           *)
LEMMA PrefixCut ==
  ASSUME NEW c, IsChunk(c), Measured(c), NEW target \in Nat, c.pts # NoPts,
         c.pts < target, target < EndOf(c)
  PROVE  /\ Cut(WithoutPrefix(c, target), c) /\ WithoutPrefix(c, target).pts >= target
         /\ WithoutPrefix(c, target).pts # NoPts
<1> DEFINE n == UsToFrames(target - c.pts)
           m == IF n < c.frames THEN n ELSE c.frames
<1>1. c.frames \in Nat /\ c.pts \in Nat BY DEF Measured
<1>2. target - c.pts \in Int /\ target - c.pts > 0 BY <1>1
<1>3. n \in Nat /\ FramesToUs(n) >= target - c.pts BY <1>2, ToFrames
<1> HIDE DEF n
<1>4. m \in Nat /\ m <= c.frames /\ (m = n \/ m = c.frames) BY <1>1, <1>3
<1>5. WithoutPrefix(c, target) = TrimmedFront(c, m) BY DEF WithoutPrefix, n
<1> HIDE DEF m
<1>6. /\ Cut(TrimmedFront(c, m), c)
      /\ TrimmedFront(c, m).pts = c.pts + FramesToUs(m)
  BY <1>4, TrimmedCut
<1>7. FramesToUs(m) \in Nat /\ FramesToUs(n) \in Nat /\ FramesToUs(c.frames) \in Nat
  BY <1>1, <1>3, <1>4, ToUs
<1>8. c.pts + FramesToUs(m) >= target BY <1>1, <1>3, <1>4, <1>7 DEF EndOf
<1>9. NoPts < 0 /\ NoPts \in Int BY PcmAssumption
<1>10. c.pts + FramesToUs(m) # NoPts BY <1>1, <1>7, <1>9
<1> QED BY <1>5, <1>6, <1>8, <1>10

(* The silence put before a chunk lasts to the chunk's begin, or less than *)
(* a frame longer.                                                         *)
Before(q, c, target) ==
  /\ IsChunk(q) /\ q.epoch = c.epoch /\ q.pts = target
  /\ q.frames \in Nat /\ q.frames <= UsToFrames(SmallSeekGapUs)
  /\ EndOf(q) \in Nat /\ (EndOf(q) - c.pts) * FramesOf < UsOf

Untimed(c) == c.pts = NoPts \/ FramesToUs(c.frames) = 0

(* align_after_seek_locked, case by case.                                  *)
Aligning(b, c, a) ==
  \/ ~b.aligning /\ a.buf = b /\ a.chunk = c /\ a.keep
  \/ /\ b.aligning /\ Untimed(c) /\ a.chunk = c /\ a.keep
     /\ ~a.buf.aligning /\ a.buf.alignedBy = b.alignedBy
     /\ a.buf.chunks = b.chunks /\ a.buf.queued = b.queued
  \/ b.aligning /\ a.buf = b /\ ~a.keep
  \/ /\ b.aligning /\ c.pts # NoPts /\ c.pts < b.target /\ b.target < EndOf(c)
     /\ Cut(a.chunk, c) /\ a.chunk.pts # NoPts /\ a.chunk.pts >= b.target
     /\ ~a.buf.aligning /\ a.buf.alignedBy = c.epoch
     /\ a.buf.chunks = b.chunks /\ a.buf.queued = b.queued
  \/ /\ b.aligning /\ c.pts # NoPts /\ c.pts >= b.target /\ a.chunk = c /\ a.keep
     /\ ~a.buf.aligning /\ a.buf.alignedBy = c.epoch
     /\ \/ a.buf.chunks = b.chunks /\ a.buf.queued = b.queued
        \/ \E q : /\ Before(q, c, b.target)
                  /\ a.buf.chunks = Append(b.chunks, q) /\ a.buf.queued = b.queued + q.frames

LEMMA AlignedCases ==
  ASSUME NEW b, IsBuffer(b), NEW c, IsChunk(c), Measured(c), b.target \in Nat
  PROVE  LET a == AlignAfterSeek(b, c) IN
         /\ Aligning(b, c, a)
         /\ a.buf.serial = b.serial /\ a.buf.target = b.target /\ a.buf.aborted = b.aborted
<1> DEFINE a == AlignAfterSeek(b, c)
           plain == [b EXCEPT !.aligning = FALSE]
           aligned == [b EXCEPT !.aligning = FALSE, !.alignedBy = c.epoch]
           gap == c.pts - b.target
           trimmed == WithoutPrefix(c, b.target)
           quiet == Chunk(UsToFrames(gap), b.target, Silence, c.epoch)
           near == IF b.exact /\ gap <= SmallSeekGapUs
                   THEN AppendSilence(aligned, UsToFrames(gap), b.target, c.epoch) ELSE aligned
<1>1. /\ ~plain.aligning /\ plain.alignedBy = b.alignedBy /\ plain.chunks = b.chunks
      /\ plain.queued = b.queued /\ plain.serial = b.serial /\ plain.target = b.target
      /\ plain.aborted = b.aborted
  <2>0. plain = [b EXCEPT !.aligning = FALSE] OBVIOUS
  <2> HIDE DEF plain
  <2>1. plain = [chunks |-> b.chunks, queued |-> b.queued, serial |-> b.serial,
                 aborted |-> b.aborted, aligning |-> FALSE, target |-> b.target,
                 exact |-> b.exact, alignedBy |-> b.alignedBy]
    BY <2>0 DEF IsBuffer
  <2> QED BY <2>1
<1>2. /\ ~aligned.aligning /\ aligned.alignedBy = c.epoch /\ aligned.chunks = b.chunks
      /\ aligned.queued = b.queued /\ aligned.serial = b.serial /\ aligned.target = b.target
      /\ aligned.aborted = b.aborted /\ IsBuffer(aligned)
  <2>0. aligned = [b EXCEPT !.aligning = FALSE, !.alignedBy = c.epoch] OBVIOUS
  <2> HIDE DEF aligned
  <2>1. aligned = [chunks |-> b.chunks, queued |-> b.queued, serial |-> b.serial,
                   aborted |-> b.aborted, aligning |-> FALSE, target |-> b.target,
                   exact |-> b.exact, alignedBy |-> c.epoch]
    BY <2>0 DEF IsBuffer
  <2>2. IsBuffer(aligned) BY <2>1 DEF IsBuffer
  <2> QED BY <2>1, <2>2
<1>3. c.frames \in Nat /\ (c.pts # NoPts => c.pts \in Nat) BY DEF Measured
<1>4. IsChunk(quiet) /\ quiet.epoch = c.epoch /\ quiet.pts = b.target
      /\ quiet.frames = UsToFrames(gap)
  BY DEF IsChunk, Chunk, Silence
<1> HIDE DEF plain, aligned, trimmed, quiet
<1>5. ASSUME c.pts # NoPts, ~ (c.pts < b.target)
      PROVE  \/ near = aligned
             \/ near = AppendChunk(aligned, quiet) /\ Before(quiet, c, b.target)
  <2>1. c.pts \in Nat /\ gap \in Nat /\ c.pts >= b.target BY <1>3, <1>5
  <2>2. CASE near # aligned
    <3>1. /\ gap <= SmallSeekGapUs /\ UsToFrames(gap) # 0
          /\ near = AppendChunk(aligned, quiet)
      BY <2>2 DEF AppendSilence, quiet
    <3>2. gap > 0
      <4>1. gap <= 0 => UsToFrames(gap) = 0 BY DEF UsToFrames
      <4> HIDE DEF gap
      <4> QED BY <2>1, <3>1, <4>1
    <3> DEFINE g == UsToFrames(gap)
    <3>3. SmallSeekGapUs \in Int BY PcmAssumption
    <3>4. /\ g \in Nat /\ g <= UsToFrames(SmallSeekGapUs)
          /\ (FramesToUs(g) - gap) * FramesOf < UsOf
      <4> HIDE DEF gap
      <4>1. gap \in Int BY <2>1
      <4> QED BY <2>1, <3>1, <3>2, <3>3, <4>1, ToFrames
    <3> HIDE DEF g
    <3>5. FramesToUs(g) \in Nat BY <3>4, ToUs
    <3>6. EndOf(quiet) = b.target + FramesToUs(g) BY <1>4 DEF EndOf, g
    <3>7. EndOf(quiet) - c.pts = FramesToUs(g) - gap BY <2>1, <3>5, <3>6
    <3>8. EndOf(quiet) \in Nat BY <3>5, <3>6
    <3>9. Before(quiet, c, b.target) BY <1>4, <3>4, <3>7, <3>8 DEF Before, g
    <3> QED BY <3>1, <3>9
  <2> QED BY <2>2
<1>6. /\ AppendChunk(aligned, quiet).chunks = Append(aligned.chunks, quiet)
      /\ AppendChunk(aligned, quiet).queued = aligned.queued + quiet.frames
      /\ SameSeek(AppendChunk(aligned, quiet), aligned)
      /\ AppendChunk(aligned, quiet).aborted = aligned.aborted
  BY <1>2, <1>4, AppendedChunk
<1> DEFINE C1 == ~b.aligning
           C2 == b.aligning /\ Untimed(c)
           C3 == b.aligning /\ ~ Untimed(c) /\ EndOf(c) <= b.target
           C4 == b.aligning /\ ~ Untimed(c) /\ c.pts < b.target /\ b.target < EndOf(c)
           r1 == [buf |-> b, chunk |-> c, keep |-> TRUE]
           r2 == [buf |-> plain, chunk |-> c, keep |-> TRUE]
           r3 == [buf |-> b, chunk |-> c, keep |-> FALSE]
           r4 == [buf |-> aligned, chunk |-> trimmed, keep |-> trimmed.frames > 0]
           r5 == [buf |-> near, chunk |-> c, keep |-> TRUE]
<1>13. a = CASE C1 -> r1 [] C2 -> r2 [] C3 -> r3 [] C4 -> r4 [] OTHER -> r5
  BY Zenon DEF AlignAfterSeek, plain, aligned, trimmed, EndOf, Untimed
<1> HIDE DEF gap, near, a
<1>14. ~ (C3 /\ C4)
  <2>1. CASE ~ Untimed(c)
    <3>1. c.pts \in Nat /\ EndOf(c) \in Nat BY <1>3, <2>1, CutSelf DEF Untimed
    <3> QED BY <3>1
  <2> QED BY <2>1
<1>7. \/ ~b.aligning /\ a.buf = b /\ a.chunk = c /\ a.keep
      \/ b.aligning /\ Untimed(c) /\ a.buf = plain /\ a.chunk = c /\ a.keep
      \/ b.aligning /\ a.buf = b /\ ~a.keep
      \/ /\ b.aligning /\ c.pts # NoPts /\ c.pts < b.target /\ b.target < EndOf(c)
         /\ a.buf = aligned /\ a.chunk = trimmed
      \/ /\ b.aligning /\ ~ Untimed(c) /\ ~ (c.pts < b.target /\ b.target < EndOf(c))
         /\ ~ (EndOf(c) <= b.target)
         /\ a.buf = near /\ a.chunk = c /\ a.keep
  <2> HIDE DEF r1, r2, r3, r4, r5
  <2>1. CASE C1
    <3>1. a = r1 BY <1>13, <1>14, <2>1
    <3> QED BY <2>1, <3>1 DEF r1
  <2>2. CASE C2
    <3>1. a = r2 BY <1>13, <2>2
    <3> QED BY <2>2, <3>1 DEF r2
  <2>3. CASE C3 /\ ~C2
    <3>1. a = r3 BY <1>13, <1>14, <2>3
    <3> QED BY <2>3, <3>1 DEF r3
  <2>4. CASE C4 /\ ~C2
    <3>1. a = r4 BY <1>13, <1>14, <2>4
    <3> QED BY <2>4, <3>1 DEF r4, Untimed
  <2>5. CASE ~C1 /\ ~C2 /\ ~C3 /\ ~C4
    <3>1. a = r5 BY <1>13, <2>5
    <3> QED BY <2>5, <3>1 DEF r5
  <2> QED BY <1>14, <2>1, <2>2, <2>3, <2>4, <2>5
<1> HIDE DEF a
<1>8. CASE ~b.aligning /\ a.buf = b /\ a.chunk = c /\ a.keep
  BY <1>8 DEF Aligning, a
<1>9. CASE b.aligning /\ Untimed(c) /\ a.buf = plain /\ a.chunk = c /\ a.keep
  BY <1>1, <1>9 DEF Aligning, a
<1>10. CASE b.aligning /\ a.buf = b /\ ~a.keep
  BY <1>10 DEF Aligning, a
<1>11. CASE /\ b.aligning /\ c.pts # NoPts /\ c.pts < b.target /\ b.target < EndOf(c)
            /\ a.buf = aligned /\ a.chunk = trimmed
  <2>1. Cut(trimmed, c) /\ trimmed.pts >= b.target /\ trimmed.pts # NoPts
    BY <1>11, PrefixCut DEF trimmed
  <2> QED BY <1>2, <1>11, <2>1 DEF Aligning, a
<1>12. CASE /\ b.aligning /\ ~ Untimed(c) /\ ~ (c.pts < b.target /\ b.target < EndOf(c))
            /\ ~ (EndOf(c) <= b.target) /\ a.buf = near /\ a.chunk = c /\ a.keep
  <2>1. c.pts # NoPts /\ c.pts \in Nat BY <1>3, <1>12 DEF Untimed
  <2>2. EndOf(c) \in Nat BY <2>1, CutSelf
  <2>3. ~ (c.pts < b.target) /\ c.pts >= b.target BY <1>12, <2>1, <2>2
  <2>4. CASE near = aligned
    BY <1>2, <1>12, <2>1, <2>3, <2>4 DEF Aligning, a
  <2>5. CASE near = AppendChunk(aligned, quiet) /\ Before(quiet, c, b.target)
    <3>1. /\ near.chunks = Append(b.chunks, quiet) /\ near.queued = b.queued + quiet.frames
          /\ ~near.aligning /\ near.alignedBy = c.epoch /\ near.serial = b.serial
          /\ near.target = b.target /\ near.aborted = b.aborted
      BY <1>2, <1>6, <2>5 DEF SameSeek
    <3>2. \E q : /\ Before(q, c, b.target)
                 /\ near.chunks = Append(b.chunks, q) /\ near.queued = b.queued + q.frames
      BY <2>5, <3>1
    <3>3. Aligning(b, c, a) BY <1>12, <2>1, <2>3, <3>1, <3>2 DEF Aligning
    <3> QED BY <1>12, <3>1, <3>3 DEF a
  <2> QED BY <1>5, <2>1, <2>3, <2>4, <2>5
<1> QED BY <1>7, <1>8, <1>9, <1>10, <1>11, <1>12

(* The frames of the chunks are counted one chunk at a time, at the end    *)
(* and at the front.                                                       *)
Counts(b) == b.queued = FramesIn(b.chunks, Len(b.chunks)) /\ b.queued \in Nat

AllMeasured(b) == \A k \in DOMAIN b.chunks : Measured(b.chunks[k])

LEMMA AppendedCounts ==
  ASSUME NEW b, IsBuffer(b), AllMeasured(b), Counts(b), NEW c, IsChunk(c), Measured(c),
         NEW a, a.chunks = Append(b.chunks, c), a.queued = b.queued + c.frames
  PROVE  /\ Counts(a) /\ AllMeasured(a)
         /\ Len(b.chunks) \in Nat /\ DOMAIN b.chunks = 1 .. Len(b.chunks)
         /\ DOMAIN a.chunks = 1 .. Len(b.chunks) + 1
         /\ \A k \in DOMAIN b.chunks : a.chunks[k] = b.chunks[k]
         /\ a.chunks[Len(b.chunks) + 1] = c
<1> DEFINE s == b.chunks
           t == a.chunks
           n == Len(s)
<1>1. /\ IsChunks(t) /\ DOMAIN s = 1 .. n /\ n \in Nat /\ DOMAIN t = 1 .. n + 1
      /\ \A k \in DOMAIN s : t[k] = s[k]
      /\ t[n + 1] = c
  BY Appended DEF IsBuffer
<1>2. Len(t) = n + 1
  <2>1. Len(t) \in Nat /\ DOMAIN t = 1 .. Len(t) BY <1>1 DEF IsChunks
  <2> HIDE DEF n
  <2> QED BY <1>1, <2>1
<1>3. b.queued = FramesIn(s, n) /\ b.queued \in Nat BY DEF Counts
<1>4. \A k \in 1 .. n : s[k].frames \in Nat BY <1>1 DEF AllMeasured, Measured
<1> HIDE DEF s, t, n
<1>5. FramesIn(t, n) = FramesIn(s, n)
  <2>1. Shifted(s, t, 0, 0, n)
    <3> SUFFICES ASSUME NEW k \in Nat, 0 < k, k <= n PROVE t[k].frames = s[0 + k].frames
      BY DEF Shifted
    <3>1. k \in 1 .. n /\ 0 + k = k BY <1>1
    <3> QED BY <1>1, <3>1
  <2>2. Less(s, t, 0, 0, 0) /\ Whole(s, n) BY <1>4, Sums DEF Less, Whole
  <2> DEFINE z == 0
  <2>3. /\ n = z + n /\ z = z + z /\ n \in Nat /\ z <= n /\ z \in Nat /\ z \in Int
        /\ Shifted(s, t, z, z, n) /\ Less(s, t, z, z, z)
    BY <1>1, <2>1, <2>2
  <2> HIDE DEF z
  <2>4. Less(s, t, n, n, z) BY <2>2, <2>3, SumsOfEnd
  <2> QED BY <1>3, <2>4 DEF Less, z
<1>6. FramesIn(t, n + 1) = FramesIn(t, n) + t[n + 1].frames BY <1>1, Sums
<1>7. c.frames \in Nat BY DEF Measured
<1>8. a.queued = FramesIn(t, n + 1) /\ a.queued \in Nat BY <1>1, <1>3, <1>5, <1>6, <1>7
<1>9. \A k \in DOMAIN t : Measured(t[k])
  <2>1. \A k \in 1 .. n + 1 : k \in 1 .. n \/ k = n + 1 BY <1>1
  <2> QED BY <1>1, <2>1 DEF AllMeasured, s
<1>10. Counts(a) BY <1>2, <1>8 DEF Counts, t
<1>11. AllMeasured(a) BY <1>9 DEF AllMeasured, t
<1> QED BY <1>1, <1>10, <1>11 DEF s, t, n

(* The chunks that are gone are those that m frames reach beyond.          *)
LEMMA GoneIs ==
  ASSUME NEW s, NEW l \in Nat, l = Len(s), \A k \in 1 .. l : s[k].frames \in Nat, NEW m \in Nat
  PROVE  LET n == Cardinality(Gone(s, m)) IN
         /\ n \in 0 .. l /\ \A k \in 0 .. l : FramesIn(s, k) \in Nat
         /\ FramesIn(s, n) <= m
         /\ n < l => m < FramesIn(s, n + 1) /\ FramesIn(s, n + 1) <= FramesIn(s, l)
<1> DEFINE G == Gone(s, m)
           n == Cardinality(G)
<1>1. /\ FramesIn(s, 0) = 0
      /\ \A k \in Nat : FramesIn(s, k + 1) = FramesIn(s, k) + s[k + 1].frames
  BY Sums
<1>2. ASSUME NEW i \in Nat
      PROVE  \A k \in Nat : i + k <= l /\ (i = 0 \/ FramesIn(s, i) \in Nat) =>
               FramesIn(s, i) <= FramesIn(s, i + k) /\ FramesIn(s, i + k) \in Nat
  <2> DEFINE P(k) == i + k <= l /\ (i = 0 \/ FramesIn(s, i) \in Nat) =>
                       FramesIn(s, i) <= FramesIn(s, i + k) /\ FramesIn(s, i + k) \in Nat
             S == {k \in Nat : P(k)}
  <2>1. 0 \in S
    <3>1. i + 0 = i OBVIOUS
    <3>2. i = 0 \/ FramesIn(s, i) \in Nat => FramesIn(s, i) \in Nat BY <1>1
    <3> SUFFICES ASSUME i = 0 \/ FramesIn(s, i) \in Nat
                 PROVE  FramesIn(s, i) <= FramesIn(s, i + 0) /\ FramesIn(s, i + 0) \in Nat
      OBVIOUS
    <3>3. FramesIn(s, i) \in Nat BY <3>2
    <3> QED BY <3>1, <3>3
  <2>2. ASSUME NEW k \in Nat, k \in S PROVE k + 1 \in S
    <3> SUFFICES ASSUME i + (k + 1) <= l, i = 0 \/ FramesIn(s, i) \in Nat
                 PROVE  FramesIn(s, i) <= FramesIn(s, i + (k + 1)) /\ FramesIn(s, i + (k + 1)) \in Nat
      OBVIOUS
    <3>1. /\ i + (k + 1) = (i + k) + 1 /\ i + k \in Nat /\ (i + k) + 1 \in 1 .. l /\ i + k <= l
      OBVIOUS
    <3>2. FramesIn(s, i) <= FramesIn(s, i + k) /\ FramesIn(s, i + k) \in Nat BY <2>2, <3>1
    <3>3. s[(i + k) + 1].frames \in Nat BY <3>1
    <3>4. FramesIn(s, (i + k) + 1) = FramesIn(s, i + k) + s[(i + k) + 1].frames BY <1>1, <3>1
    <3>5. FramesIn(s, i) \in Nat BY <1>1
    <3> QED BY <3>1, <3>2, <3>3, <3>4, <3>5
  <2> HIDE DEF S
  <2>3. \A k \in Nat : k \in S BY <2>1, <2>2, Counting
  <2> QED BY <2>3 DEF S
<1>3. \A k \in 0 .. l : FramesIn(s, k) \in Nat
  <2> SUFFICES ASSUME NEW k \in 0 .. l PROVE FramesIn(s, k) \in Nat OBVIOUS
  <2>1. 0 + k = k /\ k \in Nat /\ 0 + k <= l OBVIOUS
  <2> QED BY <1>2, <2>1
<1>4. \A i, j \in 0 .. l : i <= j => FramesIn(s, i) <= FramesIn(s, j)
  <2> SUFFICES ASSUME NEW i \in 0 .. l, NEW j \in 0 .. l, i <= j
               PROVE  FramesIn(s, i) <= FramesIn(s, j)
    OBVIOUS
  <2>1. i \in Nat /\ j - i \in Nat /\ i + (j - i) = j /\ j <= l OBVIOUS
  <2> QED BY <1>2, <1>3, <2>1
<1>5. G = {k \in 1 .. l : FramesIn(s, k) <= m} BY DEF Gone
<1>6. \A k \in G : 1 .. k \subseteq G
  <2> SUFFICES ASSUME NEW k \in G, NEW j \in 1 .. k PROVE j \in G OBVIOUS
  <2>1. k \in 1 .. l /\ FramesIn(s, k) <= m BY <1>5
  <2>2. j \in 1 .. l /\ j \in 0 .. l /\ k \in 0 .. l /\ j <= k /\ k \in Int /\ j \in Int BY <2>1
  <2>3. FramesIn(s, j) <= FramesIn(s, k) BY <1>4, <2>2
  <2>4. FramesIn(s, j) \in Nat /\ FramesIn(s, k) \in Nat BY <1>3, <2>2
  <2> QED BY <1>5, <2>1, <2>2, <2>3, <2>4
<1>7. G \in SUBSET (1 .. l) BY <1>5
<1> HIDE DEF G
<1>8. G \subseteq 1 .. n BY <1>6, <1>7, Beginning
<1>9. n \in 0 .. l /\ G = 1 .. n
  <2>1. IsFiniteSet(1 .. l) /\ Cardinality(1 .. l) = l BY Intervals
  <2>2. IsFiniteSet(G) /\ n \in Nat /\ n <= l
    <3>1. IsFiniteSet(G) /\ Cardinality(G) <= Cardinality(1 .. l) BY <1>7, <2>1, FS_Subset
    <3>2. Cardinality(G) \in Nat BY <3>1, FS_CardinalityType
    <3> QED BY <2>1, <3>1, <3>2
  <2> HIDE DEF n
  <2>3. IsFiniteSet(1 .. n) /\ Cardinality(1 .. n) = n BY <2>2, Intervals
  <2>4. Cardinality(G) = n BY DEF n
  <2>5. G = 1 .. n BY <1>8, <2>3, <2>4, FS_Subset
  <2> QED BY <2>2, <2>5
<1> HIDE DEF n
<1>10. FramesIn(s, n) <= m
  <2>1. CASE n = 0 BY <1>1, <2>1
  <2>2. CASE n # 0
    <3>1. n \in G BY <1>9, <2>2
    <3> QED BY <1>5, <3>1
  <2> QED BY <2>1, <2>2
<1>11. ASSUME n < l PROVE m < FramesIn(s, n + 1) /\ FramesIn(s, n + 1) <= FramesIn(s, l)
  <2>1. n + 1 \in 1 .. l /\ n + 1 \in 0 .. l /\ l \in 0 .. l /\ n + 1 \notin G BY <1>9, <1>11
  <2>2. ~ (FramesIn(s, n + 1) <= m) BY <1>5, <2>1
  <2>3. FramesIn(s, n + 1) \in Nat BY <1>3, <2>1
  <2> QED BY <1>4, <2>1, <2>2, <2>3
<1> QED BY <1>3, <1>9, <1>10, <1>11 DEF n, G

LEMMA TakenCut ==
  ASSUME NEW b, IsBuffer(b), AllMeasured(b), Counts(b), NEW m \in Nat
  PROVE  LET a == TakeFrames(b, m) IN
         /\ Counts(a) /\ a.queued <= b.queued
         /\ \E n \in Nat : \A k \in DOMAIN a.chunks :
              k \in Nat /\ k + n \in DOMAIN b.chunks /\ Cut(a.chunks[k], b.chunks[k + n])
<1> DEFINE a == TakeFrames(b, m)
           s == b.chunks
           t == a.chunks
           l == Len(s)
           n == Cardinality(Gone(s, m))
           part == m - FramesIn(s, n)
<1>1. /\ a.queued = b.queued - IF m < b.queued THEN m ELSE b.queued
      /\ n \in Nat /\ l \in Nat /\ DOMAIN s = 1 .. l
      /\ Len(t) = (IF n + 1 <= l THEN l - n ELSE 0)
      /\ DOMAIN t = 1 .. Len(t)
      /\ \A k \in DOMAIN t :
           /\ k \in Nat /\ k + n \in DOMAIN s
           /\ t[k] = IF k = 1 /\ part # 0 THEN TrimmedFront(s[k + n], part) ELSE s[k + n]
  BY TakenShape
<1>2. \A k \in 1 .. l : IsChunk(s[k]) /\ Measured(s[k]) /\ s[k].frames \in Nat
  BY <1>1 DEF IsBuffer, IsChunks, AllMeasured, Measured
<1>3. b.queued = FramesIn(s, l) /\ b.queued \in Nat BY DEF Counts
<1>4. /\ n \in 0 .. l /\ \A k \in 0 .. l : FramesIn(s, k) \in Nat
      /\ FramesIn(s, n) <= m
      /\ n < l => m < FramesIn(s, n + 1) /\ FramesIn(s, n + 1) <= FramesIn(s, l)
  <2>1. \A k \in 1 .. l : s[k].frames \in Nat BY <1>2
  <2> HIDE DEF s
  <2>2. l \in Nat BY <1>1
  <2> QED BY <2>1, <2>2, GoneIs
<1> HIDE DEF n, a, s, t, l
<1>5. part \in Nat /\ FramesIn(s, n) \in Nat /\ n <= l BY <1>4
<1>6. CASE n = l
  <2>1. Len(t) = 0 /\ DOMAIN t = {} BY <1>1, <1>6
  <2>2. a.queued = 0 BY <1>1, <1>3, <1>4, <1>6
  <2>3. a.queued = FramesIn(t, Len(t)) BY <2>1, <2>2, Sums
  <2>4. Counts(a) BY <2>2, <2>3 DEF Counts, t
  <2>5. \A k \in DOMAIN t : k \in Nat /\ k + n \in DOMAIN s /\ Cut(t[k], s[k + n]) BY <2>1
  <2>6. \E i \in Nat : \A k \in DOMAIN t : k \in Nat /\ k + i \in DOMAIN s /\ Cut(t[k], s[k + i])
    BY <1>1, <2>5
  <2>7. a.queued <= b.queued BY <1>3, <2>2
  <2> QED BY <2>4, <2>6, <2>7 DEF a, s, t
<1>7. CASE n # l
  <2>1. n < l /\ Len(t) = l - n /\ l - n \in Nat /\ 1 <= l - n /\ n + 1 \in 0 .. l /\ n + 1 \in 1 .. l
    BY <1>1, <1>4, <1>5, <1>7
  <2>2. /\ m < FramesIn(s, n + 1) /\ FramesIn(s, n + 1) <= FramesIn(s, l)
        /\ FramesIn(s, n + 1) \in Nat
        /\ FramesIn(s, n + 1) = FramesIn(s, n) + s[n + 1].frames
    BY <1>1, <1>4, <2>1, Sums
  <2>3. a.queued = FramesIn(s, l) - m /\ a.queued \in Nat /\ a.queued <= b.queued
    BY <1>1, <1>3, <2>2
  <2>4. s[n + 1].frames \in Nat /\ IsChunk(s[n + 1]) /\ Measured(s[n + 1]) BY <1>2, <2>1
  <2>5. part < s[n + 1].frames BY <1>5, <2>2, <2>4
  <2>6. 1 \in DOMAIN t /\ 1 + n = n + 1 BY <1>1, <2>1
  <2>7. t[1] = IF part # 0 THEN TrimmedFront(s[n + 1], part) ELSE s[n + 1] BY <1>1, <2>6
  <2>8. Cut(t[1], s[n + 1]) /\ t[1].frames = s[n + 1].frames - part
    <3>1. /\ Cut(TrimmedFront(s[n + 1], part), s[n + 1])
          /\ TrimmedFront(s[n + 1], part).frames = s[n + 1].frames - part
      BY <1>5, <2>4, <2>5, TrimmedCut
    <3>2. Cut(s[n + 1], s[n + 1]) BY <2>4, CutSelf
    <3> HIDE DEF part
    <3> QED BY <2>4, <2>7, <3>1, <3>2
  <2>9. \A k \in DOMAIN t : k # 1 => t[k] = s[k + n] BY <1>1
  <2>10. \A k \in DOMAIN t : k \in Nat /\ k + n \in DOMAIN s /\ Cut(t[k], s[k + n])
    <3> SUFFICES ASSUME NEW k \in DOMAIN t
                 PROVE  k \in Nat /\ k + n \in DOMAIN s /\ Cut(t[k], s[k + n])
      OBVIOUS
    <3>1. k \in Nat /\ k + n \in 1 .. l /\ k + n \in DOMAIN s BY <1>1
    <3>2. CASE k = 1 BY <2>6, <2>8, <3>1, <3>2
    <3>3. CASE k # 1
      <4>1. Cut(s[k + n], s[k + n]) BY <1>2, <3>1, CutSelf
      <4> QED BY <2>9, <3>1, <3>3, <4>1
    <3> QED BY <3>2, <3>3
  <2>11. FramesIn(t, 1) = FramesIn(s, n + 1) - m
    <3>1. FramesIn(t, 0 + 1) = FramesIn(t, 0) + t[0 + 1].frames /\ FramesIn(t, 0) = 0 BY Sums
    <3>2. FramesIn(t, 1) = t[1].frames
      <4>1. 0 + 1 = 1 OBVIOUS
      <4>2. t[1].frames \in Int BY <1>5, <2>4, <2>8
      <4> QED BY <3>1, <4>1, <4>2
    <3> QED BY <1>5, <2>2, <2>4, <2>8, <3>2
  <2>12. FramesIn(t, l - n) = FramesIn(s, l) - m
    <3> DEFINE r == l - n
               e == n + 1
    <3>1. Shifted(s, t, n, 1, r)
      <4> SUFFICES ASSUME NEW k \in Nat, 1 < k, k <= r PROVE t[k].frames = s[n + k].frames
        BY DEF Shifted
      <4>1. k \in DOMAIN t /\ k # 1 /\ n + k = k + n BY <1>1, <2>1
      <4> QED BY <2>9, <4>1
    <3>2. Whole(s, l) BY <1>2 DEF Whole
    <3>3. r \in Nat /\ 1 <= r /\ 1 \in Nat /\ m \in Int /\ l = n + r /\ e = n + 1
      BY <1>1, <2>1
    <3>4. Less(s, t, e, 1, m) BY <2>11 DEF Less
    <3> HIDE DEF r, e
    <3>5. Less(s, t, l, r, m) BY <1>1, <3>1, <3>2, <3>3, <3>4, SumsOfEnd
    <3> QED BY <3>5 DEF Less, r
  <2>14. a.queued = FramesIn(t, Len(t)) BY <2>1, <2>3, <2>12
  <2>15. Counts(a) BY <2>3, <2>14 DEF Counts, t
  <2>16. \E i \in Nat : \A k \in DOMAIN t : k \in Nat /\ k + i \in DOMAIN s /\ Cut(t[k], s[k + i])
    BY <1>1, <2>10
  <2> QED BY <2>3, <2>15, <2>16 DEF a, s, t
<1> QED BY <1>6, <1>7
-----------------------------------------------------------------------------
(* What is still to come to the buffer, in this order: the packet that the *)
(* decode thread has, one at most, those of the queue, and the next that   *)
(* is read.                                                                *)
Held ==
  IF pc = "Send" THEN {packet}
  ELSE IF pc = "Receive" THEN {codec[k] : k \in DOMAIN codec}
  ELSE IF InHand THEN {Packet(chunk.packet, chunk.epoch)} ELSE {}
Waiting   == {queue.items[k] : k \in DOMAIN queue.items}
Following == Packet(dxNext, seeks)
Coming    == Held \union Waiting \union {Following}

Single ==
  /\ pc \in {"Loop", "Pop", "Send", "Receive", "Push", "Append", "Ended"}
  /\ pc \in {"Pop", "Send", "Push", "Append"} => codec = <<>>
  /\ pc = "Loop" /\ running => codec = <<>>
  /\ pc = "Receive" => codec = <<>> \/ \E x \in Packets : codec = <<x>>

(* The packets of a seek come in the order of the file.  Nothing is read   *)
(* between a seek and the end of its notification.                         *)
InOrder ==
  \A i, j \in DOMAIN queue.items :
    i < j /\ queue.items[i].e = queue.items[j].e => queue.items[i].p < queue.items[j].p

Ordered ==
  /\ \A x \in Coming : x.e <= seeks /\ x.p >= 1
  /\ \A x \in Held : \A y \in Waiting \union {Following} : x.e = y.e => x.p < y.p
  /\ \A x \in Waiting : x.e = seeks => x.p < dxNext
  /\ InOrder
  /\ \A k \in DOMAIN pcm.chunks : pcm.chunks[k].epoch <= seeks
  /\ dx # "Loop" =>
       /\ \A x \in Held : x.e < seeks
       /\ \A k \in DOMAIN pcm.chunks : pcm.chunks[k].epoch < seeks

LEMMA ComingType ==
  ASSUME Typed
  PROVE  /\ Held \subseteq Packets /\ Waiting \subseteq Packets /\ Following \in Packets
         /\ Coming \subseteq Packets /\ \A x \in Packets : x.p \in Nat /\ x.e \in Nat
         /\ Following.p = dxNext /\ Following.e = seeks
<1>1. Packet(chunk.packet, chunk.epoch) \in Packets BY DEF Typed, IsChunk, Packet, Packets
<1>2. packet \in Packets /\ \A k \in DOMAIN codec : codec[k] \in Packets BY DEF Typed
<1>3. Held \subseteq Packets BY <1>1, <1>2 DEF Held
<1>4. queue.items \in Seq(Packets) BY DEF Typed, QueueType
<1>5. Waiting \subseteq Packets BY <1>4 DEF Waiting
<1>6. Following \in Packets /\ Following.p = dxNext /\ Following.e = seeks
  BY DEF Typed, Following, Packet, Packets
<1>7. \A x \in Packets : x.p \in Nat /\ x.e \in Nat BY DEF Packets
<1> QED BY <1>3, <1>5, <1>6, <1>7 DEF Coming

LEMMA SingleStep ==
  ASSUME Typed, Single, Next
  PROVE  Single'
<1> USE DEF demuxVars, decodeVars, engineVars
<1>0. packet \in Packets /\ codec \in Seq(Packets) BY DEF Typed
<1>1. UNCHANGED <<pc, codec, running>> => Single' BY DEF Single
<1>2. CASE ReadPacket \/ ReadEof \/ NotifyUnregistered \/ NotifyPending \/ NotifyBegin
  BY <1>1, <1>2 DEF ReadPacket, ReadEof, NotifyUnregistered, NotifyPending, NotifyBegin
<1>3. ASSUME NEW request \in Requests, SeekInput(request) PROVE Single'
  BY <1>1, <1>3 DEF SeekInput
<1>4. CASE Render \/ SetPaused \/ Unregister \/ StopAbortQueue \/ StopAbortBuffer \/ StopJoin
  BY <1>1, <1>4 DEF Render, SetPaused, Unregister, StopAbortQueue, StopAbortBuffer, StopJoin
<1>5. CASE StopRunning BY <1>5 DEF StopRunning, Single
<1>6. CASE LoopEnd \/ LoopFlush \/ PopPacket BY <1>6 DEF LoopEnd, LoopFlush, PopPacket, Single
<1>7. CASE SendPacket
  <2>1. codec = <<>> /\ pc' \in {"Loop", "Receive"} BY <1>7 DEF SendPacket, Single
  <2>2. /\ pc' = "Loop" => codec' = <<>>
        /\ codec' = <<>> \/ codec' = <<packet>>
    <3>1. (IF seekPending THEN <<>> ELSE codec) = <<>> BY <2>1
    <3>2. Append(<<>>, packet) = <<packet>> BY <1>0
    <3> QED BY <1>7, <3>1, <3>2 DEF SendPacket
  <2> QED BY <1>0, <2>1, <2>2 DEF Single
<1>8. CASE ReceiveEnd BY <1>8 DEF ReceiveEnd, Single
<1>9. CASE ReceiveFrame
  <2>1. PICK x \in Packets : codec = <<x>> BY <1>9 DEF ReceiveFrame, Single
  <2>2. Tail(codec) = <<>> BY <2>1
  <2> QED BY <1>9, <2>2 DEF ReceiveFrame, Single
<1>10. CASE PushEnter
  <2>1. codec = <<>> /\ codec' = codec /\ pc' \in {"Receive", "Append"}
    BY <1>10 DEF PushEnter, Single
  <2> QED BY <2>1 DEF Single
<1>11. CASE PushAppend BY <1>11 DEF PushAppend, Single
<1> QED BY <1>2, <1>3, <1>4, <1>5, <1>6, <1>7, <1>8, <1>9, <1>10, <1>11
        DEF Next, Demux, Decode, Engine

(* What a step does to the packet in hand ...                              *)
LEMMA PushHeld ==
  ASSUME Typed, Single, PushEnter
  PROVE  /\ Held = {Packet(chunk.packet, chunk.epoch)} /\ Held' \subseteq Held
         /\ pc' # "Append" => Held' = {}
         /\ pc' = "Append" => Held' = Held
<1>0. IsBuffer(pcm) /\ IsChunk(chunk) BY DEF Typed
<1> DEFINE a == AlignAfterSeek(pcm, chunk)
<1>1. IsChunk(a.chunk) /\ a.chunk.packet = chunk.packet /\ a.chunk.epoch = chunk.epoch
  BY <1>0, Aligned
<1>2. CappedChunk(a.chunk).packet = chunk.packet /\ CappedChunk(a.chunk).epoch = chunk.epoch
  BY <1>1, Capped
<1>3. pc = "Push" /\ codec' = codec /\ codec = <<>> BY DEF PushEnter, Single
<1>4. \/ pc' = "Receive"
      \/ pc' = "Append" /\ chunk' = CappedChunk(a.chunk)
  BY DEF PushEnter
<1> HIDE DEF a
<1>5. Held = {Packet(chunk.packet, chunk.epoch)} BY <1>3 DEF Held, InHand
<1>6. CASE pc' = "Receive"
  <2>1. Held' = {} BY <1>3, <1>6 DEF Held
  <2> QED BY <1>5, <1>6, <2>1
<1>7. CASE pc' = "Append" /\ chunk' = CappedChunk(a.chunk)
  <2>1. Held' = {Packet(chunk'.packet, chunk'.epoch)} BY <1>7 DEF Held, InHand
  <2> QED BY <1>2, <1>5, <1>7, <2>1
<1> QED BY <1>4, <1>6, <1>7

LEMMA HeldStep ==
  ASSUME Typed, Single, Next, ~PopPacket
  PROVE  Held' \subseteq Held
<1> USE DEF demuxVars, decodeVars, engineVars
<1>0. packet \in Packets /\ codec \in Seq(Packets) BY DEF Typed
<1>1. UNCHANGED <<pc, codec, packet, chunk>> => Held' = Held BY DEF Held, InHand
<1>2. CASE ReadPacket \/ ReadEof \/ NotifyUnregistered \/ NotifyPending \/ NotifyBegin
  BY <1>1, <1>2 DEF ReadPacket, ReadEof, NotifyUnregistered, NotifyPending, NotifyBegin
<1>3. ASSUME NEW request \in Requests, SeekInput(request) PROVE Held' \subseteq Held
  BY <1>1, <1>3 DEF SeekInput
<1>4. CASE Render \/ SetPaused \/ Unregister \/ StopRunning \/ StopAbortQueue \/ StopAbortBuffer
             \/ StopJoin
  BY <1>1, <1>4
     DEF Render, SetPaused, Unregister, StopRunning, StopAbortQueue, StopAbortBuffer, StopJoin
<1>5. pc' \in {"Loop", "Pop", "Ended"} => Held' = {} BY DEF Held, InHand
<1>6. CASE LoopEnd \/ LoopFlush \/ ReceiveEnd
  BY <1>5, <1>6 DEF LoopEnd, LoopFlush, ReceiveEnd
<1>7. CASE SendPacket
  <2>1. /\ pc = "Send" /\ codec = <<>>
        /\ pc' = "Loop" \/ (pc' = "Receive" /\ codec' = <<packet>>)
    <3>1. codec = <<>> /\ pc = "Send" BY <1>7 DEF SendPacket, Single
    <3>2. (IF seekPending THEN <<>> ELSE codec) = <<>> BY <3>1
    <3>3. Append(<<>>, packet) = <<packet>> BY <1>0
    <3>4. packet.p \in Corrupt => pc' = "Loop" BY <1>7 DEF SendPacket
    <3>5. packet.p \notin Corrupt =>
            pc' = "Receive" /\ codec' = Append(IF seekPending THEN <<>> ELSE codec, packet)
      BY <1>7 DEF SendPacket
    <3> QED BY <3>1, <3>2, <3>3, <3>4, <3>5
  <2>2. Held = {packet} BY <2>1 DEF Held
  <2>3. CASE pc' = "Receive" /\ codec' = <<packet>>
    <3>1. Held' = {codec'[k] : k \in DOMAIN codec'} BY <2>3 DEF Held
    <3> QED BY <2>2, <2>3, <3>1
  <2> QED BY <1>5, <2>1, <2>3
<1>8. CASE ReceiveFrame
  <2>1. PICK x \in Packets : codec = <<x>> BY <1>8 DEF ReceiveFrame, Single
  <2>2. /\ pc = "Receive" /\ pc' = "Push"
        /\ chunk' = Chunk(PacketFrames, PacketPts(x.p), x.p, x.e)
    BY <1>8, <2>1 DEF ReceiveFrame
  <2>3. Held = {x} BY <2>1, <2>2 DEF Held
  <2>4. Held' = {Packet(x.p, x.e)} BY <2>2 DEF Held, InHand, Chunk
  <2>5. Packet(x.p, x.e) = x BY DEF Packet, Packets
  <2> QED BY <2>3, <2>4, <2>5
<1>9. CASE PushEnter BY <1>9, PushHeld
<1>10. CASE PushAppend
  <2>1. pc' = "Receive" /\ codec' = <<>> BY <1>10 DEF PushAppend, Single
  <2>2. Held' = {} BY <2>1 DEF Held
  <2> QED BY <2>2
<1> QED BY <1>2, <1>3, <1>4, <1>6, <1>7, <1>8, <1>9, <1>10
        DEF Next, Demux, Decode, Engine

(* ... to those of the queue and the next one ...                          *)
Passed ==
  \/ /\ Held' = {} /\ queue'.items = queue.items
  \/ /\ queue.items # <<>> /\ Held' = {Head(queue.items)} /\ queue'.items = Tail(queue.items)

LEMMA PopStep ==
  ASSUME Typed, Single, PopPacket
  PROVE  Held = {} /\ Passed
<1>0. queue \in QueueType(Packets) BY DEF Typed
<1>1. Held = {} BY DEF PopPacket, Held, InHand
<1>2. CASE PopStatus(queue) = "Packet"
  <2>1. queue.items # <<>> /\ queue'.items = Tail(queue.items)
    BY <1>0, <1>2, StatusType, AfterPopType DEF PopPacket
  <2>2. packet' = Head(queue.items) /\ pc' = "Send" BY <1>2 DEF PopPacket
  <2>3. Held' = {Head(queue.items)} BY <2>2 DEF Held
  <2> QED BY <1>1, <2>1, <2>3 DEF Passed
<1>3. CASE PopStatus(queue) # "Packet"
  <2>1. queue'.items = queue.items BY <1>0, <1>3, StatusType, AfterPopType DEF PopPacket
  <2>2. pc' = "Loop" BY <1>3 DEF PopPacket
  <2>3. Held' = {} BY <2>2 DEF Held, InHand
  <2> QED BY <1>1, <2>1, <2>3 DEF Passed
<1> QED BY <1>2, <1>3

LEMMA QueueStep ==
  ASSUME Typed, Next
  PROVE  \/ /\ ReadPacket /\ dx = "Loop" /\ Following' = Packet(dxNext + 1, seeks)
            /\ UNCHANGED <<dx, seeks>> /\ dxNext' = dxNext + 1
            /\ \/ queue'.items = queue.items
               \/ queue'.items = Append(queue.items, Following)
         \/ /\ \E request \in Requests :
                 SeekInput(request) /\ dxNext' \in Landings(request.target) \union {dxNext}
            /\ queue'.items = <<>> /\ seeks' = seeks + 1
            /\ Following' = Packet(dxNext', seeks + 1)
         \/ PopPacket /\ UNCHANGED <<dx, seeks, dxNext, Following>>
         \/ /\ ~PopPacket /\ queue'.items = queue.items /\ UNCHANGED <<seeks, dxNext, Following>>
            /\ dx' = "Loop" \/ dx # "Loop"
<1> USE DEF demuxVars, decodeVars, engineVars
<1>0. queue \in QueueType(Packets) /\ dxNext \in Nat /\ seeks \in Nat BY DEF Typed
<1>1. UNCHANGED <<seeks, dxNext>> => Following' = Following BY DEF Following
<1>2. CASE ReadPacket
  <2>1. Following \in Packets BY <1>0 DEF Following, Packet, Packets
  <2>2. Enqueue(queue, Following).items = Append(queue.items, Following)
    BY <1>0, <2>1, EnqueueType
  <2> QED BY <1>2, <2>2 DEF ReadPacket, TryPush, Following
<1>3. ASSUME NEW request \in Requests, SeekInput(request)
      PROVE  /\ queue'.items = <<>> /\ seeks' = seeks + 1
             /\ dxNext' \in Landings(request.target) \union {dxNext}
             /\ Following' = Packet(dxNext', seeks + 1)
  BY <1>0, <1>3, QueueOpsType DEF SeekInput, Following
<1>4. CASE PopPacket BY <1>1, <1>4 DEF PopPacket
<1>5. CASE ReadEof \/ StopAbortQueue
  <2>1. queue'.items = queue.items BY <1>0, <1>5, QueueOpsType DEF ReadEof, StopAbortQueue
  <2>2. UNCHANGED <<dx, seeks, dxNext>> /\ (dx' = "Loop" \/ dx # "Loop")
    BY <1>5 DEF ReadEof, StopAbortQueue
  <2> QED BY <1>1, <1>4, <2>1, <2>2
<1>6. CASE NotifyUnregistered \/ NotifyPending \/ NotifyBegin
  BY <1>1, <1>4, <1>6 DEF NotifyUnregistered, NotifyPending, NotifyBegin
<1>7. CASE \/ LoopEnd \/ LoopFlush \/ SendPacket \/ ReceiveEnd \/ ReceiveFrame \/ PushEnter
           \/ PushAppend
  <2>1. UNCHANGED <<queue, dx, seeks, dxNext>>
    BY <1>7 DEF LoopEnd, LoopFlush, SendPacket, ReceiveEnd, ReceiveFrame, PushEnter, PushAppend
  <2> QED BY <1>1, <1>4, <2>1
<1>8. CASE Render \/ SetPaused \/ Unregister \/ StopRunning \/ StopAbortBuffer \/ StopJoin
  <2>1. UNCHANGED <<queue, dx, seeks, dxNext>>
    BY <1>8 DEF Render, SetPaused, Unregister, StopRunning, StopAbortBuffer, StopJoin
  <2> QED BY <1>1, <1>4, <2>1
<1> QED BY <1>2, <1>3, <1>4, <1>5, <1>6, <1>7, <1>8 DEF Next, Demux, Decode, Engine

(* ... and where the chunks in the buffer come from.                       *)
LEMMA ChunksStep ==
  ASSUME Typed, Single, Next
  PROVE  \A k \in DOMAIN pcm'.chunks :
           \/ \E j \in DOMAIN pcm.chunks : pcm'.chunks[k].epoch = pcm.chunks[j].epoch
           \/ \E x \in Held : pcm'.chunks[k].epoch = x.e
<1> USE DEF demuxVars, decodeVars, engineVars
<1>0. IsBuffer(pcm) /\ IsChunk(chunk) BY DEF Typed
<1> DEFINE From(c) == \/ \E j \in DOMAIN pcm.chunks : c.epoch = pcm.chunks[j].epoch
                      \/ \E x \in Held : c.epoch = x.e
<1> SUFFICES \A k \in DOMAIN pcm'.chunks : From(pcm'.chunks[k]) OBVIOUS
<1>1. CASE pcm'.chunks = pcm.chunks BY <1>1
<1>2. CASE pcm'.chunks = <<>> BY <1>2
<1>3. CASE Render
  <2>1. PICK n \in Nat : \A k \in DOMAIN TakeFrames(pcm, DeviceFrames).chunks :
          /\ k + n \in DOMAIN pcm.chunks
          /\ TakeFrames(pcm, DeviceFrames).chunks[k].epoch = pcm.chunks[k + n].epoch
    BY <1>0, TakenAway
  <2> QED BY <1>3, <2>1 DEF Render
<1>4. ASSUME NEW q, IsChunk(q), q.epoch = chunk.epoch, InHand,
             pcm'.chunks = Append(pcm.chunks, q)
      PROVE  \A k \in DOMAIN pcm'.chunks : From(pcm'.chunks[k])
  <2> DEFINE s == pcm.chunks
             t == pcm'.chunks
  <2>0. IsChunks(s) /\ t = Append(s, q) BY <1>0, <1>4 DEF IsBuffer
  <2> HIDE DEF s, t
  <2>1. /\ DOMAIN s = 1 .. Len(s) /\ Len(s) \in Nat /\ DOMAIN t = 1 .. Len(s) + 1
        /\ \A k \in DOMAIN s : t[k] = s[k]
        /\ t[Len(s) + 1] = q
    BY <1>4, <2>0, Appended
  <2>2. Packet(chunk.packet, chunk.epoch) \in Held BY <1>4 DEF Held, InHand
  <2>3. From(q) BY <1>4, <2>2 DEF Packet
  <2>4. \A k \in 1 .. Len(s) + 1 : k \in 1 .. Len(s) \/ k = Len(s) + 1 BY <2>1
  <2>5. \A k \in DOMAIN s : From(s[k]) BY DEF s
  <2> HIDE DEF From
  <2>6. \A k \in DOMAIN t : From(t[k]) BY <2>1, <2>3, <2>4, <2>5
  <2> QED BY <2>6 DEF t
<1>5. CASE PushEnter
  <2> DEFINE a == AlignAfterSeek(pcm, chunk)
  <2>1. \/ a.buf.chunks = pcm.chunks
        \/ \E q : IsChunk(q) /\ q.epoch = chunk.epoch /\ a.buf.chunks = Append(pcm.chunks, q)
    BY <1>0, Aligned
  <2>2. InHand /\ (pcm' = pcm \/ pcm' = a.buf) BY <1>5 DEF PushEnter, InHand
  <2> HIDE DEF a
  <2> QED BY <1>1, <1>4, <2>1, <2>2
<1>6. CASE PushAppend
  <2>1. InHand /\ (pcm' = pcm \/ pcm' = AppendChunk(pcm, chunk)) BY <1>6 DEF PushAppend, InHand
  <2>2. AppendChunk(pcm, chunk).chunks = Append(pcm.chunks, chunk) BY <1>0, AppendedChunk
  <2> QED BY <1>0, <1>1, <1>4, <2>1, <2>2
<1>7. CASE LoopFlush \/ SendPacket
  <2>1. pcm' = pcm \/ pcm' = FlushBuffer(pcm) BY <1>7 DEF LoopFlush, SendPacket
  <2> QED BY <1>0, <1>1, <1>2, <2>1, Emptied
<1>8. CASE StopAbortBuffer
  <2>1. pcm' = AbortBuffer(pcm) BY <1>8 DEF StopAbortBuffer
  <2>2. pcm'.chunks = <<>> BY <1>0, <2>1, Emptied
  <2> QED BY <1>2, <2>2
<1>9. CASE NotifyBegin
  <2> DEFINE b == BeginSeek(pcm, sought.target, sought.exact)
  <2>1. b.chunks = <<>> BY <1>0, Begun
  <2>2. pcm' = b BY <1>9 DEF NotifyBegin
  <2> HIDE DEF b
  <2> QED BY <1>2, <2>1, <2>2
<1>10. CASE UNCHANGED pcm BY <1>1, <1>10
<1> QED BY <1>3, <1>5, <1>6, <1>7, <1>8, <1>9, <1>10
        DEF Next, Demux, Decode, Engine, ReadPacket, ReadEof, SeekInput, NotifyUnregistered,
            NotifyPending, LoopEnd, PopPacket, ReceiveEnd, ReceiveFrame, SetPaused, Unregister,
            StopRunning, StopAbortQueue, StopJoin

LEMMA OrderedStep ==
  ASSUME Typed, QueueFresh, Single, Ordered, Next
  PROVE  Ordered'
<1>0. /\ queue.items \in Seq(Packets) /\ dxNext \in Nat /\ seeks \in Nat
      /\ Following = Packet(dxNext, seeks) /\ Following.p = dxNext /\ Following.e = seeks
      /\ Following \in Packets
  BY DEF Typed, QueueType, Following, Packet, Packets
<1>1. /\ \A x \in Coming : x.e <= seeks /\ x.p >= 1
      /\ \A x \in Held : \A y \in Waiting \union {Following} : x.e = y.e => x.p < y.p
      /\ \A x \in Waiting : x.e = seeks => x.p < dxNext
      /\ InOrder
      /\ \A k \in DOMAIN pcm.chunks : pcm.chunks[k].epoch <= seeks
      /\ dx # "Loop" =>
           /\ \A x \in Held : x.e < seeks
           /\ \A k \in DOMAIN pcm.chunks : pcm.chunks[k].epoch < seeks
  BY DEF Ordered
<1>2. \A x \in Held : x.e <= seeks BY <1>1 DEF Coming
<1>3. \A k \in DOMAIN pcm'.chunks : pcm'.chunks[k].epoch <= seeks
  BY <1>1, <1>2, ChunksStep
<1>4. dx # "Loop" => \A k \in DOMAIN pcm'.chunks : pcm'.chunks[k].epoch < seeks
  BY <1>1, ChunksStep
<1>5. CASE /\ ~PopPacket /\ queue'.items = queue.items /\ UNCHANGED <<seeks, dxNext, Following>>
           /\ dx' = "Loop" \/ dx # "Loop"
  <2>1. Held' \subseteq Held BY <1>5, HeldStep
  <2>2. Waiting' = Waiting /\ (InOrder' <=> InOrder) BY <1>5 DEF Waiting, InOrder
  <2>3. Coming' \subseteq Coming BY <1>5, <2>1, <2>2 DEF Coming
  <2> QED BY <1>1, <1>3, <1>4, <1>5, <2>1, <2>2, <2>3 DEF Ordered
<1>6. CASE PopPacket /\ UNCHANGED <<dx, seeks, dxNext, Following>>
  <2>1. Held = {} /\ Passed BY <1>6, PopStep
  <2>2. CASE Held' = {} /\ queue'.items = queue.items
    <3>1. Waiting' = Waiting /\ (InOrder' <=> InOrder) BY <2>2 DEF Waiting, InOrder
    <3>2. Coming' \subseteq Coming BY <1>6, <2>2, <3>1 DEF Coming
    <3> QED BY <1>1, <1>3, <1>4, <1>6, <2>2, <3>1, <3>2 DEF Ordered
  <2>3. CASE queue.items # <<>> /\ Held' = {Head(queue.items)} /\ queue'.items = Tail(queue.items)
    <3> DEFINE s == queue.items
               t == queue'.items
    <3>1. /\ Len(s) \in Nat /\ DOMAIN s = 1 .. Len(s) /\ 1 \in DOMAIN s /\ Head(s) = s[1]
          /\ DOMAIN t = 1 .. Len(s) - 1
          /\ \A i \in DOMAIN t : i \in Nat /\ i + 1 \in DOMAIN s /\ 1 < i + 1 /\ t[i] = s[i + 1]
      BY <1>0, <2>3
    <3>2. Head(s) \in Waiting BY <3>1 DEF Waiting
    <3>3. Waiting' \subseteq Waiting BY <3>1 DEF Waiting
    <3>4. Coming' \subseteq Coming BY <1>6, <2>3, <3>2, <3>3 DEF Coming
    <3>5. \A y \in Waiting' : Head(s).e = y.e => Head(s).p < y.p
      <4>1. Waiting' = {t[k] : k \in DOMAIN t} BY DEF Waiting
      <4> QED BY <1>1, <3>1, <4>1 DEF InOrder
    <3>6. Head(s).e = seeks => Head(s).p < dxNext BY <1>1, <3>2
    <3>7. InOrder'
      <4>1. \A i, j \in DOMAIN t : i < j => i + 1 < j + 1 BY <3>1
      <4>2. \A i, j \in DOMAIN t : i < j /\ t[i].e = t[j].e => t[i].p < t[j].p
        BY <1>1, <3>1, <4>1 DEF InOrder
      <4> QED BY <4>2 DEF InOrder
    <3>8. \A x \in Held' : \A y \in Waiting' \union {Following'} : x.e = y.e => x.p < y.p
      BY <1>0, <1>6, <2>3, <3>5, <3>6
    <3>9. dx = "Loop" BY <2>3 DEF QueueFresh
    <3> QED BY <1>1, <1>3, <1>4, <1>6, <3>3, <3>4, <3>7, <3>8, <3>9 DEF Ordered
  <2> QED BY <2>1, <2>2, <2>3 DEF Passed
<1>7. ASSUME NEW request \in Requests, SeekInput(request),
             dxNext' \in Landings(request.target) \union {dxNext},
             queue'.items = <<>>, seeks' = seeks + 1, Following' = Packet(dxNext', seeks + 1)
      PROVE  Ordered'
  <2>1. Held' \subseteq Held /\ \A x \in Held' : x.e < seeks' /\ x.e < seeks + 1
    <3>1. ~PopPacket BY <1>7 DEF SeekInput, PopPacket, demuxVars
    <3>2. Held' \subseteq Held BY <1>7, <3>1, HeldStep
    <3>3. \A x \in Held : x.e <= seeks BY <1>2
    <3>4. \A x \in Held : x.e \in Int BY ComingType
    <3> QED BY <1>0, <1>7, <3>2, <3>3, <3>4
  <2>2. Waiting' = {} /\ InOrder' BY <1>7 DEF Waiting, InOrder
  <2>3. Following'.e = seeks + 1 /\ Following'.p = dxNext' BY <1>7 DEF Packet
  <2>4. dxNext' \in Nat /\ dxNext' >= 1
    <3>1. dxNext >= 1 BY <1>0, <1>1 DEF Coming
    <3>2. \A x \in Landings(request.target) : x \in Nat /\ x >= 1
      BY AudioAssumption DEF Landings
    <3> QED BY <1>0, <1>7, <3>1, <3>2
  <2>5. \A k \in DOMAIN pcm'.chunks : pcm'.chunks[k].epoch < seeks'
    <3>1. IsBuffer(pcm) /\ pcm' = pcm BY <1>7 DEF SeekInput, Typed
    <3>2. \A k \in DOMAIN pcm.chunks : pcm.chunks[k].epoch \in Nat
      BY <3>1 DEF IsBuffer, IsChunks, IsChunk
    <3> QED BY <1>0, <1>1, <1>7, <3>1, <3>2
  <2>6. \A k \in DOMAIN pcm'.chunks : pcm'.chunks[k].epoch <= seeks'
    <3>1. \A k \in DOMAIN pcm'.chunks : pcm'.chunks[k].epoch \in Nat
      BY TypedStep DEF Typed, IsBuffer, IsChunks, IsChunk
    <3> QED BY <1>0, <1>7, <2>5, <3>1
  <2>7. \A x \in Coming' : x.e <= seeks' /\ x.p >= 1
    <3>1. \A x \in Held : x.e \in Int /\ x.p >= 1
      BY <1>1, ComingType DEF Coming
    <3>2. \A x \in Held' : x.e <= seeks' /\ x.p >= 1 BY <1>0, <1>7, <2>1, <3>1
    <3> QED BY <1>0, <1>7, <2>2, <2>3, <2>4, <3>2 DEF Coming
  <2>8. \A x \in Held' : \A y \in Waiting' \union {Following'} : x.e = y.e => x.p < y.p
    <3>1. \A x \in Held' : x.e # Following'.e
      <4>1. \A x \in Held : x.e \in Int BY ComingType
      <4> QED BY <1>0, <2>1, <2>3, <4>1
    <3> QED BY <2>2, <3>1
  <2> QED BY <2>1, <2>2, <2>5, <2>6, <2>7, <2>8 DEF Ordered
<1>8. CASE /\ ReadPacket /\ dx = "Loop" /\ Following' = Packet(dxNext + 1, seeks)
           /\ UNCHANGED <<dx, seeks>> /\ dxNext' = dxNext + 1
           /\ \/ queue'.items = queue.items
              \/ queue'.items = Append(queue.items, Following)
  <2> DEFINE s == queue.items
             t == queue'.items
             n == Len(s)
  <2>1. Held' \subseteq Held
    <3>1. ~PopPacket BY <1>8 DEF ReadPacket, PopPacket, decodeVars
    <3> QED BY <3>1, HeldStep
  <2>2. Following'.e = seeks /\ Following'.p = dxNext + 1 BY <1>8 DEF Packet
  <2>3. /\ n \in Nat /\ DOMAIN s = 1 .. n
        /\ \/ t = s
           \/ /\ DOMAIN t = 1 .. n + 1 /\ t[n + 1] = Following
              /\ \A i \in 1 .. n : t[i] = s[i]
    BY <1>0, <1>8
  <2> HIDE DEF s, t, n
  <2>4. Waiting = {s[k] : k \in DOMAIN s} /\ Waiting' = {t[k] : k \in DOMAIN t}
    BY DEF Waiting, s, t
  <2>5. \A k \in 1 .. n + 1 : k \in 1 .. n \/ k = n + 1 BY <2>3
  <2>6. Waiting' \subseteq Waiting \union {Following} BY <2>3, <2>4, <2>5
  <2>7. InOrder'
    <3>1. CASE t = s
      <4>1. InOrder' <=> InOrder BY <3>1 DEF InOrder, s, t
      <4> QED BY <1>1, <4>1
    <3>2. CASE /\ DOMAIN t = 1 .. n + 1 /\ t[n + 1] = Following
               /\ \A i \in 1 .. n : t[i] = s[i]
      <4> SUFFICES ASSUME NEW i \in 1 .. n + 1, NEW j \in 1 .. n + 1, i < j, t[i].e = t[j].e
                   PROVE  t[i].p < t[j].p
        BY <3>2 DEF InOrder, t
      <4>1. i \in 1 .. n BY <2>3
      <4>2. CASE j = n + 1
        <5>1. s[i] \in Waiting /\ s[i].e = seeks BY <1>0, <2>3, <2>4, <3>2, <4>1, <4>2
        <5>2. s[i].p < dxNext BY <1>1, <5>1
        <5> QED BY <1>0, <3>2, <4>1, <4>2, <5>2
      <4>3. CASE j \in 1 .. n
        <5>1. \A x, y \in DOMAIN s : x < y /\ s[x].e = s[y].e => s[x].p < s[y].p
          BY <1>1 DEF InOrder, s
        <5>2. i \in DOMAIN s /\ j \in DOMAIN s BY <2>3, <4>1, <4>3
        <5>3. s[i].e = s[j].e BY <3>2, <4>1, <4>3
        <5>4. s[i].p < s[j].p BY <5>1, <5>2, <5>3
        <5> QED BY <3>2, <4>1, <4>3, <5>4
      <4> QED BY <2>5, <4>2, <4>3
    <3> QED BY <2>3, <3>1, <3>2
  <2>8. \A x \in Waiting : x.e = seeks => x.p \in Int /\ x.p < dxNext
    <3>1. \A x \in Waiting : x.p \in Nat BY ComingType
    <3> QED BY <1>1, <3>1
  <2>9. \A x \in Waiting' : x.e = seeks => x.p < dxNext + 1
    BY <1>0, <2>6, <2>8
  <2>10. \A x \in Held : x.p \in Int BY ComingType
  <2>11. \A x \in Held' : \A y \in Waiting' \union {Following'} : x.e = y.e => x.p < y.p
    <3> SUFFICES ASSUME NEW x \in Held, NEW y \in Waiting' \union {Following'}, x.e = y.e
                 PROVE  x.p < y.p
      BY <2>1
    <3>1. CASE y \in Waiting' BY <1>1, <2>6, <3>1
    <3>2. CASE y = Following'
      <4>1. x.p < dxNext BY <1>0, <1>1, <2>2, <3>2
      <4> QED BY <1>0, <2>2, <2>10, <3>2, <4>1
    <3> QED BY <3>1, <3>2
  <2>12. \A x \in Coming' : x.e <= seeks /\ x.p >= 1
    <3>1. \A x \in Coming' : x \in Coming \/ x = Following' BY <2>1, <2>6 DEF Coming
    <3>2. Following'.e <= seeks /\ Following'.p >= 1 BY <1>0, <2>2
    <3> QED BY <1>1, <3>1, <3>2
  <2> QED BY <1>3, <1>8, <2>7, <2>9, <2>11, <2>12 DEF Ordered
<1> QED BY <1>5, <1>6, <1>7, <1>8, QueueStep

(* Nothing comes that was not behind what came before.                     *)
Behind(S, T) == \A y \in T : (\E x \in S : x.e = y.e /\ x.p <= y.p) \/ y.e > seeks

LEMMA NextType ==
  ASSUME Typed, Next
  PROVE  (Waiting \union {Following})' \subseteq Packets
<1>1. queue'.items \in Seq(Packets) /\ dxNext' \in Nat /\ seeks' \in Nat
  BY TypedStep DEF Typed, QueueType
<1>2. Waiting' = {queue'.items[k] : k \in DOMAIN queue'.items} BY DEF Waiting
<1>3. Waiting' \subseteq Packets BY <1>1, <1>2
<1>4. Following' \in Packets BY <1>1 DEF Following, Packet, Packets
<1> QED BY <1>3, <1>4

LEMMA ComingStep ==
  ASSUME Typed, Single, Next
  PROVE  /\ \A y \in Held' : y \in Held \/ (y \in Waiting /\ pc = "Pop")
         /\ Behind(Waiting \union {Following}, (Waiting \union {Following})')
<1>0. /\ Waiting \subseteq Packets /\ Following \in Packets /\ Following.p = dxNext
      /\ Following.e = seeks /\ \A x \in Packets : x.p \in Nat /\ x.e \in Nat
      /\ queue.items \in Seq(Packets) /\ dxNext \in Nat /\ seeks \in Nat
  BY ComingType DEF Typed, QueueType
<1>1. ASSUME \A y \in (Waiting \union {Following})' :
               y \in Waiting \union {Following} \/ (y.e = seeks /\ dxNext <= y.p) \/ y.e > seeks
      PROVE  Behind(Waiting \union {Following}, (Waiting \union {Following})')
  <2> SUFFICES ASSUME NEW y \in (Waiting \union {Following})'
               PROVE  (\E x \in Waiting \union {Following} : x.e = y.e /\ x.p <= y.p) \/ y.e > seeks
    BY DEF Behind
  <2>1. CASE y \in Waiting \union {Following}
    <3>1. y.e = y.e /\ y.p <= y.p BY <1>0, <2>1
    <3> QED BY <2>1, <3>1
  <2>2. CASE y.e = seeks /\ dxNext <= y.p
    <3>1. Following.e = y.e /\ Following.p <= y.p BY <1>0, <2>2
    <3> QED BY <3>1
  <2> QED BY <1>1, <2>1, <2>2
<1>2. CASE /\ ReadPacket /\ dx = "Loop" /\ Following' = Packet(dxNext + 1, seeks)
           /\ UNCHANGED <<dx, seeks>> /\ dxNext' = dxNext + 1
           /\ \/ queue'.items = queue.items
              \/ queue'.items = Append(queue.items, Following)
  <2>1. Held' \subseteq Held
    <3>1. ~PopPacket BY <1>2 DEF ReadPacket, PopPacket, decodeVars
    <3> QED BY <3>1, HeldStep
  <2>2. Waiting' \subseteq Waiting \union {Following}
    <3>1. CASE queue'.items = queue.items BY <3>1 DEF Waiting
    <3>2. CASE queue'.items = Append(queue.items, Following)
      <4>1. \A k \in DOMAIN queue'.items : k \in DOMAIN queue.items \/ queue'.items[k] = Following
        BY <1>0, <3>2
      <4>2. \A k \in DOMAIN queue.items : queue'.items[k] = queue.items[k]
        BY <1>0, <3>2
      <4> QED BY <4>1, <4>2 DEF Waiting
    <3> QED BY <1>2, <3>1, <3>2
  <2>3. Following'.e = seeks /\ dxNext <= Following'.p
    <3>1. Following'.e = seeks /\ Following'.p = dxNext + 1 BY <1>2 DEF Packet
    <3> QED BY <1>0, <3>1
  <2> QED BY <1>1, <2>1, <2>2, <2>3
<1>3. ASSUME NEW request \in Requests, SeekInput(request),
             queue'.items = <<>>, Following' = Packet(dxNext', seeks + 1)
      PROVE  /\ Held' \subseteq Held
             /\ Behind(Waiting \union {Following}, (Waiting \union {Following})')
  <2>1. Held' \subseteq Held
    <3>1. ~PopPacket BY <1>3 DEF SeekInput, PopPacket, demuxVars
    <3> QED BY <3>1, HeldStep
  <2>2. Waiting' = {} BY <1>3 DEF Waiting
  <2>3. Following'.e > seeks
    <3>1. Following'.e = seeks + 1 BY <1>3 DEF Packet
    <3> QED BY <1>0, <3>1
  <2> QED BY <1>1, <2>1, <2>2, <2>3
<1>4. CASE PopPacket /\ Following' = Following
  <2>1. Passed /\ Held = {} /\ pc = "Pop" BY <1>4, PopStep DEF PopPacket
  <2>2. Waiting' \subseteq Waiting /\ Held' \subseteq Waiting
    <3>1. CASE Held' = {} /\ queue'.items = queue.items BY <3>1 DEF Waiting
    <3>2. CASE /\ queue.items # <<>> /\ Held' = {Head(queue.items)}
               /\ queue'.items = Tail(queue.items)
      <4>1. /\ 1 \in DOMAIN queue.items /\ Head(queue.items) = queue.items[1]
            /\ \A k \in DOMAIN queue'.items :
                 k + 1 \in DOMAIN queue.items /\ queue'.items[k] = queue.items[k + 1]
        BY <1>0, <3>2
      <4> QED BY <3>2, <4>1 DEF Waiting
    <3> QED BY <2>1, <3>1, <3>2 DEF Passed
  <2> QED BY <1>1, <1>4, <2>1, <2>2
<1>5. CASE ~PopPacket /\ queue'.items = queue.items /\ Following' = Following
  <2>1. Held' \subseteq Held /\ Waiting' = Waiting BY <1>5, HeldStep DEF Waiting
  <2> QED BY <1>1, <1>5, <2>1
<1> QED BY <1>2, <1>3, <1>4, <1>5, QueueStep
-----------------------------------------------------------------------------
(* When a packet begins in the file, and that a time is past by less than  *)
(* a sample frame.                                                         *)
Start(p) == FirstPts + (p - 1) * FramesToUs(PacketFrames)
Soon(us) == us * FramesOf < UsOf

LEMMA Starts ==
  /\ \A p \in Nat : p >= 1 => Start(p) \in Nat /\ Start(p + 1) = Start(p) + FramesToUs(PacketFrames)
  /\ \A p, q \in Nat : 1 <= p /\ p <= q => Start(p) <= Start(q)
<1> DEFINE f == FramesToUs(PacketFrames)
<1>1. f \in Nat /\ FirstPts \in Nat BY AudioAssumption, ToUs
<1>2. \A p \in Int : Start(p) = FirstPts + (p - 1) * f BY DEF Start
<1> HIDE DEF f
<1>3. ASSUME NEW p \in Nat, p >= 1 PROVE Start(p) \in Nat /\ Start(p + 1) = Start(p) + f
  <2> DEFINE k == p - 1
             m == p + 1 - 1
  <2>1. k \in Nat /\ m = k + 1 BY <1>3
  <2>2. Start(p) = FirstPts + k * f /\ Start(p + 1) = FirstPts + m * f BY <1>2
  <2> HIDE DEF k, m
  <2>3. k * f \in Nat /\ (k + 1) * f = k * f + f BY <1>1, <2>1
  <2> QED BY <1>1, <2>1, <2>2, <2>3
<1>4. ASSUME NEW p \in Nat, NEW q \in Nat, 1 <= p, p <= q PROVE Start(p) <= Start(q)
  <2>1. /\ (q - 1) * f = (p - 1) * f + (q - p) * f /\ (q - p) * f \in Nat
        /\ (p - 1) * f \in Nat
    BY <1>1, <1>4
  <2> QED BY <1>1, <1>2, <2>1
<1> QED BY <1>3, <1>4 DEF f

LEMMA Sooner ==
  /\ \A x, y \in Int : x <= y /\ Soon(y) => Soon(x)
  /\ \A x \in Int : x <= 0 => Soon(x)
<1>1. FramesOf \in Nat /\ UsOf \in Nat /\ UsOf > 0 BY PcmAssumption
<1>2. ASSUME NEW x \in Int, NEW y \in Int, x <= y, Soon(y) PROVE Soon(x)
  <2>1. x * FramesOf <= y * FramesOf /\ x * FramesOf \in Int /\ y * FramesOf \in Int
    BY <1>1, <1>2
  <2> QED BY <1>1, <1>2, <2>1 DEF Soon
<1>3. ASSUME NEW x \in Int, x <= 0 PROVE Soon(x)
  <2>1. x * FramesOf <= 0 /\ x * FramesOf \in Int BY <1>1, <1>3
  <2> QED BY <1>1, <2>1 DEF Soon
<1> QED BY <1>2, <1>3

(* The chunk ends before the packet begins, and a before b.                *)
Precedes(c, p) == c.pts # NoPts => Soon(EndOf(c) - Start(p))
Follows(a, b) ==
  a.epoch = b.epoch /\ a.pts # NoPts /\ b.pts # NoPts => Soon(EndOf(a) - b.pts)

LEMMA CutPrecedes ==
  ASSUME NEW c, Measured(c), NEW t, Cut(t, c), NEW p \in Nat, NEW q \in Nat, 1 <= p, p <= q,
         Precedes(c, p)
  PROVE  Precedes(t, q)
<1> SUFFICES ASSUME t.pts # NoPts PROVE Soon(EndOf(t) - Start(q)) BY DEF Precedes
<1>1. c.pts # NoPts /\ EndOf(t) <= EndOf(c) BY DEF Cut
<1>2. EndOf(c) \in Nat /\ EndOf(t) \in Nat BY <1>1, CutSelf, CutMeasured
<1>3. Start(p) \in Nat /\ Start(q) \in Nat /\ Start(p) <= Start(q)
  <2>1. 1 <= q /\ p >= 1 /\ q >= 1 OBVIOUS
  <2> QED BY <2>1, Starts
<1>4. Soon(EndOf(c) - Start(p)) BY <1>1 DEF Precedes
<1>5. /\ EndOf(t) - Start(q) <= EndOf(c) - Start(p)
      /\ EndOf(t) - Start(q) \in Int /\ EndOf(c) - Start(p) \in Int
  BY <1>1, <1>2, <1>3
<1> QED BY <1>4, <1>5, Sooner

LEMMA CutFollows ==
  ASSUME NEW a, Measured(a), NEW b, Measured(b), NEW t, Cut(t, a), NEW u, Cut(u, b), Follows(a, b)
  PROVE  Follows(t, u)
<1> SUFFICES ASSUME t.epoch = u.epoch, t.pts # NoPts, u.pts # NoPts PROVE Soon(EndOf(t) - u.pts)
  BY DEF Follows
<1>1. /\ a.pts # NoPts /\ b.pts # NoPts /\ a.epoch = b.epoch /\ EndOf(t) <= EndOf(a)
      /\ b.pts <= u.pts
  BY DEF Cut
<1>2. EndOf(a) \in Nat /\ EndOf(t) \in Nat /\ b.pts \in Nat /\ u.pts \in Nat
  BY <1>1, CutSelf, CutMeasured
<1>3. Soon(EndOf(a) - b.pts) BY <1>1 DEF Follows
<1>4. /\ EndOf(t) - u.pts <= EndOf(a) - b.pts
      /\ EndOf(t) - u.pts \in Int /\ EndOf(a) - b.pts \in Int
  BY <1>1, <1>2
<1> QED BY <1>3, <1>4, Sooner
-----------------------------------------------------------------------------
(* A chunk of one packet at most, within its time.                         *)
Fitted(c) ==
  /\ Measured(c) /\ c.frames <= PacketFrames
  /\ c.pts # NoPts => Start(c.packet) <= c.pts /\ EndOf(c) <= Start(c.packet + 1)
OnStart(c) == c.pts # NoPts => c.pts = Start(c.packet)

Sizes ==
  /\ AllMeasured(pcm) /\ Counts(pcm)
  /\ InHand => Fitted(chunk)
  /\ pc = "Push" => OnStart(chunk)
  /\ sought.target \in Nat /\ pcm.target \in Nat

(* The silence of a seek finds room: until the alignment is over there is  *)
(* one packet's chunk at most, and none while one is about to be appended. *)
Fits ==
  /\ pcm.queued <= CapacityFrames
  /\ pcm.aborted => pcm.chunks = <<>>
  /\ pcm.aligning => pcm.queued <= IF pc = "Append" THEN 0 ELSE PacketFrames

InTime ==
  /\ \A k \in DOMAIN pcm.chunks : \A x \in Coming :
       pcm.chunks[k].epoch = x.e => Precedes(pcm.chunks[k], x.p)
  /\ \A i, j \in DOMAIN pcm.chunks : i < j => Follows(pcm.chunks[i], pcm.chunks[j])

(* While a seek is aligned there is nothing of it in the buffer, and what  *)
(* is of before it is not followed by more of the same.                    *)
Alone ==
  pcm.aligning =>
    /\ \A k \in DOMAIN pcm.chunks : pcm.chunks[k].epoch < pcm.serial
    /\ pc = "Append" => chunk.epoch < pcm.serial
    /\ pc # "Append" /\ (pc = "Push" => serial = pcm.serial) =>
         \A x \in Held : x.e < pcm.serial => pcm.chunks = <<>>

(* From the packet that ends the alignment on, nothing begins before the   *)
(* target.  A chunk that is about to be appended was cut, its packet may   *)
(* begin before.                                                           *)
NotBefore(c) == c.epoch = pcm.serial /\ c.pts # NoPts => c.pts >= pcm.target
Later == (IF pc = "Append" THEN {} ELSE Held) \union Waiting \union {Following}

OnTarget ==
  pcm.alignedBy = pcm.serial =>
    /\ ~pcm.aligning
    /\ \A k \in DOMAIN pcm.chunks : NotBefore(pcm.chunks[k])
    /\ pc = "Append" => NotBefore(chunk)
    /\ \A x \in Later : x.e = pcm.serial => Start(x.p) >= pcm.target

Timed == Sizes /\ Fits /\ InTime /\ Alone /\ OnTarget

(* What a buffer is left with when nothing is put into it.                 *)
Shrunk(a, b) ==
  /\ Counts(a) /\ a.queued <= b.queued
  /\ \E n \in Nat : \A k \in DOMAIN a.chunks :
       k \in Nat /\ k + n \in DOMAIN b.chunks /\ Cut(a.chunks[k], b.chunks[k + n])

LEMMA ShrunkCases ==
  ASSUME NEW b, IsBuffer(b), AllMeasured(b), Counts(b)
  PROVE  /\ Shrunk(b, b)
         /\ \A a : a.chunks = <<>> /\ a.queued = 0 => Shrunk(a, b)
         /\ \A m \in Nat : Shrunk(TakeFrames(b, m), b)
<1>1. DOMAIN b.chunks = 1 .. Len(b.chunks) /\ Len(b.chunks) \in Nat /\ b.queued \in Nat
  BY DEF IsBuffer, IsChunks, Counts
<1>2. Shrunk(b, b)
  <2>1. \A k \in DOMAIN b.chunks : /\ k \in Nat /\ k + 0 \in DOMAIN b.chunks
                                   /\ Cut(b.chunks[k], b.chunks[k + 0])
    <3> SUFFICES ASSUME NEW k \in DOMAIN b.chunks
                 PROVE  /\ k \in Nat /\ k + 0 \in DOMAIN b.chunks
                        /\ Cut(b.chunks[k], b.chunks[k + 0])
      OBVIOUS
    <3>1. k \in Nat /\ k + 0 = k BY <1>1
    <3>2. Cut(b.chunks[k], b.chunks[k]) BY CutSelf DEF AllMeasured
    <3> QED BY <3>1, <3>2
  <2> QED BY <1>1, <2>1 DEF Shrunk
<1>3. ASSUME NEW a, a.chunks = <<>>, a.queued = 0 PROVE Shrunk(a, b)
  <2>1. Len(a.chunks) = 0 /\ DOMAIN a.chunks = {} BY <1>3
  <2>2. FramesIn(a.chunks, 0) = 0 BY Sums
  <2>3. Counts(a) BY <1>3, <2>1, <2>2 DEF Counts
  <2> QED BY <1>1, <1>3, <2>1, <2>3 DEF Shrunk
<1>4. ASSUME NEW m \in Nat PROVE Shrunk(TakeFrames(b, m), b)
  BY TakenCut DEF Shrunk
<1> QED BY <1>2, <1>3, <1>4

(* The steps which put nothing into the buffer and have no chunk to align. *)
LEMMA QuietStep ==
  ASSUME Typed, Counted, QueueFresh, Single, Ordered, Timed, Next,
         SameSeek(pcm', pcm), Shrunk(pcm', pcm), pcm'.aborted => pcm'.chunks = <<>>,
         pc' = "Append" <=> pc = "Append", pc' = "Push" <=> pc = "Push",
         InHand => UNCHANGED <<chunk, serial>>, sought'.target \in Nat
  PROVE  Timed'
<1>0. /\ IsBuffer(pcm) /\ AllMeasured(pcm) /\ Counts(pcm) /\ pcm.serial \in Nat /\ seeks \in Nat
      /\ pcm'.serial = pcm.serial /\ pcm'.target = pcm.target
      /\ (pcm'.aligning <=> pcm.aligning) /\ pcm'.alignedBy = pcm.alignedBy
      /\ pcm.serial <= seeks
  BY DEF Typed, IsBuffer, Timed, Sizes, SameSeek, Counted, Current
<1>1. /\ Counts(pcm') /\ pcm'.queued <= pcm.queued
      /\ \E n \in Nat : \A k \in DOMAIN pcm'.chunks :
           k \in Nat /\ k + n \in DOMAIN pcm.chunks /\ Cut(pcm'.chunks[k], pcm.chunks[k + n])
  BY DEF Shrunk
<1>2. PICK n \in Nat : \A k \in DOMAIN pcm'.chunks :
        k \in Nat /\ k + n \in DOMAIN pcm.chunks /\ Cut(pcm'.chunks[k], pcm.chunks[k + n])
  BY <1>1
<1>3. /\ Held \subseteq Packets /\ Waiting \subseteq Packets /\ Following \in Packets
      /\ Coming \subseteq Packets /\ \A x \in Packets : x.p \in Nat /\ x.e \in Nat
  BY ComingType
<1>4. /\ \A y \in Held' : y \in Held \/ (y \in Waiting /\ pc = "Pop")
      /\ Behind(Waiting \union {Following}, (Waiting \union {Following})')
  BY ComingStep
<1>5. /\ InHand' <=> InHand
      /\ InHand => UNCHANGED <<chunk, serial>>
  BY DEF InHand
<1>6. \A k \in DOMAIN pcm.chunks : pcm.chunks[k].epoch \in Nat /\ pcm.chunks[k].epoch <= seeks
  BY <1>0 DEF IsBuffer, IsChunks, IsChunk, Ordered
<1>7. \A k \in DOMAIN pcm'.chunks : pcm'.chunks[k].epoch = pcm.chunks[k + n].epoch
  BY <1>2 DEF Cut
<1>8. pcm.chunks = <<>> => pcm'.chunks = <<>>
  <2> SUFFICES ASSUME pcm.chunks = <<>> PROVE pcm'.chunks = <<>> OBVIOUS
  <2>1. DOMAIN pcm'.chunks = {} BY <1>2
  <2>2. IsChunks(pcm'.chunks) BY TypedStep DEF Typed, IsBuffer
  <2>3. pcm'.chunks \in Seq({pcm'.chunks[k] : k \in DOMAIN pcm'.chunks}) BY <2>2 DEF IsChunks
  <2> QED BY <2>1, <2>3
<1>9. Sizes'
  <2>1. AllMeasured(pcm') BY <1>2, CutMeasured DEF AllMeasured
  <2>2. (InHand => Fitted(chunk))' BY <1>5 DEF Timed, Sizes, Fitted
  <2>3. (pc = "Push" => OnStart(chunk))' BY <1>5 DEF Timed, Sizes, OnStart, InHand
  <2>4. pcm'.target \in Nat BY <1>0 DEF Timed, Sizes
  <2> QED BY <1>1, <2>1, <2>2, <2>3, <2>4 DEF Sizes
<1>10. Fits'
  <2>1. pcm.queued \in Nat /\ pcm'.queued \in Nat BY <1>0, <1>1 DEF Counts
  <2>2. CapacityFrames \in Nat /\ PacketFrames \in Nat BY PcmAssumption, AudioAssumption
  <2>3. pcm'.queued <= CapacityFrames BY <1>1, <2>1, <2>2 DEF Timed, Fits
  <2>4. pcm'.aligning => pcm'.queued <= IF pc' = "Append" THEN 0 ELSE PacketFrames
    BY <1>0, <1>1, <2>1, <2>2 DEF Timed, Fits
  <2> QED BY <2>3, <2>4 DEF Fits
<1>11. InTime'
  <2>1. \A k \in DOMAIN pcm.chunks : \A x \in Coming :
          pcm.chunks[k].epoch = x.e => Precedes(pcm.chunks[k], x.p)
    BY DEF Timed, InTime
  <2>2. \A x \in Coming : x.p >= 1 BY DEF Ordered
  <2>3. ASSUME NEW k \in DOMAIN pcm'.chunks, NEW y \in Coming', pcm'.chunks[k].epoch = y.e
        PROVE  Precedes(pcm'.chunks[k], y.p)
    <3>1. /\ k + n \in DOMAIN pcm.chunks /\ Cut(pcm'.chunks[k], pcm.chunks[k + n])
          /\ pcm.chunks[k + n].epoch = y.e /\ Measured(pcm.chunks[k + n])
      BY <1>0, <1>2, <1>7, <2>3 DEF AllMeasured
    <3>2. \E x \in Coming : x.e = y.e /\ x.p <= y.p /\ y.p \in Nat
      <4>1. CASE y \in Held'
        <5>1. y \in Coming /\ y \in Packets BY <1>3, <1>4, <4>1 DEF Coming
        <5>2. y.e = y.e /\ y.p <= y.p /\ y.p \in Nat BY <1>3, <5>1
        <5> QED BY <5>1, <5>2
      <4>2. CASE y \in (Waiting \union {Following})'
        <5>1. ~ (y.e > seeks) BY <1>0, <1>6, <3>1
        <5>2. \E x \in Waiting \union {Following} : x.e = y.e /\ x.p <= y.p
          BY <1>4, <4>2, <5>1 DEF Behind
        <5>3. y.p \in Nat BY <1>3, <4>2, NextType
        <5> QED BY <5>2, <5>3 DEF Coming
      <4> QED BY <4>1, <4>2 DEF Coming
    <3>3. PICK x \in Coming : x.e = y.e /\ x.p <= y.p /\ y.p \in Nat BY <3>2
    <3>4. x.p \in Nat /\ 1 <= x.p BY <1>3, <2>2
    <3>5. Precedes(pcm.chunks[k + n], x.p) BY <2>1, <3>1, <3>3
    <3> QED BY <3>1, <3>3, <3>4, <3>5, CutPrecedes
  <2>4. ASSUME NEW i \in DOMAIN pcm'.chunks, NEW j \in DOMAIN pcm'.chunks, i < j
        PROVE  Follows(pcm'.chunks[i], pcm'.chunks[j])
    <3>1. /\ i + n \in DOMAIN pcm.chunks /\ Cut(pcm'.chunks[i], pcm.chunks[i + n])
          /\ j + n \in DOMAIN pcm.chunks /\ Cut(pcm'.chunks[j], pcm.chunks[j + n])
          /\ i \in Nat /\ j \in Nat
      BY <1>2
    <3>2. i + n < j + n BY <2>4, <3>1
    <3>3. Follows(pcm.chunks[i + n], pcm.chunks[j + n]) BY <3>1, <3>2 DEF Timed, InTime
    <3>4. Measured(pcm.chunks[i + n]) /\ Measured(pcm.chunks[j + n])
      BY <1>0, <3>1 DEF AllMeasured
    <3> QED BY <3>1, <3>3, <3>4, CutFollows
  <2> QED BY <2>3, <2>4 DEF InTime
<1>12. Alone'
  <2> SUFFICES ASSUME pcm'.aligning PROVE Alone' BY DEF Alone
  <2>1. pcm.aligning BY <1>0
  <2>2. \A k \in DOMAIN pcm'.chunks : pcm'.chunks[k].epoch < pcm'.serial
    BY <1>0, <1>2, <1>7, <2>1 DEF Timed, Alone
  <2>3. pc' = "Append" => chunk'.epoch < pcm'.serial
    BY <1>0, <1>5, <2>1 DEF Timed, Alone, InHand
  <2>4. ASSUME pc' # "Append", pc' = "Push" => serial' = pcm'.serial, NEW x \in Held',
               x.e < pcm'.serial
        PROVE  pcm'.chunks = <<>>
    <3>1. x \in Held
      <4>1. \A y \in Waiting : y.e >= pcm.serial
        <5>1. Waiting = {queue.items[k] : k \in DOMAIN queue.items} BY DEF Waiting
        <5>2. Current \in Nat /\ Current >= pcm.serial BY <1>0 DEF Current
        <5>3. \A y \in Waiting : y.e >= Current BY <5>1 DEF QueueFresh
        <5>4. \A y \in Waiting : y.e \in Nat BY <1>3
        <5> QED BY <1>0, <5>2, <5>3, <5>4
      <4>2. x \in Waiting => x.e \in Nat BY <1>3
      <4> QED BY <1>0, <1>4, <2>4, <4>1, <4>2
    <3>2. pc # "Append" /\ (pc = "Push" => serial = pcm.serial)
      BY <1>0, <1>5, <2>4 DEF InHand
    <3>3. pcm.chunks = <<>> BY <1>0, <2>1, <2>4, <3>1, <3>2 DEF Timed, Alone
    <3> QED BY <1>8, <3>3
  <2> QED BY <2>2, <2>3, <2>4 DEF Alone
<1>13. OnTarget'
  <2> SUFFICES ASSUME pcm'.alignedBy = pcm'.serial PROVE OnTarget' BY DEF OnTarget
  <2>1. /\ ~pcm.aligning
        /\ \A k \in DOMAIN pcm.chunks : NotBefore(pcm.chunks[k])
        /\ pc = "Append" => NotBefore(chunk)
        /\ \A x \in Later : x.e = pcm.serial => Start(x.p) >= pcm.target
    BY <1>0 DEF Timed, OnTarget
  <2>2. pcm.target \in Nat BY DEF Timed, Sizes
  <2>3. ASSUME NEW k \in DOMAIN pcm'.chunks
        PROVE  (NotBefore(pcm.chunks[k]))'
    <3> DEFINE t == pcm'.chunks[k]
               c == pcm.chunks[k + n]
    <3>1. Cut(t, c) /\ NotBefore(c) /\ Measured(c) BY <1>0, <1>2, <2>1 DEF AllMeasured
    <3> HIDE DEF t, c
    <3>2. t.epoch = pcm.serial /\ t.pts # NoPts => t.pts >= pcm.target
      <4> SUFFICES ASSUME t.epoch = pcm.serial, t.pts # NoPts PROVE t.pts >= pcm.target OBVIOUS
      <4>1. c.epoch = pcm.serial /\ c.pts # NoPts /\ t.pts \in Nat /\ c.pts <= t.pts
        BY <3>1 DEF Cut
      <4>2. c.pts >= pcm.target /\ c.pts \in Nat BY <3>1, <4>1 DEF NotBefore, Measured
      <4> QED BY <2>2, <4>1, <4>2
    <3> QED BY <1>0, <3>2 DEF NotBefore, t
  <2>4. (pc = "Append" => NotBefore(chunk))'
    BY <1>0, <1>5, <2>1 DEF NotBefore, InHand
  <2>5. ASSUME NEW y \in Later', y.e = pcm.serial
        PROVE  Start(y.p) >= pcm.target
    <3>1. \E x \in Later : x.e = y.e /\ x.p <= y.p /\ y.p \in Nat
      <4>1. CASE y \in Held' /\ pc' # "Append"
        <5>1. y \in Later /\ y \in Packets BY <1>3, <1>4, <4>1 DEF Later
        <5>2. y.e = y.e /\ y.p <= y.p /\ y.p \in Nat BY <1>3, <5>1
        <5> QED BY <5>1, <5>2
      <4>2. CASE y \in (Waiting \union {Following})'
        <5>1. ~ (y.e > seeks) BY <1>0, <2>5
        <5>2. \E x \in Waiting \union {Following} : x.e = y.e /\ x.p <= y.p
          BY <1>4, <4>2, <5>1 DEF Behind
        <5>3. y.p \in Nat BY <1>3, <4>2, NextType
        <5> QED BY <5>2, <5>3 DEF Later
      <4> QED BY <4>1, <4>2 DEF Later
    <3>2. PICK x \in Later : x.e = y.e /\ x.p <= y.p /\ y.p \in Nat BY <3>1
    <3>3. x \in Coming BY DEF Later, Coming
    <3>4. x.p \in Nat /\ 1 <= x.p BY <1>3, <3>3 DEF Ordered
    <3>5. Start(x.p) >= pcm.target BY <2>1, <2>5, <3>2
    <3>6. Start(x.p) <= Start(y.p) /\ Start(x.p) \in Nat /\ Start(y.p) \in Nat
      <4>1. 1 <= y.p /\ y.p >= 1 /\ x.p >= 1 BY <3>2, <3>4
      <4> QED BY <3>2, <3>4, <4>1, Starts
    <3> QED BY <2>2, <3>5, <3>6
  <2> QED BY <1>0, <2>1, <2>3, <2>4, <2>5 DEF OnTarget
<1> QED BY <1>9, <1>10, <1>11, <1>12, <1>13 DEF Timed

LEMMA TimedInit == Init => Single /\ Ordered /\ Timed
<1> SUFFICES ASSUME Init PROVE Single /\ Ordered /\ Timed OBVIOUS
<1>1. /\ dx = "Loop" /\ dxNext = 1 /\ seeks = 0 /\ queue.items = <<>> /\ pc = "Loop"
      /\ codec = <<>> /\ sought.target = 0
      /\ pcm.chunks = <<>> /\ pcm.serial = 0 /\ pcm.queued = 0 /\ pcm.target = 0
      /\ pcm.alignedBy = -1 /\ ~pcm.aligning /\ ~pcm.aborted
  BY DEF Init, NewQueue, NewBuffer
<1>2. Single BY <1>1 DEF Single
<1>3. Held = {} /\ Waiting = {} /\ Following.e = 0 /\ Following.p = 1
  BY <1>1 DEF Held, InHand, Waiting, Following, Packet
<1>4. Ordered BY <1>1, <1>3 DEF Ordered, Coming, InOrder
<1>5. Sizes
  <2>1. FramesIn(<<>>, 0) = 0 BY Sums
  <2>2. Len(pcm.chunks) = 0 BY <1>1
  <2>3. Counts(pcm) BY <1>1, <2>1, <2>2 DEF Counts
  <2> QED BY <1>1, <2>3 DEF Sizes, AllMeasured, InHand
<1>6. Fits BY <1>1, PcmAssumption DEF Fits
<1>7. InTime /\ Alone BY <1>1 DEF InTime, Alone
<1>8. pcm.alignedBy # pcm.serial BY <1>1
<1>9. OnTarget BY <1>8 DEF OnTarget
<1> QED BY <1>2, <1>4, <1>5, <1>6, <1>7, <1>9 DEF Timed

(* begin_seek: the buffer is empty, and what is on its way is of before.   *)
LEMMA BeginTimed ==
  ASSUME Typed, Counted, QueueFresh, Single, Ordered, Timed, NotifyBegin
  PROVE  Timed'
<1> USE DEF demuxVars, decodeVars, engineVars
<1>0. IsBuffer(pcm) /\ pcm.serial \in Nat /\ seeks \in Nat BY DEF Typed, IsBuffer
<1> DEFINE b == BeginSeek(pcm, sought.target, sought.exact)
<1>1. /\ b.chunks = <<>> /\ b.serial = pcm.serial + 1 /\ b.queued = 0 /\ b.aligning
      /\ b.target = sought.target /\ b.alignedBy = -1 /\ b.aborted = pcm.aborted
  BY <1>0, Begun
<1>2. pcm' = b /\ dx = "Begin" /\ UNCHANGED <<pc, chunk, serial, packet, codec, sought, seeks>>
  BY DEF NotifyBegin
<1> HIDE DEF b
<1>3. /\ pcm'.chunks = <<>> /\ pcm'.serial = pcm.serial + 1 /\ pcm'.queued = 0 /\ pcm'.aligning
      /\ pcm'.target = sought.target /\ pcm'.alignedBy = -1
  BY <1>1, <1>2
<1>4. InHand' <=> InHand BY <1>2 DEF InHand
<1>5. seeks = pcm.serial + 1 BY <1>2 DEF Counted
<1>6. Sizes'
  <2>1. FramesIn(<<>>, 0) = 0 BY Sums
  <2>2. Len(pcm'.chunks) = 0 BY <1>3
  <2>3. Counts(pcm') BY <1>3, <2>1, <2>2 DEF Counts
  <2>4. (InHand => Fitted(chunk))' BY <1>2, <1>4 DEF Timed, Sizes, Fitted
  <2>5. (pc = "Push" => OnStart(chunk))' BY <1>2 DEF Timed, Sizes, OnStart
  <2>6. sought'.target \in Nat /\ pcm'.target \in Nat BY <1>2, <1>3 DEF Timed, Sizes
  <2>7. AllMeasured(pcm') BY <1>3 DEF AllMeasured
  <2> QED BY <2>3, <2>4, <2>5, <2>6, <2>7 DEF Sizes
<1>7. Fits' BY <1>3, PcmAssumption, AudioAssumption DEF Fits
<1>8. InTime' BY <1>3 DEF InTime
<1>9. Alone'
  <2>1. ASSUME pc' = "Append" PROVE chunk'.epoch < pcm'.serial
    <3>1. Packet(chunk.packet, chunk.epoch) \in Held BY <1>2, <2>1 DEF Held, InHand
    <3>2. Packet(chunk.packet, chunk.epoch).e < seeks BY <1>2, <3>1 DEF Ordered
    <3>3. chunk.epoch < seeks BY <3>2 DEF Packet
    <3> QED BY <1>2, <1>3, <1>5, <3>3
  <2> QED BY <1>3, <2>1 DEF Alone
<1>10. pcm'.alignedBy # pcm'.serial BY <1>0, <1>3
<1>11. OnTarget' BY <1>10 DEF OnTarget
<1> QED BY <1>6, <1>7, <1>8, <1>9, <1>11 DEF Timed

(* A packet's frame is the samples of the file's time of that packet.      *)
LEMMA ReceiveTimed ==
  ASSUME Typed, Counted, QueueFresh, Single, Ordered, Timed, ReceiveFrame
  PROVE  Timed'
<1> USE DEF demuxVars, decodeVars, engineVars
<1>1. PICK x \in Packets : codec = <<x>> BY DEF ReceiveFrame, Single
<1>2. /\ chunk' = Chunk(PacketFrames, PacketPts(x.p), x.p, x.e) /\ serial' = pcm.serial
      /\ pc = "Receive" /\ pc' = "Push" /\ pcm' = pcm
      /\ UNCHANGED <<sought, queue, dxNext, seeks>>
  BY <1>1 DEF ReceiveFrame
<1>3. /\ chunk'.frames = PacketFrames /\ chunk'.pts = PacketPts(x.p) /\ chunk'.packet = x.p
      /\ chunk'.epoch = x.e
  BY <1>2 DEF Chunk
<1>4. Held = {x} BY <1>1, <1>2 DEF Held
<1>5. Held' = {Packet(x.p, x.e)} BY <1>2, <1>3 DEF Held, InHand
<1>6. Packet(x.p, x.e) = x BY DEF Packet, Packets
<1>7. /\ Held' = Held /\ Waiting' = Waiting /\ Following' = Following
      /\ Coming' = Coming /\ Later' = Later
  <2>1. Held' = Held /\ Waiting' = Waiting /\ Following' = Following
    BY <1>2, <1>4, <1>5, <1>6 DEF Waiting, Following
  <2> QED BY <1>2, <2>1 DEF Coming, Later
<1>8. Fitted(chunk)' /\ OnStart(chunk)'
  <2>1. x.p \in Nat /\ x.p >= 1 BY <1>4 DEF Ordered, Coming, Packets
  <2>2. /\ Start(x.p) \in Nat /\ Start(x.p + 1) = Start(x.p) + FramesToUs(PacketFrames)
    BY <2>1, Starts
  <2>3. PacketPts(x.p) = NoPts \/ PacketPts(x.p) = Start(x.p) BY DEF PacketPts, Start
  <2>4. PacketFrames \in Nat BY AudioAssumption
  <2>5. FramesToUs(PacketFrames) \in Nat BY <2>4, ToUs
  <2>6. chunk'.pts # NoPts => chunk'.pts = Start(x.p) BY <1>3, <2>3
  <2>7. Measured(chunk)' BY <1>3, <2>2, <2>3, <2>4 DEF Measured
  <2>8. chunk'.pts # NoPts => EndOf(chunk)' = Start(x.p + 1) BY <1>3, <2>2, <2>6 DEF EndOf
  <2>9. chunk'.frames <= PacketFrames BY <1>3, <2>4
  <2>10. chunk'.pts # NoPts => Start(x.p) <= chunk'.pts /\ EndOf(chunk)' <= Start(x.p + 1)
    BY <2>2, <2>5, <2>6, <2>8
  <2>11. Fitted(chunk)' BY <1>3, <2>7, <2>9, <2>10 DEF Fitted, Start
  <2>12. OnStart(chunk)' BY <1>3, <2>6 DEF OnStart, Start
  <2> QED BY <2>11, <2>12
<1>9. Sizes' BY <1>2, <1>8 DEF Timed, Sizes, Counts, AllMeasured
<1>10. Fits' BY <1>2 DEF Timed, Fits
<1>11. InTime' BY <1>2, <1>7 DEF Timed, InTime, Precedes, Start
<1>12. Alone' BY <1>2, <1>7 DEF Timed, Alone
<1>13. OnTarget' BY <1>2, <1>7 DEF Timed, OnTarget, NotBefore, Start
<1> QED BY <1>9, <1>10, <1>11, <1>12, <1>13 DEF Timed

(* push up to its wait: what it does to the buffer, to the chunk and to    *)
(* the alignment.                                                          *)
Entered ==
  /\ pcm'.serial = pcm.serial /\ pcm'.target = pcm.target /\ pcm'.aborted = pcm.aborted
  /\ pcm'.aligning => pcm.aligning /\ pc' = "Receive"
  /\ \/ pcm'.chunks = pcm.chunks /\ pcm'.queued = pcm.queued
     \/ \E q : /\ Before(q, chunk, pcm.target) /\ pcm.aligning /\ serial = pcm.serial
               /\ chunk.pts # NoPts /\ ~pcm'.aligning /\ ~pcm'.aborted
               /\ pcm'.chunks = Append(pcm.chunks, q) /\ pcm'.queued = pcm.queued + q.frames
  /\ \/ pc' = "Receive"
     \/ /\ pc' = "Append" /\ Cut(chunk', chunk)
        /\ chunk'.packet = chunk.packet /\ chunk'.epoch = chunk.epoch
  /\ \/ /\ pcm'.alignedBy = pcm.alignedBy /\ pcm'.chunks = pcm.chunks
        /\ pc' = "Append" => chunk' = chunk
     \/ /\ pcm'.alignedBy = chunk.epoch
        /\ pcm.aligning /\ ~pcm'.aligning /\ chunk.pts # NoPts
        /\ \/ chunk.pts < pcm.target /\ pcm.target < EndOf(chunk)
           \/ chunk.pts >= pcm.target
        /\ pc' = "Append" => chunk'.pts >= pcm.target

LEMMA EnterCases ==
  ASSUME Typed, Timed, PushEnter
  PROVE  Entered
<1>0. /\ IsBuffer(pcm) /\ IsChunk(chunk) /\ pcm.target \in Nat /\ pc = "Push"
      /\ Fitted(chunk) /\ OnStart(chunk) /\ Measured(chunk)
  BY DEF Typed, PushEnter, Timed, Sizes, InHand, Fitted
<1> DEFINE a == AlignAfterSeek(pcm, chunk)
<1>1. /\ Aligning(pcm, chunk, a)
      /\ a.buf.serial = pcm.serial /\ a.buf.target = pcm.target /\ a.buf.aborted = pcm.aborted
      /\ IsChunk(a.chunk) /\ a.chunk.packet = chunk.packet /\ a.chunk.epoch = chunk.epoch
  <2>1. /\ Aligning(pcm, chunk, a)
        /\ a.buf.serial = pcm.serial /\ a.buf.target = pcm.target /\ a.buf.aborted = pcm.aborted
    BY <1>0, AlignedCases
  <2>2. IsChunk(a.chunk) /\ a.chunk.packet = chunk.packet /\ a.chunk.epoch = chunk.epoch
    BY <1>0, Aligned
  <2> HIDE DEF a
  <2> QED BY <2>1, <2>2
<1>2. CASE pcm.aborted \/ serial # pcm.serial
  <2>1. pcm' = pcm /\ pc' = "Receive" BY <1>2 DEF PushEnter
  <2> QED BY <2>1 DEF Entered
<1>3. CASE ~ (pcm.aborted \/ serial # pcm.serial)
  <2>1. /\ pcm' = a.buf /\ ~pcm.aborted /\ serial = pcm.serial
        /\ pc' = IF a.keep THEN "Append" ELSE "Receive"
        /\ a.keep => chunk' = CappedChunk(a.chunk)
    BY <1>3 DEF PushEnter
  <2> HIDE DEF a
  <2>2. Cut(a.chunk, chunk) \/ ~a.keep
    BY <1>0, <1>1, CutSelf DEF Aligning
  <2>3. a.keep => chunk' = a.chunk
    <3> SUFFICES ASSUME a.keep PROVE CappedChunk(a.chunk) = a.chunk BY <2>1
    <3>1. a.chunk.frames \in Nat /\ a.chunk.frames <= chunk.frames BY <2>2 DEF Cut
    <3>2. chunk.frames \in Nat /\ chunk.frames <= PacketFrames BY <1>0 DEF Fitted, Measured
    <3>3. /\ PacketFrames \in Nat /\ CapacityFrames \in Nat
          /\ PacketFrames + UsToFrames(SmallSeekGapUs) <= CapacityFrames
          /\ UsToFrames(SmallSeekGapUs) \in Nat
      <4>1. SmallSeekGapUs \in Int BY PcmAssumption
      <4> QED BY <4>1, PcmAssumption, AudioAssumption, ToFrames
    <3>4. ~ (a.chunk.frames > CapacityFrames) BY <3>1, <3>2, <3>3
    <3> QED BY <3>4 DEF CappedChunk
  <2>4. /\ pc' = "Receive" /\ ~a.keep
        \/ /\ pc' = "Append" /\ a.keep /\ chunk' = a.chunk /\ Cut(chunk', chunk)
           /\ chunk'.packet = chunk.packet /\ chunk'.epoch = chunk.epoch
    BY <1>1, <2>1, <2>2, <2>3
  <2>5. pcm'.serial = pcm.serial /\ pcm'.target = pcm.target /\ pcm'.aborted = pcm.aborted
    BY <1>1, <2>1
  <2>6. /\ a.buf = pcm' /\ (pc' = "Append" => a.keep /\ chunk' = a.chunk)
        /\ (a.keep => pc' = "Append") /\ ~pcm'.aborted
    BY <2>1, <2>4, <2>5
  <2>7. CASE ~pcm.aligning /\ a.buf = pcm /\ a.chunk = chunk /\ a.keep
    BY <2>4, <2>5, <2>6, <2>7 DEF Entered
  <2>8. CASE /\ pcm.aligning /\ Untimed(chunk) /\ a.chunk = chunk /\ a.keep
             /\ ~a.buf.aligning /\ a.buf.alignedBy = pcm.alignedBy
             /\ a.buf.chunks = pcm.chunks /\ a.buf.queued = pcm.queued
    BY <2>4, <2>5, <2>6, <2>8 DEF Entered
  <2>9. CASE pcm.aligning /\ a.buf = pcm /\ ~a.keep
    BY <2>4, <2>5, <2>6, <2>9 DEF Entered
  <2>10. CASE /\ pcm.aligning /\ chunk.pts # NoPts /\ chunk.pts < pcm.target
              /\ pcm.target < EndOf(chunk)
              /\ Cut(a.chunk, chunk) /\ a.chunk.pts # NoPts /\ a.chunk.pts >= pcm.target
              /\ ~a.buf.aligning /\ a.buf.alignedBy = chunk.epoch
              /\ a.buf.chunks = pcm.chunks /\ a.buf.queued = pcm.queued
    BY <2>4, <2>5, <2>6, <2>10 DEF Entered
  <2>11. CASE /\ pcm.aligning /\ chunk.pts # NoPts /\ chunk.pts >= pcm.target /\ a.chunk = chunk
              /\ a.keep /\ ~a.buf.aligning /\ a.buf.alignedBy = chunk.epoch
              /\ \/ a.buf.chunks = pcm.chunks /\ a.buf.queued = pcm.queued
                 \/ \E q : /\ Before(q, chunk, pcm.target)
                           /\ a.buf.chunks = Append(pcm.chunks, q)
                           /\ a.buf.queued = pcm.queued + q.frames
    <3>1. \/ pcm'.chunks = pcm.chunks /\ pcm'.queued = pcm.queued
          \/ \E q : /\ Before(q, chunk, pcm.target) /\ pcm.aligning /\ serial = pcm.serial
                    /\ chunk.pts # NoPts /\ ~pcm'.aligning /\ ~pcm'.aborted
                    /\ pcm'.chunks = Append(pcm.chunks, q)
                    /\ pcm'.queued = pcm.queued + q.frames
      BY <2>1, <2>6, <2>11
    <3> QED BY <2>4, <2>5, <2>6, <2>11, <3>1 DEF Entered
  <2> QED BY <1>1, <2>7, <2>8, <2>9, <2>10, <2>11 DEF Aligning
<1> QED BY <1>2, <1>3

LEMMA EnterTimed ==
  ASSUME Typed, Counted, QueueFresh, Single, Ordered, Timed, PushEnter
  PROVE  Timed'
<1> USE DEF demuxVars, decodeVars, engineVars
<1> DEFINE x == Packet(chunk.packet, chunk.epoch)
<1>0. /\ IsBuffer(pcm) /\ IsChunk(chunk) /\ pcm.target \in Nat /\ pc = "Push"
      /\ Fitted(chunk) /\ OnStart(chunk) /\ Measured(chunk) /\ AllMeasured(pcm) /\ Counts(pcm)
      /\ pcm.serial \in Nat
  BY DEF Typed, IsBuffer, PushEnter, Timed, Sizes, InHand, Fitted
<1>1. Entered BY EnterCases
<1>2. /\ pcm'.serial = pcm.serial /\ pcm'.target = pcm.target /\ pcm'.aborted = pcm.aborted
      /\ pcm'.aligning => pcm.aligning /\ pc' = "Receive"
      /\ \/ pc' = "Receive"
         \/ /\ pc' = "Append" /\ Cut(chunk', chunk)
            /\ chunk'.packet = chunk.packet /\ chunk'.epoch = chunk.epoch
  BY <1>1 DEF Entered
<1>3. /\ Held = {x} /\ Held' \subseteq Held /\ (pc' # "Append" => Held' = {})
      /\ pc' = "Append" => Held' = Held
  BY PushHeld
<1>4. UNCHANGED <<sought, queue, dxNext, seeks>> BY DEF PushEnter
<1>5. Waiting' = Waiting /\ Following' = Following BY <1>4 DEF Waiting, Following
<1>6. Coming' \subseteq Coming BY <1>3, <1>5 DEF Coming
<1>7. x.p = chunk.packet /\ x.e = chunk.epoch /\ x.p \in Nat /\ x.e \in Nat
  BY <1>0 DEF Packet, IsChunk
<1> HIDE DEF x
<1>8. /\ \A y \in Coming : y.p >= 1 /\ y.p \in Nat /\ y.e \in Nat
      /\ \A y \in Waiting \union {Following} : y.e = chunk.epoch => chunk.packet < y.p
      /\ chunk.packet >= 1
  <2>1. \A y \in Coming : y.p >= 1 BY DEF Ordered
  <2>2. \A y \in Coming : y.p \in Nat /\ y.e \in Nat BY ComingType
  <2>3. \A y \in Waiting \union {Following} : x.e = y.e => x.p < y.p BY <1>3 DEF Ordered
  <2>4. x.p >= 1 BY <1>3, <2>1 DEF Coming
  <2> QED BY <1>7, <2>1, <2>2, <2>3, <2>4
<1>9. /\ chunk.pts # NoPts => /\ chunk.pts = Start(chunk.packet) /\ chunk.pts \in Nat
                              /\ EndOf(chunk) <= Start(chunk.packet + 1) /\ EndOf(chunk) \in Nat
                              /\ chunk.pts <= EndOf(chunk)
      /\ chunk.frames \in Nat /\ chunk.frames <= PacketFrames
  BY <1>0, CutSelf DEF Fitted, OnStart, Measured
<1>10. \A y \in Waiting \union {Following} : y.e = chunk.epoch =>
         /\ Start(y.p) \in Nat /\ Start(chunk.packet + 1) \in Nat /\ Start(chunk.packet) \in Nat
         /\ Start(chunk.packet + 1) <= Start(y.p) /\ Start(chunk.packet) <= Start(y.p)
  <2> SUFFICES ASSUME NEW y \in Waiting \union {Following}, y.e = chunk.epoch
               PROVE  /\ Start(y.p) \in Nat /\ Start(chunk.packet + 1) \in Nat
                      /\ Start(chunk.packet) \in Nat
                      /\ Start(chunk.packet + 1) <= Start(y.p) /\ Start(chunk.packet) <= Start(y.p)
    OBVIOUS
  <2> DEFINE p == chunk.packet
             q == y.p
  <2>1. p \in Nat /\ p >= 1 /\ q \in Nat /\ q >= 1 /\ p < q BY <1>7, <1>8 DEF Coming
  <2> HIDE DEF p, q
  <2>2. p + 1 \in Nat /\ p + 1 >= 1 /\ 1 <= p + 1 /\ p + 1 <= q /\ 1 <= p /\ p <= q BY <2>1
  <2>3. Start(p) \in Nat /\ Start(p + 1) \in Nat /\ Start(q) \in Nat BY <2>1, <2>2, Starts
  <2>4. Start(p + 1) <= Start(q) /\ Start(p) <= Start(q) BY <2>1, <2>2, Starts
  <2> QED BY <2>3, <2>4 DEF p, q
<1>11. /\ \A k \in DOMAIN pcm.chunks : \A y \in Coming :
            pcm.chunks[k].epoch = y.e => Precedes(pcm.chunks[k], y.p)
       /\ \A i, j \in DOMAIN pcm.chunks : i < j => Follows(pcm.chunks[i], pcm.chunks[j])
  BY DEF Timed, InTime
(* The buffer is as it was, or has a silence more.                         *)
<1> DEFINE Good ==
             /\ AllMeasured(pcm') /\ Counts(pcm') /\ pcm'.queued <= CapacityFrames
             /\ \A k \in DOMAIN pcm'.chunks : \A y \in Coming' :
                  pcm'.chunks[k].epoch = y.e => Precedes(pcm'.chunks[k], y.p)
             /\ \A i, j \in DOMAIN pcm'.chunks : i < j => Follows(pcm'.chunks[i], pcm'.chunks[j])
             /\ \A k \in DOMAIN pcm'.chunks :
                  pcm.aligning /\ pcm'.chunks[k].epoch = pcm.serial =>
                    pcm'.chunks[k].pts >= pcm.target
<1>12. ASSUME pcm'.chunks = pcm.chunks, pcm'.queued = pcm.queued
       PROVE  Good
  <2>1. AllMeasured(pcm') /\ Counts(pcm') BY <1>0, <1>12 DEF AllMeasured, Counts
  <2>2. pcm'.queued <= CapacityFrames BY <1>12 DEF Timed, Fits
  <2>3. \A k \in DOMAIN pcm.chunks : pcm.aligning => pcm.chunks[k].epoch < pcm.serial
    BY DEF Timed, Alone
  <2>4. \A k \in DOMAIN pcm.chunks : pcm.aligning => pcm.chunks[k].epoch # pcm.serial
    BY <1>0, <2>3
  <2>5. \A k \in DOMAIN pcm'.chunks : \A y \in Coming' :
          pcm'.chunks[k].epoch = y.e => Precedes(pcm'.chunks[k], y.p)
    BY <1>6, <1>11, <1>12
  <2>6. \A i, j \in DOMAIN pcm'.chunks : i < j => Follows(pcm'.chunks[i], pcm'.chunks[j])
    BY <1>11, <1>12
  <2>7. \A k \in DOMAIN pcm'.chunks :
          pcm.aligning /\ pcm'.chunks[k].epoch = pcm.serial => pcm'.chunks[k].pts >= pcm.target
    BY <1>12, <2>4
  <2> QED BY <2>1, <2>2, <2>5, <2>6, <2>7
<1>13. ASSUME NEW q, Before(q, chunk, pcm.target), pcm.aligning, serial = pcm.serial,
              chunk.pts # NoPts, pcm'.chunks = Append(pcm.chunks, q),
              pcm'.queued = pcm.queued + q.frames
       PROVE  Good
  <2> DEFINE s == pcm.chunks
             t == pcm'.chunks
             n == Len(s)
  <2>1. /\ IsChunk(q) /\ q.epoch = chunk.epoch /\ q.pts = pcm.target
        /\ q.frames \in Nat /\ q.frames <= UsToFrames(SmallSeekGapUs)
        /\ EndOf(q) \in Nat /\ Soon(EndOf(q) - chunk.pts)
    BY <1>13 DEF Before, Soon
  <2>2. Measured(q) BY <1>0, <2>1 DEF Measured
  <2>3. /\ Counts(pcm') /\ AllMeasured(pcm')
        /\ n \in Nat /\ DOMAIN s = 1 .. n /\ DOMAIN t = 1 .. n + 1
        /\ \A k \in DOMAIN s : t[k] = s[k]
        /\ t[n + 1] = q
    BY <1>0, <1>13, <2>1, <2>2, AppendedCounts
  <2> HIDE DEF s, t, n
  <2>4. \A k \in 1 .. n + 1 : k \in 1 .. n \/ k = n + 1 BY <2>3
  <2>5. pcm'.queued <= CapacityFrames
    <3>1. pcm.queued \in Nat /\ pcm.queued <= PacketFrames
      BY <1>0, <1>13 DEF Counts, Timed, Fits
    <3>2. SmallSeekGapUs \in Int BY PcmAssumption
    <3>3. UsToFrames(SmallSeekGapUs) \in Nat BY <3>2, ToFrames
    <3> QED BY <1>13, <2>1, <3>1, <3>3, PcmAssumption, AudioAssumption
  <2>6. \A k \in DOMAIN s : s[k].epoch # chunk.epoch
    <3>1. CASE chunk.epoch < pcm.serial
      <4>1. s = <<>> BY <1>0, <1>3, <1>7, <1>13, <3>1 DEF Timed, Alone, s
      <4> QED BY <4>1
    <3>2. CASE ~ (chunk.epoch < pcm.serial)
      <4>1. \A k \in DOMAIN s : s[k].epoch < pcm.serial BY <1>13 DEF Timed, Alone, s
      <4> QED BY <3>2, <4>1
    <3> QED BY <3>1, <3>2
  <2>7. \A y \in Coming' : q.epoch = y.e => Precedes(q, y.p)
    <3> SUFFICES ASSUME NEW y \in Coming, q.epoch = y.e PROVE Soon(EndOf(q) - Start(y.p))
      BY <1>6 DEF Precedes
    <3>1. CASE y \in Held
      <4>1. y.p = chunk.packet BY <1>3, <1>7, <3>1
      <4> QED BY <1>9, <1>13, <2>1, <4>1
    <3>2. CASE y \in Waiting \union {Following}
      <4>1. Start(y.p) \in Nat /\ chunk.pts \in Nat /\ chunk.pts <= Start(y.p)
        BY <1>9, <1>10, <1>13, <2>1, <3>2
      <4>2. /\ EndOf(q) - Start(y.p) <= EndOf(q) - chunk.pts
            /\ EndOf(q) - Start(y.p) \in Int /\ EndOf(q) - chunk.pts \in Int
        BY <2>1, <4>1
      <4> QED BY <2>1, <4>2, Sooner
    <3> QED BY <3>1, <3>2 DEF Coming
  <2>8. \A k \in DOMAIN t : \A y \in Coming' : t[k].epoch = y.e => Precedes(t[k], y.p)
    BY <1>6, <1>11, <2>3, <2>4, <2>7 DEF s
  <2>9. ASSUME NEW i \in DOMAIN t, NEW j \in DOMAIN t, i < j PROVE Follows(t[i], t[j])
    <3>1. i \in 1 .. n BY <2>3, <2>9
    <3>2. CASE j = n + 1
      <4>1. t[i].epoch # t[j].epoch BY <2>1, <2>3, <2>6, <3>1, <3>2
      <4> QED BY <4>1 DEF Follows
    <3>3. CASE j \in 1 .. n
      BY <1>11, <2>3, <2>9, <3>1, <3>3 DEF s
    <3> QED BY <2>3, <2>4, <3>2, <3>3
  <2>10. ASSUME NEW k \in DOMAIN t, t[k].epoch = pcm.serial PROVE t[k].pts >= pcm.target
    <3>1. CASE k = n + 1 BY <1>0, <2>1, <2>3, <3>1
    <3>2. CASE k \in 1 .. n
      <4>1. s[k].epoch < pcm.serial BY <1>13, <2>3, <3>2 DEF Timed, Alone, s
      <4>2. s[k].epoch = pcm.serial BY <2>3, <2>10, <3>2
      <4> QED BY <1>0, <4>1, <4>2
    <3> QED BY <2>3, <2>4, <3>1, <3>2
  <2> QED BY <2>3, <2>5, <2>8, <2>9, <2>10 DEF t
<1>14. Good
  <2> HIDE DEF Good
  <2> QED BY <1>1, <1>12, <1>13 DEF Entered
<1>15. (InHand => Fitted(chunk))'
  <2> SUFFICES ASSUME pc' = "Append" PROVE Fitted(chunk)' BY <1>2 DEF InHand
  <2>1. /\ Cut(chunk', chunk) /\ chunk'.packet = chunk.packet /\ Measured(chunk')
    BY <1>2, CutMeasured
  <2>2. chunk'.frames \in Nat /\ chunk'.frames <= chunk.frames BY <2>1 DEF Cut
  <2>3. PacketFrames \in Nat BY AudioAssumption
  <2>4. chunk'.frames <= PacketFrames BY <1>9, <2>2, <2>3
  <2>5. ASSUME chunk'.pts # NoPts
        PROVE  Start(chunk'.packet) <= chunk'.pts /\ EndOf(chunk') <= Start(chunk'.packet + 1)
    <3>1. chunk.pts # NoPts /\ chunk.pts <= chunk'.pts /\ EndOf(chunk') <= EndOf(chunk)
      BY <2>1, <2>5 DEF Cut
    <3>2. chunk'.pts \in Nat /\ EndOf(chunk') \in Nat BY <2>1, <2>5, CutSelf
    <3>3. Start(chunk.packet + 1) \in Nat
      <4>1. chunk.packet + 1 \in Nat /\ chunk.packet + 1 >= 1 BY <1>7, <1>8
      <4> QED BY <4>1, Starts
    <3> QED BY <1>9, <2>1, <3>1, <3>2, <3>3
  <2>6. (chunk'.pts # NoPts =>
           Start(chunk'.packet) <= chunk'.pts /\ EndOf(chunk') <= Start(chunk'.packet + 1))
    BY <2>5
  <2> QED BY <2>1, <2>4, <2>6 DEF Fitted, EndOf, Start, Measured
<1>16. Sizes'
  <2>1. sought'.target \in Nat /\ pcm'.target \in Nat BY <1>0, <1>2, <1>4 DEF Timed, Sizes
  <2>2. pc' # "Push" BY <1>2
  <2> QED BY <1>14, <1>15, <2>1, <2>2 DEF Sizes
<1>17. Fits'
  <2>1. pcm'.aborted => pcm'.chunks = <<>>
    <3>1. pcm.aborted => pcm.chunks = <<>> BY DEF Timed, Fits
    <3> QED BY <1>1, <1>2, <3>1 DEF Entered
  <2>2. pcm'.aligning => pcm'.queued <= IF pc' = "Append" THEN 0 ELSE PacketFrames
    <3> SUFFICES ASSUME pcm'.aligning PROVE pcm'.queued <= PacketFrames /\ pc' # "Append"
      OBVIOUS
    <3>1. pcm.aligning /\ pc' # "Append" BY <1>2
    <3>2. pcm'.queued = pcm.queued BY <1>1 DEF Entered
    <3> QED BY <1>0, <3>1, <3>2 DEF Timed, Fits
  <2> QED BY <1>14, <2>1, <2>2 DEF Fits
<1>18. InTime'
  <2> HIDE DEF Good
  <2>1. /\ \A k \in DOMAIN pcm'.chunks : \A y \in Coming' :
             pcm'.chunks[k].epoch = y.e => Precedes(pcm'.chunks[k], y.p)
        /\ \A i, j \in DOMAIN pcm'.chunks : i < j => Follows(pcm'.chunks[i], pcm'.chunks[j])
    BY <1>14 DEF Good
  <2> QED BY <2>1 DEF InTime
<1>19. Alone'
  <2> SUFFICES ASSUME pcm'.aligning PROVE Alone' BY DEF Alone
  <2>1. pcm.aligning /\ pc' = "Receive" /\ Held' = {} BY <1>2, <1>3
  <2>2. pcm'.chunks = pcm.chunks BY <1>1 DEF Entered
  <2>3. \A k \in DOMAIN pcm.chunks : pcm.chunks[k].epoch < pcm.serial BY <2>1 DEF Timed, Alone
  <2> QED BY <1>2, <2>1, <2>2, <2>3 DEF Alone
<1>20. OnTarget'
  <2> SUFFICES ASSUME pcm'.alignedBy = pcm'.serial PROVE OnTarget' BY DEF OnTarget
  <2>1. Later' \subseteq Waiting \union {Following} BY <1>2, <1>3, <1>5 DEF Later
  <2>2. CASE /\ pcm'.alignedBy = pcm.alignedBy /\ pcm'.chunks = pcm.chunks
             /\ pc' = "Append" => chunk' = chunk
    <3>1. /\ ~pcm.aligning
          /\ \A k \in DOMAIN pcm.chunks : NotBefore(pcm.chunks[k])
          /\ \A y \in Later : y.e = pcm.serial => Start(y.p) >= pcm.target
      BY <1>2, <2>2 DEF Timed, OnTarget
    <3>2. x \in Later BY <1>0, <1>3 DEF Later
    <3>3. NotBefore(chunk) BY <1>7, <1>9, <3>1, <3>2 DEF NotBefore
    <3>4. \A y \in Later' : y.e = pcm.serial => Start(y.p) >= pcm.target
      BY <2>1, <3>1 DEF Later
    <3>5. ~pcm'.aligning BY <1>2, <3>1
    <3>6. \A k \in DOMAIN pcm'.chunks : (NotBefore(pcm.chunks[k]))'
      BY <1>2, <2>2, <3>1 DEF NotBefore
    <3>7. (pc = "Append" => NotBefore(chunk))' BY <1>2, <2>2, <3>3 DEF NotBefore
    <3> QED BY <1>2, <3>4, <3>5, <3>6, <3>7 DEF OnTarget, Start
  <2>3. CASE /\ pcm'.alignedBy = chunk.epoch
             /\ pcm.aligning /\ ~pcm'.aligning /\ chunk.pts # NoPts
             /\ \/ chunk.pts < pcm.target /\ pcm.target < EndOf(chunk)
                \/ chunk.pts >= pcm.target
             /\ pc' = "Append" => chunk'.pts >= pcm.target
    <3>1. \A k \in DOMAIN pcm'.chunks : pcm'.chunks[k].epoch = pcm.serial =>
            pcm'.chunks[k].pts >= pcm.target
      BY <1>14, <2>3
    <3> HIDE DEF Good
    <3>2. \A k \in DOMAIN pcm'.chunks : (NotBefore(pcm.chunks[k]))' BY <1>2, <3>1 DEF NotBefore
    <3>3. (pc = "Append" => NotBefore(chunk))' BY <1>2, <2>3 DEF NotBefore
    <3>4. \A y \in Later' : y.e = pcm.serial => Start(y.p) >= pcm.target
      <4> SUFFICES ASSUME NEW y \in Waiting \union {Following}, y.e = pcm.serial
                   PROVE  Start(y.p) >= pcm.target
        BY <2>1
      <4>1. y.e = chunk.epoch BY <1>2, <2>3
      <4>2. /\ Start(y.p) \in Nat /\ Start(chunk.packet + 1) \in Nat /\ Start(chunk.packet) \in Nat
            /\ Start(chunk.packet + 1) <= Start(y.p) /\ Start(chunk.packet) <= Start(y.p)
        BY <1>10, <4>1
      <4>3. CASE chunk.pts < pcm.target /\ pcm.target < EndOf(chunk)
        BY <1>0, <1>9, <2>3, <4>2, <4>3
      <4>4. CASE chunk.pts >= pcm.target BY <1>0, <1>9, <2>3, <4>2, <4>4
      <4> QED BY <2>3, <4>3, <4>4
    <3> QED BY <1>2, <2>3, <3>2, <3>3, <3>4 DEF OnTarget, Start
  <2> QED BY <1>1, <2>2, <2>3 DEF Entered
<1> QED BY <1>16, <1>17, <1>18, <1>19, <1>20 DEF Timed

(* push from its wait on: the chunk fits in what is there, in frames and   *)
(* in time.                                                                *)
LEMMA AppendTimed ==
  ASSUME Typed, Counted, QueueFresh, Single, Ordered, Timed, PushAppend
  PROVE  Timed'
<1> USE DEF demuxVars, decodeVars, engineVars
<1> DEFINE x == Packet(chunk.packet, chunk.epoch)
<1>0. /\ IsBuffer(pcm) /\ IsChunk(chunk) /\ pcm.target \in Nat /\ pc = "Append"
      /\ Fitted(chunk) /\ Measured(chunk) /\ AllMeasured(pcm) /\ Counts(pcm)
      /\ pcm.serial \in Nat
  BY DEF Typed, IsBuffer, PushAppend, Timed, Sizes, InHand, Fitted
<1>1. /\ UNCHANGED <<sought, queue, dxNext, seeks>> /\ pc' = "Receive" /\ codec' = <<>>
      /\ \/ pcm' = pcm
         \/ HasRoomFor(pcm, chunk) /\ ~pcm.aborted /\ pcm' = AppendChunk(pcm, chunk)
  BY DEF PushAppend, Single
<1>2. /\ Held = {x} /\ Held' = {} /\ Waiting' = Waiting /\ Following' = Following
      /\ Later' = Later /\ Later = Waiting \union {Following}
      /\ Coming' = Waiting \union {Following} /\ Coming' \subseteq Coming
  <2>1. Held = {x} BY <1>0 DEF Held, InHand
  <2>2. Held' = {} BY <1>1 DEF Held
  <2>3. Waiting' = Waiting /\ Following' = Following BY <1>1 DEF Waiting, Following
  <2> QED BY <1>0, <1>1, <2>1, <2>2, <2>3 DEF Later, Coming
<1>3. x.p = chunk.packet /\ x.e = chunk.epoch /\ x.p \in Nat /\ x.e \in Nat
  BY <1>0 DEF Packet, IsChunk
<1> HIDE DEF x
<1>4. /\ \A y \in Coming : y.p >= 1 /\ y.p \in Nat /\ y.e \in Nat
      /\ \A y \in Waiting \union {Following} : y.e = chunk.epoch => chunk.packet < y.p
      /\ chunk.packet >= 1 /\ x \in Coming
  <2>1. \A y \in Coming : y.p >= 1 BY DEF Ordered
  <2>2. \A y \in Coming : y.p \in Nat /\ y.e \in Nat BY ComingType
  <2>3. \A y \in Waiting \union {Following} : x.e = y.e => x.p < y.p BY <1>2 DEF Ordered
  <2>4. x.p >= 1 /\ x \in Coming BY <1>2, <2>1 DEF Coming
  <2> QED BY <1>3, <2>1, <2>2, <2>3, <2>4
<1>5. /\ chunk.pts # NoPts => /\ chunk.pts \in Nat /\ Start(chunk.packet) <= chunk.pts
                              /\ EndOf(chunk) <= Start(chunk.packet + 1) /\ EndOf(chunk) \in Nat
      /\ chunk.frames \in Nat /\ chunk.frames <= PacketFrames
  BY <1>0, CutSelf DEF Fitted, Measured
<1>6. /\ pcm'.serial = pcm.serial /\ pcm'.target = pcm.target /\ pcm'.aborted = pcm.aborted
      /\ (pcm'.aligning <=> pcm.aligning) /\ pcm'.alignedBy = pcm.alignedBy
      /\ \/ pcm'.chunks = pcm.chunks /\ pcm'.queued = pcm.queued
         \/ /\ pcm'.chunks = Append(pcm.chunks, chunk)
            /\ pcm'.queued = pcm.queued + chunk.frames
            /\ HasRoomFor(pcm, chunk) /\ ~pcm.aborted
  <2> DEFINE b == AppendChunk(pcm, chunk)
  <2>1. /\ SameSeek(b, pcm) /\ b.aborted = pcm.aborted /\ b.chunks = Append(pcm.chunks, chunk)
        /\ b.queued = pcm.queued + chunk.frames
    BY <1>0, AppendedChunk
  <2> HIDE DEF b
  <2>2. pcm' = pcm \/ (HasRoomFor(pcm, chunk) /\ ~pcm.aborted /\ pcm' = b) BY <1>1 DEF b
  <2> QED BY <2>1, <2>2 DEF SameSeek
<1>7. /\ \A k \in DOMAIN pcm.chunks : \A y \in Coming :
           pcm.chunks[k].epoch = y.e => Precedes(pcm.chunks[k], y.p)
      /\ \A i, j \in DOMAIN pcm.chunks : i < j => Follows(pcm.chunks[i], pcm.chunks[j])
  BY DEF Timed, InTime
<1>8. \A y \in Coming' : chunk.epoch = y.e => Precedes(chunk, y.p)
  <2> SUFFICES ASSUME NEW y \in Waiting \union {Following}, chunk.epoch = y.e, chunk.pts # NoPts
               PROVE  Soon(EndOf(chunk) - Start(y.p))
    BY <1>2 DEF Precedes
  <2> DEFINE p == chunk.packet
             q == y.p
  <2>1. p \in Nat /\ q \in Nat /\ q >= 1 /\ p < q BY <1>3, <1>4 DEF Coming
  <2>2. EndOf(chunk) <= Start(p + 1) /\ EndOf(chunk) \in Nat BY <1>5
  <2> HIDE DEF p, q
  <2>3. p + 1 \in Nat /\ p + 1 >= 1 /\ 1 <= p + 1 /\ p + 1 <= q BY <2>1
  <2>4. Start(p + 1) \in Nat /\ Start(q) \in Nat /\ Start(p + 1) <= Start(q)
    BY <2>1, <2>3, Starts
  <2>5. EndOf(chunk) - Start(q) \in Int /\ EndOf(chunk) - Start(q) <= 0 BY <2>2, <2>4
  <2>6. Soon(EndOf(chunk) - Start(q)) BY <2>5, Sooner
  <2> QED BY <2>6 DEF q
<1>9. ASSUME NEW k \in DOMAIN pcm.chunks PROVE Follows(pcm.chunks[k], chunk)
  <2> DEFINE a == pcm.chunks[k]
  <2> SUFFICES ASSUME a.epoch = chunk.epoch, a.pts # NoPts, chunk.pts # NoPts
               PROVE  Soon(EndOf(a) - chunk.pts)
    BY DEF Follows
  <2>1. Precedes(a, chunk.packet) BY <1>3, <1>4, <1>7
  <2>2. Measured(a) BY <1>0 DEF AllMeasured
  <2> HIDE DEF a
  <2>3. Soon(EndOf(a) - Start(chunk.packet)) BY <2>1 DEF Precedes
  <2>4. EndOf(a) \in Nat BY <2>2, CutSelf
  <2>5. Start(chunk.packet) \in Nat BY <1>3, <1>4, Starts
  <2>6. /\ EndOf(a) - chunk.pts <= EndOf(a) - Start(chunk.packet)
        /\ EndOf(a) - chunk.pts \in Int /\ EndOf(a) - Start(chunk.packet) \in Int
    BY <1>5, <2>4, <2>5
  <2> QED BY <2>3, <2>6, Sooner
<1>10. /\ pcm.alignedBy = pcm.serial => NotBefore(chunk)
       /\ pcm.aligning => chunk.epoch < pcm.serial
  BY <1>0 DEF Timed, OnTarget, Alone
(* The buffer is as it was, or has the chunk more.                         *)
<1> DEFINE Good ==
             /\ AllMeasured(pcm') /\ Counts(pcm') /\ pcm'.queued <= CapacityFrames
             /\ pcm'.aborted => pcm'.chunks = <<>>
             /\ pcm.aligning => pcm'.queued <= PacketFrames
             /\ \A k \in DOMAIN pcm'.chunks : \A y \in Coming' :
                  pcm'.chunks[k].epoch = y.e => Precedes(pcm'.chunks[k], y.p)
             /\ \A i, j \in DOMAIN pcm'.chunks : i < j => Follows(pcm'.chunks[i], pcm'.chunks[j])
             /\ \A k \in DOMAIN pcm'.chunks :
                  (\E j \in DOMAIN pcm.chunks : pcm'.chunks[k] = pcm.chunks[j])
                    \/ pcm'.chunks[k] = chunk
<1>11. ASSUME pcm'.chunks = pcm.chunks, pcm'.queued = pcm.queued
       PROVE  Good
  <2>1. AllMeasured(pcm') /\ Counts(pcm') BY <1>0, <1>11 DEF AllMeasured, Counts
  <2>2. pcm'.queued <= CapacityFrames BY <1>11 DEF Timed, Fits
  <2>3. pcm'.aborted => pcm'.chunks = <<>> BY <1>6, <1>11 DEF Timed, Fits
  <2>4. pcm.aligning => pcm'.queued <= PacketFrames
    <3>1. pcm.aligning => pcm.queued <= 0 BY <1>0 DEF Timed, Fits
    <3>2. pcm.queued \in Nat /\ PacketFrames \in Nat BY <1>0, AudioAssumption DEF Counts
    <3> QED BY <1>11, <3>1, <3>2
  <2>5. \A k \in DOMAIN pcm'.chunks : \A y \in Coming' :
          pcm'.chunks[k].epoch = y.e => Precedes(pcm'.chunks[k], y.p)
    BY <1>2, <1>7, <1>11
  <2>6. \A i, j \in DOMAIN pcm'.chunks : i < j => Follows(pcm'.chunks[i], pcm'.chunks[j])
    BY <1>7, <1>11
  <2>7. \A k \in DOMAIN pcm'.chunks : \E j \in DOMAIN pcm.chunks : pcm'.chunks[k] = pcm.chunks[j]
    BY <1>11
  <2> QED BY <2>1, <2>2, <2>3, <2>4, <2>5, <2>6, <2>7
<1>12. ASSUME pcm'.chunks = Append(pcm.chunks, chunk), pcm'.queued = pcm.queued + chunk.frames,
              HasRoomFor(pcm, chunk), ~pcm.aborted
       PROVE  Good
  <2> DEFINE s == pcm.chunks
             t == pcm'.chunks
             n == Len(s)
  <2>1. /\ Counts(pcm') /\ AllMeasured(pcm')
        /\ n \in Nat /\ DOMAIN s = 1 .. n /\ DOMAIN t = 1 .. n + 1
        /\ \A k \in DOMAIN s : t[k] = s[k]
        /\ t[n + 1] = chunk
    BY <1>0, <1>12, AppendedCounts
  <2> HIDE DEF s, t, n
  <2>2. \A k \in 1 .. n + 1 : k \in 1 .. n \/ k = n + 1 BY <2>1
  <2>3. pcm'.queued <= CapacityFrames BY <1>12 DEF HasRoomFor
  <2>4. ~pcm'.aborted BY <1>6, <1>12
  <2>5. pcm.aligning => pcm'.queued <= PacketFrames
    BY <1>0, <1>5, <1>12, AudioAssumption DEF Timed, Fits, Counts
  <2>6. \A k \in DOMAIN t : \A y \in Coming' : t[k].epoch = y.e => Precedes(t[k], y.p)
    BY <1>2, <1>7, <1>8, <2>1, <2>2 DEF s
  <2>7. ASSUME NEW i \in DOMAIN t, NEW j \in DOMAIN t, i < j PROVE Follows(t[i], t[j])
    <3>1. i \in 1 .. n BY <2>1, <2>7
    <3>2. CASE j = n + 1 BY <1>9, <2>1, <3>1, <3>2 DEF s
    <3>3. CASE j \in 1 .. n BY <1>7, <2>1, <2>7, <3>1, <3>3 DEF s
    <3> QED BY <2>1, <2>2, <3>2, <3>3
  <2>8. \A k \in DOMAIN t : (\E j \in DOMAIN s : t[k] = s[j]) \/ t[k] = chunk BY <2>1, <2>2
  <2> QED BY <2>1, <2>3, <2>4, <2>5, <2>6, <2>7, <2>8 DEF s, t
<1>13. Good
  <2> HIDE DEF Good
  <2> QED BY <1>6, <1>11, <1>12
<1>14. Sizes'
  <2>1. sought'.target \in Nat /\ pcm'.target \in Nat BY <1>1, <1>0, <1>6 DEF Timed, Sizes
  <2>2. ~InHand' /\ pc' # "Push" BY <1>1 DEF InHand
  <2> QED BY <1>13, <2>1, <2>2 DEF Sizes
<1>15. Fits' BY <1>1, <1>6, <1>13 DEF Fits
<1>16. InTime' BY <1>13 DEF InTime
<1>17. Alone'
  <2> SUFFICES ASSUME pcm'.aligning PROVE Alone' BY DEF Alone
  <2>1. \A k \in DOMAIN pcm.chunks : pcm.chunks[k].epoch < pcm.serial
    BY <1>6 DEF Timed, Alone
  <2>2. \A k \in DOMAIN pcm'.chunks : pcm'.chunks[k].epoch < pcm'.serial
    BY <1>6, <1>10, <1>13, <2>1
  <2> QED BY <1>1, <1>2, <2>2 DEF Alone
<1>18. OnTarget'
  <2> SUFFICES ASSUME pcm'.alignedBy = pcm'.serial PROVE OnTarget' BY DEF OnTarget
  <2>1. /\ ~pcm.aligning
        /\ \A k \in DOMAIN pcm.chunks : NotBefore(pcm.chunks[k])
        /\ \A y \in Later : y.e = pcm.serial => Start(y.p) >= pcm.target
    BY <1>6 DEF Timed, OnTarget
  <2>2. \A k \in DOMAIN pcm'.chunks : NotBefore(pcm'.chunks[k])
    BY <1>6, <1>10, <1>13, <2>1
  <2>3. \A k \in DOMAIN pcm'.chunks : (NotBefore(pcm.chunks[k]))'
    BY <1>6, <2>2 DEF NotBefore
  <2> HIDE DEF Good
  <2> QED BY <1>1, <1>2, <1>6, <2>1, <2>3 DEF OnTarget, Start
<1> QED BY <1>14, <1>15, <1>16, <1>17, <1>18 DEF Timed

LEMMA TimedStep ==
  ASSUME Typed, Counted, QueueFresh, Single, Ordered, Timed, Next
  PROVE  Timed'
<1> USE DEF demuxVars, decodeVars, engineVars
<1> DEFINE Quiet == /\ SameSeek(pcm', pcm) /\ Shrunk(pcm', pcm)
                    /\ pcm'.aborted => pcm'.chunks = <<>>
           Aside == /\ pc' = "Append" <=> pc = "Append"
                    /\ pc' = "Push" <=> pc = "Push"
                    /\ InHand => UNCHANGED <<chunk, serial>>
<1>0. /\ IsBuffer(pcm) /\ AllMeasured(pcm) /\ Counts(pcm) /\ sought.target \in Nat
      /\ pcm.aborted => pcm.chunks = <<>>
  BY DEF Typed, Timed, Sizes, Fits
<1>1. ASSUME Quiet, Aside, sought'.target \in Nat PROVE Timed' BY <1>1, QuietStep
<1>2. pcm' = pcm => Quiet BY <1>0, ShrunkCases DEF SameSeek
<1>3. \/ pcm' = pcm
      \/ pcm' = FlushBuffer(pcm)
      \/ pcm' = AbortBuffer(pcm)
      => Quiet
  <2> DEFINE f == FlushBuffer(pcm)
             g == AbortBuffer(pcm)
  <2>1. /\ f.chunks = <<>> /\ f.queued = 0 /\ SameSeek(f, pcm)
        /\ g.chunks = <<>> /\ g.queued = 0 /\ SameSeek(g, pcm)
    BY <1>0, Emptied
  <2> HIDE DEF f, g
  <2>2. Shrunk(f, pcm) /\ Shrunk(g, pcm) BY <1>0, <2>1, ShrunkCases
  <2>3. pcm' = f => Quiet BY <2>1, <2>2
  <2>4. pcm' = g => Quiet BY <2>1, <2>2
  <2> HIDE DEF Quiet
  <2> QED BY <1>2, <2>3, <2>4 DEF f, g
<1>4. pcm' = TakeFrames(pcm, DeviceFrames) /\ pcm.chunks # <<>> => Quiet
  <2> DEFINE t == TakeFrames(pcm, DeviceFrames)
  <2>1. SameSeek(t, pcm) /\ t.aborted = pcm.aborted BY <1>0, TakenShape
  <2>2. DeviceFrames \in Nat BY AudioAssumption
  <2>3. Shrunk(t, pcm) BY <1>0, <2>2, ShrunkCases
  <2> HIDE DEF t
  <2>4. pcm' = t /\ pcm.chunks # <<>> => Quiet BY <1>0, <2>1, <2>3
  <2> HIDE DEF Quiet
  <2> QED BY <2>4 DEF t
<1>5. UNCHANGED <<pc, chunk, serial>> => Aside OBVIOUS
<1>6. /\ pc \notin {"Push", "Append"} /\ pc' \notin {"Push", "Append"}
      => Aside
  BY DEF InHand
<1> HIDE DEF Quiet, Aside
<1>7. CASE ReadPacket \/ ReadEof \/ NotifyUnregistered \/ NotifyPending
  BY <1>0, <1>1, <1>2, <1>5, <1>7 DEF ReadPacket, ReadEof, NotifyUnregistered, NotifyPending
<1>8. ASSUME NEW request \in Requests, SeekInput(request) PROVE Timed'
  <2>1. sought' = request /\ pcm' = pcm /\ UNCHANGED <<pc, chunk, serial>>
    BY <1>8 DEF SeekInput
  <2>2. request.target \in Nat BY AudioAssumption
  <2> QED BY <1>1, <1>2, <1>5, <2>1, <2>2
<1>9. CASE SetPaused \/ Unregister \/ StopRunning \/ StopAbortQueue \/ StopJoin
  <2>1. UNCHANGED <<sought, pcm, pc, chunk, serial>>
    BY <1>9 DEF SetPaused, Unregister, StopRunning, StopAbortQueue, StopJoin
  <2> QED BY <1>0, <1>1, <1>2, <1>5, <2>1
<1>10. CASE StopAbortBuffer
  <2>1. UNCHANGED <<sought, pc, chunk, serial>> /\ pcm' = AbortBuffer(pcm)
    BY <1>10 DEF StopAbortBuffer
  <2> QED BY <1>0, <1>1, <1>3, <1>5, <2>1
<1>11. CASE Render
  <2>1. /\ UNCHANGED <<sought, pc, chunk, serial>> /\ pcm.chunks # <<>>
        /\ pcm' = TakeFrames(pcm, DeviceFrames)
    BY <1>11 DEF Render
  <2> QED BY <1>0, <1>1, <1>4, <1>5, <2>1
<1>12. CASE LoopEnd \/ PopPacket \/ ReceiveEnd
  <2>1. /\ UNCHANGED <<sought, pcm>> /\ pc \notin {"Push", "Append"}
        /\ pc' \notin {"Push", "Append"}
    <3>1. CASE LoopEnd BY <3>1 DEF LoopEnd
    <3>2. CASE PopPacket BY <3>2 DEF PopPacket
    <3>3. CASE ReceiveEnd BY <3>3 DEF ReceiveEnd
    <3> QED BY <1>12, <3>1, <3>2, <3>3
  <2> QED BY <1>0, <1>1, <1>2, <1>6, <2>1
<1>13. CASE LoopFlush \/ SendPacket
  <2>1. /\ sought' = sought /\ (pcm' = pcm \/ pcm' = FlushBuffer(pcm))
        /\ pc \notin {"Push", "Append"} /\ pc' \notin {"Push", "Append"}
    <3>1. CASE LoopFlush BY <3>1 DEF LoopFlush
    <3>2. CASE SendPacket
      <4>1. pc' \in {"Loop", "Receive"} BY <3>2 DEF SendPacket
      <4> QED BY <3>2, <4>1 DEF SendPacket
    <3> QED BY <1>13, <3>1, <3>2
  <2> QED BY <1>0, <1>1, <1>3, <1>6, <2>1
<1> QED BY <1>7, <1>8, <1>9, <1>10, <1>11, <1>12, <1>13, BeginTimed, ReceiveTimed, EnterTimed,
           AppendTimed
        DEF Next, Demux, Decode, Engine

TInv == IInv /\ Single /\ Ordered /\ Timed

LEMMA TimedHolds == Spec => []TInv
<1>1. Init => TInv BY Begins, TimedInit DEF TInv
<1>2. TInv /\ [Next]_vars => TInv'
  <2>1. CASE TInv /\ Next
    <3>1. IInv /\ Typed /\ Counted /\ QueueFresh /\ OneOld /\ Single /\ Ordered /\ Timed
      BY <2>1 DEF TInv, IInv
    <3>2. IInv' BY <2>1, <3>1, TypedStep, CountedStep, OneOldStep DEF IInv
    <3>3. Single' /\ Ordered' /\ Timed' BY <2>1, <3>1, SingleStep, OrderedStep, TimedStep
    <3> QED BY <3>2, <3>3 DEF TInv
  <2>2. CASE TInv /\ UNCHANGED vars
    <3>1. IInv' BY <2>2, Stutters DEF TInv
    <3>2. /\ UNCHANGED <<dx, dxNext, dxEof, seeks, sought, queue, seekPending, paused, running>>
          /\ UNCHANGED <<pc, packet, codec, serial, chunk, pcm, engine, toggles>>
      BY <2>2 DEF vars, demuxVars, decodeVars, engineVars
    <3>3. /\ InHand' = InHand /\ Held' = Held /\ Waiting' = Waiting /\ Following' = Following
          /\ InOrder' = InOrder
      BY <3>2 DEF InHand, Held, Waiting, Following, InOrder
    <3>4. Coming' = Coming /\ Later' = Later BY <3>2, <3>3 DEF Coming, Later
    <3>5. Single' /\ Ordered'
      BY <2>2, <3>2, <3>3, <3>4 DEF TInv, Single, Ordered
    <3>6. Timed'
      <4>1. Sizes' /\ Fits' BY <2>2, <3>2, <3>3 DEF TInv, Timed, Sizes, Fits
      <4>2. InTime' BY <2>2, <3>2, <3>4 DEF TInv, Timed, InTime, Precedes, Start
      <4>3. Alone' BY <2>2, <3>2, <3>3 DEF TInv, Timed, Alone
      <4>4. OnTarget' BY <2>2, <3>2, <3>4 DEF TInv, Timed, OnTarget, NotBefore, Start
      <4> QED BY <4>1, <4>2, <4>3, <4>4 DEF Timed
    <3> QED BY <3>1, <3>5, <3>6 DEF TInv
  <2> QED BY <2>1, <2>2
<1> QED BY <1>1, <1>2, PTL DEF Spec

(* HoldsNoMore, of PcmBuffer::push, begin_seek, pop, discard, flush and    *)
(* abort: the count of frames is that of the chunks and stays within the   *)
(* capacity, silence included, and an aborted buffer stays empty.          *)
THEOREM HoldsCorrect == Spec => []HoldsNoMore
<1>1. TInv => HoldsNoMore BY DEF TInv, Timed, Sizes, Counts, Fits, HoldsNoMore
<1> QED BY <1>1, TimedHolds, PTL

(* FreshExact, of PcmBuffer::align_after_seek_locked and the order of the  *)
(* seek's calls: whatever is dropped, cut or put before, within a seek     *)
(* nothing is heard twice or out of order, and nothing of before the       *)
(* target when a packet of after the seek ends the alignment.              *)
THEOREM FreshCorrect == Spec => []FreshExact
<1>1. TInv => FreshExact
  <2> SUFFICES ASSUME TInv PROVE FreshExact OBVIOUS
  <2>1. DOMAIN pcm.chunks = 1 .. Len(pcm.chunks)
    BY DEF TInv, IInv, Typed, IsBuffer, IsChunks
  <2>2. \A i, j \in DOMAIN pcm.chunks : i < j => Follows(pcm.chunks[i], pcm.chunks[j])
    BY DEF TInv, Timed, InTime
  <2>3. pcm.alignedBy = pcm.serial => \A k \in DOMAIN pcm.chunks : NotBefore(pcm.chunks[k])
    BY DEF TInv, Timed, OnTarget
  <2>4. ASSUME NEW i \in DOMAIN pcm.chunks, NEW j \in DOMAIN pcm.chunks, i < j,
               pcm.chunks[i].epoch = pcm.chunks[j].epoch, pcm.chunks[i].pts # NoPts,
               pcm.chunks[j].pts # NoPts
        PROVE  (pcm.chunks[i].pts + FramesToUs(pcm.chunks[i].frames) - pcm.chunks[j].pts)
                 * FramesOf < UsOf
    <3>1. Soon(EndOf(pcm.chunks[i]) - pcm.chunks[j].pts) BY <2>2, <2>4 DEF Follows
    <3> DEFINE a  == pcm.chunks[i].pts
               us == FramesToUs(pcm.chunks[i].frames)
               b  == pcm.chunks[j].pts
    <3>2. a \in Nat /\ us \in Nat /\ b \in Nat
      <4>1. Measured(pcm.chunks[i]) /\ Measured(pcm.chunks[j])
        BY DEF TInv, Timed, Sizes, AllMeasured
      <4> QED BY <2>4, <4>1, ToUs DEF Measured
    <3>3. ((a + us) - b) * FramesOf < UsOf BY <3>1 DEF Soon, EndOf
    <3> HIDE DEF a, us, b
    <3>4. a + us - b = (a + us) - b BY <3>2
    <3>5. (a + us - b) * FramesOf < UsOf BY <3>3, <3>4
    <3> QED BY <3>5 DEF a, us, b
  <2> QED BY <2>1, <2>3, <2>4 DEF FreshExact, NotBefore
<1> QED BY <1>1, TimedHolds, PTL
=============================================================================

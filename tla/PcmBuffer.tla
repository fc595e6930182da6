----------------------------- MODULE PcmBuffer -----------------------------
(***************************************************************************)
(* src/native/audio/pcm_buffer.cpp as a value: what each critical section  *)
(* of the buffer computes.  A chunk is its number of sample frames, its    *)
(* presentation time and, as history values, the packet the samples come   *)
(* from and the number of the seek that packet was read after; the samples *)
(* and the statistics are left out.  FramesOf sample frames last UsOf      *)
(* microseconds (48 and 1000 in the program).                              *)
(***************************************************************************)
EXTENDS Integers, SequencesExt

CONSTANTS
  FramesOf, UsOf,
  CapacityFrames,   \* capacity_frames_
  SmallSeekGapUs,   \* kSmallSeekGapUs
  NoPts             \* kAudioNoPts

ASSUME PcmAssumption ==
  /\ FramesOf \in Nat \ {0} /\ UsOf \in Nat \ {0}
  /\ CapacityFrames \in Nat \ {0} /\ SmallSeekGapUs \in Nat
  /\ NoPts \in Int /\ NoPts < 0

FramesToUs(n) == (n * UsOf) \div FramesOf

UsToFrames(us) == IF us <= 0 THEN 0 ELSE (us * FramesOf + UsOf - 1) \div UsOf

Silence == 0

Chunk(frames, pts, packet, epoch) ==
  [frames |-> frames, pts |-> pts, packet |-> packet, epoch |-> epoch]

NewBuffer ==
  [chunks |-> <<>>, queued |-> 0, serial |-> 0, aborted |-> FALSE,
   aligning |-> FALSE, target |-> 0, exact |-> FALSE, alignedBy |-> -1]

(* alignedBy is a history value: the seek of the packet that ended the     *)
(* alignment by its time stamp, or -1.                                     *)
BeginSeek(b, target, exact) ==
  [b EXCEPT !.serial = @ + 1, !.chunks = <<>>, !.queued = 0, !.aligning = TRUE,
            !.target = target, !.exact = exact, !.alignedBy = -1]

FlushBuffer(b) == [b EXCEPT !.chunks = <<>>, !.queued = 0]

AbortBuffer(b) == [FlushBuffer(b) EXCEPT !.aborted = TRUE]

AppendChunk(b, c) == [b EXCEPT !.chunks = Append(@, c), !.queued = @ + c.frames]

AppendSilence(b, frames, pts, epoch) ==
  IF frames = 0 THEN b ELSE AppendChunk(b, Chunk(frames, pts, Silence, epoch))

(* Mutant: the microseconds of the trimmed frames are not divided out.     *)
TrimmedFrontTooLate(c, n) ==
  [c EXCEPT !.frames = @ - n, !.pts = IF @ = NoPts THEN NoPts ELSE @ + n * UsOf]

(* Without its first n frames a chunk begins later.                        *)
TrimmedFront(c, n) ==
  [c EXCEPT !.frames = @ - n, !.pts = IF @ = NoPts THEN NoPts ELSE @ + FramesToUs(n)]

(* Mutant: the samples to trim are rounded down.                           *)
PrefixRoundedDown(c, target) ==
  TrimmedFront(c, ((target - c.pts) * FramesOf) \div UsOf)

WithoutPrefix(c, target) ==
  LET n == UsToFrames(target - c.pts)
  IN  TrimmedFront(c, IF n < c.frames THEN n ELSE c.frames)

(* align_after_seek_locked: the buffer and the chunk it leaves, and whether *)
(* the chunk is to be pushed.                                              *)
AlignAfterSeek(b, c) ==
  LET aligned == [b EXCEPT !.aligning = FALSE, !.alignedBy = c.epoch]
      gap     == c.pts - b.target
      trimmed == WithoutPrefix(c, b.target)
      untimed == c.pts = NoPts \/ FramesToUs(c.frames) = 0
      end     == c.pts + FramesToUs(c.frames)
  IN  CASE ~b.aligning -> [buf |-> b, chunk |-> c, keep |-> TRUE]
        [] b.aligning /\ untimed ->
             [buf |-> [b EXCEPT !.aligning = FALSE], chunk |-> c, keep |-> TRUE]
        [] b.aligning /\ ~untimed /\ end <= b.target ->
             [buf |-> b, chunk |-> c, keep |-> FALSE]
        [] b.aligning /\ ~untimed /\ c.pts < b.target /\ b.target < end ->
             [buf |-> aligned, chunk |-> trimmed, keep |-> trimmed.frames > 0]
        [] OTHER ->
             [buf   |-> IF b.exact /\ gap <= SmallSeekGapUs
                          THEN AppendSilence(aligned, UsToFrames(gap), b.target, c.epoch)
                          ELSE aligned,
              chunk |-> c, keep |-> TRUE]

(* A chunk larger than the buffer keeps its end.                           *)
CappedChunk(c) ==
  IF c.frames > CapacityFrames THEN TrimmedFront(c, c.frames - CapacityFrames) ELSE c

(* Mutant: the room for a chunk is looked for in the queue alone.          *)
HasRoomForOne(b, c) == b.queued < CapacityFrames

HasRoomFor(b, c) == b.queued + c.frames <= CapacityFrames

(* The sample frames of the first n chunks.                                *)
FramesIn(chunks, n) ==
  LET upTo[k \in 0 .. n] == IF k = 0 THEN 0 ELSE upTo[k - 1] + chunks[k].frames
  IN  upTo[n]

(* pop and discard take the same n frames off the front, pop into the      *)
(* device's buffer and discard to nowhere.                                 *)
TakeFrames(b, n) ==
  LET took == IF n < b.queued THEN n ELSE b.queued
      gone == {k \in 1 .. Len(b.chunks) : FramesIn(b.chunks, k) <= n}
      rest == SubSeq(b.chunks, Cardinality(gone) + 1, Len(b.chunks))
      part == n - FramesIn(b.chunks, Cardinality(gone))
      left == IF rest = <<>> \/ part = 0 THEN rest
              ELSE <<TrimmedFront(Head(rest), part)>> \o Tail(rest)
  IN  [b EXCEPT !.chunks = left, !.queued = @ - took]
=============================================================================

----------------------------- MODULE ExactSeek -----------------------------
(***************************************************************************)
(* What src/native/renderer/decode does with an exact seek: it collects a  *)
(* window of decoded frames around the target, publishes the one to be     *)
(* shown with its predecessor behind the cursor of the TrackBuffer, and    *)
(* hands on the frames it had read beyond that, without losing one.        *)
(*                                                                         *)
(* One epoch of one track.  VideoPipeline has the handshake of a seek and  *)
(* the interleaving of the threads' stores; here BeginSeek is that         *)
(* handshake, and a step is the part of the decode loop between two places *)
(* where a full buffer or the player can get in: the state is Buffering    *)
(* until the preview is out, and nobody else touches such a buffer.        *)
(* Frames are numbered in the order the decoder gives them out, and the    *)
(* timestamps are made monotone before anyone looks at them, so a frame's  *)
(* time is a function of its number.                                       *)
(***************************************************************************)
EXTENDS BidiRingOps

CONSTANTS LastFrame,       (* frames of the file *)
          Keyframes,       (* those a seek can land on *)
          Targets,         (* the times asked for *)
          CodecDelay,      (* frames the codec may hold back *)
          MaxReorder,      (* max_exact_seek_reorder_frames *)
          PrerollTarget,   (* decode_post_seek_preroll_target: 1 in software *)
          QueueCapacity,
          MaxSeeks,        (* bound: seeks after the first *)
          MaxAdvances      (* bound: moves of the cursor since a seek *)

ASSUME SeekAssumption ==
  /\ LastFrame \in Nat \ {0} /\ Keyframes \subseteq 1 .. LastFrame /\ 1 \in Keyframes
  /\ Targets \subseteq Nat /\ CodecDelay \in Nat /\ MaxReorder \in Nat \ {0}
  /\ QueueCapacity \in Nat \ {0}
  /\ PrerollTarget \in 1 .. 2
  /\ MaxSeeks \in Nat /\ MaxAdvances \in Nat

PreTargetHistory == 2      (* kExactSeekPreTargetHistoryFrames *)
PreviewWindow == 4         (* kExactSeekPreviewWindowFrames *)

Frames == 1 .. LastFrame

(* Times of frames are even, so that a target may lie between two frames. *)
Pts(f) == 2 * f
NoTarget == -1

VARIABLES
  goal,        (* history: target and kind of the current seek *)
  track,       (* what a decode step works on, see Begun *)
  playing,     (* the player runs; ~playing is also pause_after_preroll_ *)
  eofFlushed,  (* eof_flushed_ *)
  demux,       (* the last frame read into the queue, and its end-of-file flag *)
  codec,       (* packets sent so far, frames held, and output known to be left *)
  at,          (* where the decode thread is in its loop *)
  hand,        (* the frame it is pushing *)
  moved,       (* history: the cursor has moved since the preview *)
  seeks        (* bound *)

vars == <<goal, track, playing, eofFlushed, demux, codec, at, hand, moved, seeks>>

-----------------------------------------------------------------------------
(* The candidate window: exact_seek_candidate_store.cpp.                   *)

KeepLast(s, n) == SubSeq(s, Len(s) - n + 1, Len(s))

AtMost(s, n) == IF Len(s) > n THEN KeepLast(s, n) ELSE s

(* Mutant: one frame of before the target is kept in all. *)
CollectKeepingOne(target, reorder, f) ==
  Append(IF Pts(f) < target THEN <<>> ELSE reorder, f)

Collect(target, reorder, f) ==
  LET hasPostTarget == \E i \in DOMAIN reorder : Pts(reorder[i]) >= target
      history == IF Pts(f) < target /\ ~hasPostTarget
                 THEN AtMost(reorder, PreTargetHistory - 1) ELSE reorder
  IN  AtMost(Append(history, f), MaxReorder)

PreviewWindowReady(t) ==
  /\ t.target # NoTarget /\ Len(t.reorder) >= PreviewWindow
  /\ Pts(t.reorder[Len(t.reorder)]) >= t.target

(* Mutant: a frame at the very target does not count as before it. *)
SelectPreviewStrictly(t) ==
  LET r == t.reorder
      before == {i \in DOMAIN r : Pts(r[i]) < t.target}
      after == {i \in DOMAIN r : Pts(r[i]) >= t.target}
      earliest(S) == CHOOSE i \in S : \A j \in S : r[i] <= r[j]
      latest(S) == CHOOSE i \in S : \A j \in S : r[i] >= r[j]
  IN  IF t.preferAfter /\ after # {} THEN earliest(after)
      ELSE IF before # {} THEN latest(before)
      ELSE 1

(* select_exact_seek_preview_index: the candidate nearest to the target on *)
(* the wanted side; failing that the nearest on the other, or the first.   *)
SelectPreview(t) ==
  LET r == t.reorder
      before == {i \in DOMAIN r : Pts(r[i]) <= t.target}
      after == {i \in DOMAIN r : Pts(r[i]) >= t.target}
      earliest(S) == CHOOSE i \in S : \A j \in S : r[i] <= r[j]
      latest(S) == CHOOSE i \in S : \A j \in S : r[i] >= r[j]
  IN  IF t.preferAfter /\ after # {} THEN earliest(after)
      ELSE IF before # {} THEN latest(before)
      ELSE 1
-----------------------------------------------------------------------------
(* Publishing: exact_seek_frame_publisher.cpp with its policy. *)

FreeSlots(ring) == IF ring.count < MaxCount THEN MaxCount - ring.count ELSE 0

PushAll(ring, frames) ==
  LET pushed[n \in 0 .. Len(frames)] ==
        IF n = 0 THEN ring ELSE RingPush(pushed[n - 1], frames[n])
  IN  pushed[Len(frames)]

(* Mutant: the output the codec has left is not asked for first. *)
CompletedWithoutDrain(t) ==
  [t EXCEPT !.state = "Ready", !.postSeek = FALSE, !.target = NoTarget,
            !.paused = @ \/ ~playing]

(* plan_exact_seek_preview_completion, as publish_exact_seek_window applies it. *)
Completed(t) ==
  [t EXCEPT !.state = "Ready", !.postSeek = FALSE, !.target = NoTarget,
            !.paused = @ \/ ~playing, !.drainRequest = TRUE]

PublishWindow(t, selected) ==
  LET free == FreeSlots(t.ring)
      history == IF selected > 1 /\ free > 1 THEN 1 ELSE 0
      start == selected - history
      end == Lesser(Len(t.reorder), start - 1 + Lesser(PreviewWindow + history, free))
      pushed == PushAll(t.ring, SubSeq(t.reorder, start, end))
  IN  Completed([t EXCEPT
        !.ring = IF history = 1 THEN RingAdvance(pushed) ELSE pushed,
        !.pending = SubSeq(t.reorder, end + 1, Len(t.reorder)),
        !.reorder = <<>>])

(* publish_best_exact_seek_frame: nothing is done when nothing fits. *)
PublishBest(t) ==
  IF t.target = NoTarget \/ t.reorder = <<>> \/ FreeSlots(t.ring) = 0 THEN t
  ELSE PublishWindow(t, SelectPreview(t))

(* complete_preroll_if_ready after a seek; it does not ask for the target. *)
PrerollCompleted(t) ==
  IF t.state = "Buffering" /\ t.ring.count >= PrerollTarget
  THEN [t EXCEPT !.state = "Ready", !.postSeek = FALSE, !.paused = @ \/ ~playing]
  ELSE t

(* drain_codec of a seek: every frame the codec still holds is collected. *)
CollectAll(t, frames) ==
  LET collected[n \in 0 .. Len(frames)] ==
        IF n = 0 THEN t.reorder ELSE Collect(t.target, collected[n - 1], frames[n])
  IN  [t EXCEPT !.reorder = collected[Len(frames)]]

FlushedCodec == [codec EXCEPT !.held = <<>>, !.more = FALSE]
-----------------------------------------------------------------------------
LandOn(target) ==
  LET before == {k \in Keyframes : Pts(k) <= target}
  IN  IF before = {} THEN 1 ELSE CHOOSE k \in before : \A j \in before : k >= j

(* begin_seek_epoch, with the demuxer repositioned and the queue empty. *)
Begun(target, preferAfter) ==
  [target |-> target, preferAfter |-> preferAfter, reorder |-> <<>>, pending |-> <<>>,
   drainRequest |-> FALSE, postSeek |-> TRUE, state |-> "Buffering",
   paused |-> FALSE, ring |-> NewRing]

Init ==
  \E target \in Targets, preferAfter, plays \in BOOLEAN :
    /\ goal = [target |-> target, preferAfter |-> preferAfter, start |-> LandOn(target)]
    /\ track = Begun(target, preferAfter)
    /\ playing = plays
    /\ eofFlushed = FALSE
    /\ demux = [read |-> LandOn(target) - 1, eof |-> FALSE]
    /\ codec = [sent |-> LandOn(target) - 1, held |-> <<>>, more |-> FALSE]
    /\ at = "loop" /\ hand = <<>>
    /\ moved = FALSE
    /\ seeks = 0

(* Another seek, wherever the decode thread is: a push in progress is      *)
(* discarded, and the loop comes to the notification before anything else. *)
BeginSeek(target, preferAfter) ==
  /\ seeks < MaxSeeks /\ seeks' = seeks + 1
  /\ goal' = [target |-> target, preferAfter |-> preferAfter, start |-> LandOn(target)]
  /\ track' = Begun(target, preferAfter)
  /\ eofFlushed' = FALSE
  /\ demux' = [read |-> LandOn(target) - 1, eof |-> FALSE]
  /\ codec' = [sent |-> LandOn(target) - 1, held |-> <<>>, more |-> FALSE]
  /\ at' = "loop" /\ hand' = <<>>
  /\ moved' = FALSE
  /\ UNCHANGED playing

(* Play and pause, as ToggleDecode of VideoPipeline. *)
Toggle ==
  /\ playing' = ~playing
  /\ track' = [track EXCEPT !.paused = playing]
  /\ UNCHANGED <<goal, eofFlushed, demux, codec, at, hand, moved, seeks>>
-----------------------------------------------------------------------------
(* The renderer: the head is presented and taken, or stepped past; a step  *)
(* back returns to the frame before it.                                    *)

notByRender == <<goal, playing, eofFlushed, demux, codec, at, hand, seeks>>

Advance ==
  /\ track.state = "Ready" /\ track.ring.advanced < MaxAdvances
  /\ IF playing THEN track.ring.count > 0 ELSE track.ring.count > 1
  /\ track' = [track EXCEPT !.ring = RingAdvance(@)]
  /\ moved' = TRUE
  /\ UNCHANGED notByRender

Retreat ==
  /\ track.state = "Ready" /\ ~playing /\ track.ring.count > 0
  /\ CanRetreat(track.ring)
  /\ track' = [track EXCEPT !.ring = RingRetreat(@)]
  /\ moved' = TRUE
  /\ UNCHANGED notByRender
-----------------------------------------------------------------------------
(* The demuxer: a packet per frame, and the end of the file. *)

DemuxRead ==
  /\ demux.read < LastFrame /\ demux.read - codec.sent < QueueCapacity
  /\ demux' = [demux EXCEPT !.read = @ + 1]
  /\ UNCHANGED <<goal, track, playing, eofFlushed, codec, at, hand, moved, seeks>>

DemuxEof ==
  /\ demux.read = LastFrame /\ ~demux.eof
  /\ demux' = [demux EXCEPT !.eof = TRUE]
  /\ UNCHANGED <<goal, track, playing, eofFlushed, codec, at, hand, moved, seeks>>

QueueEmpty == codec.sent = demux.read
-----------------------------------------------------------------------------
(* The decode thread.  While it pushes it cannot do anything else. *)

byOthers == <<goal, playing, demux, moved, seeks>>

Free == hand = <<>>

PushFrame ==
  /\ ~Free /\ CanPush(track.ring)
  /\ LET pushed == [track EXCEPT !.ring = RingPush(@, hand[1])]
     IN  track' = IF at = "receive" THEN PrerollCompleted(pushed) ELSE pushed
  /\ at' = IF at = "drain" /\ track.paused THEN "loop" ELSE at
  /\ hand' = <<>>
  /\ UNCHANGED <<eofFlushed, codec, byOthers>>

AtGate == at = "loop" /\ Free /\ ~track.paused

PublishPending ==
  /\ AtGate /\ track.pending # <<>>
  /\ hand' = <<Head(track.pending)>>
  /\ track' = [track EXCEPT !.pending = Tail(@)]
  /\ UNCHANGED <<eofFlushed, codec, at, byOthers>>

StartDrain ==
  /\ AtGate /\ track.pending = <<>> /\ track.drainRequest
  /\ at' = "drain"
  /\ UNCHANGED <<track, eofFlushed, codec, hand, byOthers>>

(* avcodec_receive_frame has a frame, or wants another packet first. *)
GiveFrame ==
  /\ codec.held # <<>>
  /\ codec' = [codec EXCEPT !.held = Tail(@), !.more = TRUE]

GiveAgain ==
  /\ Len(codec.held) <= CodecDelay
  /\ codec' = [codec EXCEPT !.more = FALSE]

DrainFrame ==
  /\ at \in {"drain", "eof"} /\ Free
  /\ GiveFrame
  /\ hand' = <<Head(codec.held)>>
  /\ UNCHANGED <<track, eofFlushed, at, byOthers>>

DrainDone ==
  /\ at = "drain" /\ Free
  /\ GiveAgain
  /\ track' = [track EXCEPT !.drainRequest = FALSE]
  /\ at' = "loop"
  /\ UNCHANGED <<eofFlushed, hand, byOthers>>

AtPop == AtGate /\ track.pending = <<>> /\ ~track.drainRequest

(* try_pop, the discard check and avcodec_send_packet, which may refuse    *)
(* input while it has output left; the packet is then lost.                *)
SendPacket ==
  /\ AtPop /\ ~QueueEmpty
  /\ eofFlushed' = FALSE
  /\ LET taken == [codec EXCEPT !.sent = @ + 1]
     IN  \/ codec' = [taken EXCEPT !.held = Append(@, taken.sent)]
         \/ codec.more /\ codec' = taken
  /\ at' = "receive"
  /\ UNCHANGED <<track, hand, byOthers>>

(* receive_decode_frames_for_packet *)
ReceiveFrame ==
  /\ at = "receive" /\ Free
  /\ GiveFrame
  /\ LET f == Head(codec.held)
     IN  IF track.target = NoTarget
         THEN hand' = <<f>> /\ UNCHANGED <<track, at>>
         ELSE /\ LET t == [track EXCEPT !.reorder = Collect(track.target, @, f)]
                 IN  IF PreviewWindowReady(t)
                     THEN track' = PublishBest(t) /\ at' = "received"
                     ELSE track' = t /\ UNCHANGED at
              /\ UNCHANGED hand
  /\ UNCHANGED <<eofFlushed, byOthers>>

ReceiveDone ==
  /\ at = "receive" /\ Free
  /\ GiveAgain
  /\ at' = "received"
  /\ UNCHANGED <<track, eofFlushed, hand, byOthers>>

(* handle_exact_seek_reorder_after_receive, then the preroll. *)
AfterReceive ==
  /\ at = "received" /\ at' = "loop"
  /\ LET candidates == track.target # NoTarget /\ track.reorder # <<>>
         ended == candidates /\ demux.eof /\ QueueEmpty
         drained == CollectAll(track, codec.held)
     IN  /\ IF ended /\ ~eofFlushed
            THEN codec' = FlushedCodec /\ eofFlushed' = TRUE
            ELSE UNCHANGED <<codec, eofFlushed>>
         /\ track' = PrerollCompleted(
              IF ended THEN PublishBest(IF eofFlushed THEN track ELSE drained)
              ELSE IF candidates /\ PreviewWindowReady(track) THEN PublishBest(track)
              ELSE track)
  /\ UNCHANGED <<hand, byOthers>>

GapAtEof == AtPop /\ QueueEmpty /\ demux.eof /\ ~eofFlushed

(* Mutant: a file that ends while the window fills is only noted. *)
EofWhileBufferingMarkOnly ==
  /\ GapAtEof /\ track.state = "Buffering"
  /\ eofFlushed' = TRUE
  /\ UNCHANGED <<track, codec, at, hand, byOthers>>

(* handle_buffering_eof of an exact seek *)
EofWhileBuffering ==
  /\ GapAtEof /\ track.state = "Buffering"
  /\ codec' = FlushedCodec /\ eofFlushed' = TRUE
  /\ LET t == PublishBest(CollectAll(track, codec.held))
     IN  track' = IF t.postSeek THEN [t EXCEPT !.state = "Ready", !.postSeek = FALSE]
                  ELSE t
  /\ UNCHANGED <<at, hand, byOthers>>

(* drain_codec_at_eof *)
EofDrain ==
  /\ GapAtEof /\ track.state = "Ready"
  /\ at' = "eof"
  /\ UNCHANGED <<track, eofFlushed, codec, hand, byOthers>>

EofDrained ==
  /\ at = "eof" /\ Free /\ codec.held = <<>>
  /\ eofFlushed' = TRUE
  /\ at' = "loop"
  /\ UNCHANGED <<track, codec, hand, byOthers>>
-----------------------------------------------------------------------------
DecodeNext ==
  \/ PushFrame \/ PublishPending \/ StartDrain \/ DrainFrame \/ DrainDone
  \/ SendPacket \/ ReceiveFrame \/ ReceiveDone \/ AfterReceive
  \/ EofWhileBuffering \/ EofDrain \/ EofDrained

DemuxNext == DemuxRead \/ DemuxEof

Next ==
  \/ \E target \in Targets, preferAfter \in BOOLEAN : BeginSeek(target, preferAfter)
  \/ Toggle \/ Advance \/ Retreat \/ DemuxNext \/ DecodeNext

Spec == Init /\ [][Next]_vars

(* The two threads run; nobody need play, step or seek. *)
FairSpec == Spec /\ WF_vars(DemuxNext) /\ WF_vars(DecodeNext)
-----------------------------------------------------------------------------
(* The frame an exact seek asks for among those behind the key frame it    *)
(* landed on: the last not after the target, or the first not before it;   *)
(* the nearest end when there is none.                                     *)
Wanted ==
  LET decoded == goal.start .. LastFrame
      before == {f \in decoded : Pts(f) <= goal.target}
      after == {f \in decoded : Pts(f) >= goal.target}
      earliest(S) == CHOOSE f \in S : \A g \in S : f <= g
      latest(S) == CHOOSE f \in S : \A g \in S : f >= g
  IN  IF goal.preferAfter
      THEN IF after # {} THEN earliest(after) ELSE LastFrame
      ELSE IF before # {} THEN latest(before) ELSE goal.start

Settled == track.state = "Ready" /\ ~moved

(* SEEK_STRATEGY.md:64: what is shown when the seek is done is that frame. *)
(* The window is a few frames of those decoded so far, and it is published *)
(* from three places of the loop; the frame must be the one a reader of    *)
(* the whole file would name.                                              *)
PreviewExact ==
  Settled => track.ring.count > 0 /\ Peek(track.ring, 0) = Wanted

(* exact_seek_candidate_store.cpp:130: the immediate predecessor is behind *)
(* the preview, so that a step back needs no seek, unless the preview is   *)
(* the first frame decoded.                                                *)
PredecessorKept ==
  Settled /\ Wanted > goal.start =>
    CanRetreat(track.ring) /\ Peek(track.ring, -1) = Wanted - 1

Forward(ring) == [i \in 1 .. ring.count |-> Peek(ring, i - 1)]

(* After the preview no frame is lost, shown twice or out of order: what   *)
(* is buffered, being pushed, pending, inside the codec and yet to be sent *)
(* is one run of frames up to the end of the file.                         *)
NoFrameLost ==
  track.state = "Ready" =>
    LET run == Forward(track.ring) \o hand \o track.pending \o codec.held
               \o [i \in 1 .. LastFrame - codec.sent |-> codec.sent + i]
    IN  run # <<>> =>
          run = [i \in 1 .. Len(run) |-> LastFrame - Len(run) + i]

(* Every exact seek shows its preview, also one near or past the end of    *)
(* the file, unless the user pauses the decoder first.                     *)
SeekCompletes == track.state = "Buffering" ~> track.state = "Ready" \/ track.paused
=============================================================================

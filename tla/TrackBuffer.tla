---------------------------- MODULE TrackBuffer ----------------------------
(***************************************************************************)
(* src/native/renderer/buffer/track_buffer.cpp: the frames a DecodeThread  *)
(* hands to the renderer, with the blocking push_frame.                    *)
(*                                                                         *)
(* Two threads meet here: the decode thread, which is inside push_frame or *)
(* not, and the owner, the renderer thread that presents, seeks or stops.  *)
(* push_frame holds push_mutex_ while it looks at the ring, but no         *)
(* operation of the owner takes push_mutex_: each changes the ring or an   *)
(* atomic first and notifies push_cv_ afterwards, so push_frame is cut     *)
(* wherever the owner can get in between.  A frame is its push number, and *)
(* what the ring has been given since it was last cleared is kept beside   *)
(* it, so that what each slot ought to hold can be said.                   *)
(***************************************************************************)
EXTENDS BidiRingOps

CONSTANTS MaxFrames,    (* bound: frames the decode thread pushes *)
          MaxAdvances   (* bound: advances since the ring was last cleared *)

VARIABLES
  ring,       (* ring_ *)
  state,      (* state_ *)
  aborted,    (* aborted_ *)
  dpc,        (* where the decode thread is in push_frame *)
  frame,      (* history: the number of the last frame given to push_frame *)
  opc,        (* "notify" while the owner has yet to notify push_cv_ *)
  given,      (* history: the frames the ring took since it was last cleared *)
  cursor,     (* history: how many of them lie behind the read position *)
  sinceClear, (* history: pushes since clear_frames during the current Flushing *)
  sinceAbort  (* history: pushes since abort *)

contents == <<ring, given, cursor>>

counted == <<sinceClear, sinceAbort>>

bufferVars == <<contents, state, aborted, dpc, frame, opc, counted>>

TrackStates == {"Empty", "Buffering", "Ready", "Flushing", "Error"}

(* The history of a Flushing that has not been cleared, and of no abort. *)
Unset == -1

BufferInit ==
  /\ ring = NewRing /\ given = <<>> /\ cursor = 0
  /\ state = "Empty"
  /\ aborted = FALSE
  /\ dpc = "idle"
  /\ frame = 0
  /\ opc = "idle"
  /\ sinceClear = Unset
  /\ sinceAbort = Unset
-----------------------------------------------------------------------------
(* push_frame, step by step. *)

PushFrameCall ==
  /\ dpc = "idle" /\ frame < MaxFrames
  /\ frame' = frame + 1
  /\ dpc' = "waiting"
  /\ UNCHANGED <<contents, state, aborted, opc, counted>>

PushPredicate == ring.count < MaxCount \/ aborted

PushFramePredicate ==
  /\ dpc = "waiting"
  /\ dpc' = IF PushPredicate THEN "admitted" ELSE "blocking"
  /\ UNCHANGED <<contents, state, aborted, frame, opc, counted>>

PushFrameSleep ==
  /\ dpc = "blocking"
  /\ dpc' = "asleep"
  /\ UNCHANGED <<contents, state, aborted, frame, opc, counted>>

(* Mutant: an aborted push goes on. *)
PushFrameIgnoreAborted ==
  /\ dpc = "admitted"
  /\ dpc' = "checked"
  /\ UNCHANGED <<contents, state, aborted, frame, opc, counted>>

PushFrameCheckAborted ==
  /\ dpc = "admitted"
  /\ dpc' = IF aborted THEN "idle" ELSE "checked"
  /\ UNCHANGED <<contents, state, aborted, frame, opc, counted>>

(* Mutant: frames are not discarded during Flushing. *)
PushFrameIgnoreState ==
  /\ dpc = "checked"
  /\ dpc' = "inserting"
  /\ UNCHANGED <<contents, state, aborted, frame, opc, counted>>

PushFrameCheckState ==
  /\ dpc = "checked"
  /\ dpc' = IF state = "Flushing" THEN "idle" ELSE "inserting"
  /\ UNCHANGED <<contents, state, aborted, frame, opc, counted>>

Count(n) == IF n = Unset THEN Unset ELSE n + 1

(* ring_.push, whose refusal push_frame does not look at. *)
PushFrameInsert ==
  /\ dpc = "inserting"
  /\ \/ /\ CanPush(ring)
        /\ ring' = RingPush(ring, frame)
        /\ given' = Append(given, frame)
        /\ sinceClear' = Count(sinceClear)
        /\ sinceAbort' = Count(sinceAbort)
     \/ /\ ~CanPush(ring)
        /\ UNCHANGED <<ring, given, counted>>
  /\ dpc' = "idle"
  /\ UNCHANGED <<cursor, state, aborted, frame, opc>>

(* condition_variable::wait may return without a notification. *)
PushSpuriousWake ==
  /\ dpc = "asleep"
  /\ dpc' = "waiting"
  /\ UNCHANGED <<contents, state, aborted, frame, opc, counted>>
-----------------------------------------------------------------------------
(* The owner.  notify_one and notify_all are the same: one thread waits. *)

SetState(s) ==
  /\ opc = "idle"
  /\ state' = s
  /\ opc' = IF s = "Flushing" THEN "notify" ELSE "idle"
  /\ sinceClear' = Unset
  /\ UNCHANGED <<contents, aborted, dpc, frame, sinceAbort>>

AbortBuffer ==
  /\ opc = "idle"
  /\ aborted' = TRUE
  /\ opc' = "notify"
  /\ sinceAbort' = IF aborted THEN sinceAbort ELSE 0
  /\ UNCHANGED <<contents, state, dpc, frame, sinceClear>>

Emptied == given' = <<>> /\ cursor' = 0

(* Mutant: total_advanced_ is kept. *)
ClearFramesKeepAdvanced ==
  /\ opc = "idle"
  /\ ring' = [NewRing EXCEPT !.advanced = ring.advanced]
  /\ Emptied
  /\ opc' = "notify"
  /\ sinceClear' = IF state = "Flushing" THEN 0 ELSE Unset
  /\ UNCHANGED <<state, aborted, dpc, frame, sinceAbort>>

ClearFrames ==
  /\ opc = "idle"
  /\ ring' = NewRing
  /\ Emptied
  /\ opc' = "notify"
  /\ sinceClear' = IF state = "Flushing" THEN 0 ELSE Unset
  /\ UNCHANGED <<state, aborted, dpc, frame, sinceAbort>>

(* reset(): "after abort so the buffer can be reused", with no push in      *)
(* progress.                                                               *)
ResetBuffer ==
  /\ opc = "idle" /\ dpc = "idle"
  /\ aborted' = FALSE
  /\ ring' = NewRing
  /\ Emptied
  /\ state' = "Empty"
  /\ opc' = "notify"
  /\ sinceClear' = Unset
  /\ sinceAbort' = Unset
  /\ UNCHANGED <<dpc, frame>>

(* advance and advance_history_cursor *)
Advance ==
  /\ opc = "idle" /\ ring.advanced < MaxAdvances
  /\ CanAdvance(ring)
  /\ ring' = RingAdvance(ring)
  /\ cursor' = cursor + 1
  /\ opc' = "notify"
  /\ UNCHANGED <<given, state, aborted, dpc, frame, counted>>

Retreat ==
  /\ opc = "idle"
  /\ CanRetreat(ring)
  /\ ring' = RingRetreat(ring)
  /\ cursor' = cursor - 1
  /\ UNCHANGED <<given, state, aborted, dpc, frame, opc, counted>>

Notify ==
  /\ opc = "notify"
  /\ opc' = "idle"
  /\ dpc' = IF dpc = "asleep" THEN "waiting" ELSE dpc
  /\ UNCHANGED <<contents, state, aborted, frame, counted>>
-----------------------------------------------------------------------------
DecodeStep ==
  \/ PushFramePredicate \/ PushFrameSleep \/ PushFrameCheckAborted
  \/ PushFrameCheckState \/ PushFrameInsert

BufferNext ==
  \/ PushFrameCall \/ DecodeStep \/ PushSpuriousWake
  \/ \E s \in TrackStates : SetState(s)
  \/ AbortBuffer \/ ClearFrames \/ ResetBuffer \/ Advance \/ Retreat \/ Notify

BufferSpec == BufferInit /\ [][BufferNext]_bufferVars
-----------------------------------------------------------------------------
(* Whatever is flushed, refused or stepped back to, the frames from the     *)
(* read position on are the ones pushed, in their order: push overwrites    *)
(* none that is still to be shown or was stepped back to.  And count_ and   *)
(* the two indices, which are updated separately, describe the same span,   *)
(* also when the ring is completely full and the indices meet               *)
(* (bidi_ring_buffer.cpp push, retreat, forward_count).                     *)
ForwardExact ==
  /\ ring.count = Len(given) - cursor
  /\ ForwardCount(ring) = ring.count
  /\ \A i \in 0 .. ring.count - 1 : Peek(ring, i) = given[cursor + i + 1]

(* bidi_ring_buffer.cpp:97 "The frame we want to retreat to must exist": it *)
(* is the one shown before.  And the offsets a backward step looks at, up   *)
(* to available_retreat_count(), never show a frame after the current one.  *)
BackwardExact ==
  /\ CanRetreat(ring) => cursor >= 1
  /\ \A k \in 1 .. AvailableRetreats(ring) :
       cursor >= k /\ Peek(ring, -k) = given[cursor + 1 - k]

(* A seek sets Flushing and then clears.  A push that had already looked    *)
(* at the state gets through, but never more than that one frame            *)
(* (track_buffer.cpp:40).  Likewise an abort lets at most one frame through *)
(* before push_frame refuses every other.                                   *)
AtMostOneSlipsThrough == sinceClear <= 1 /\ sinceAbort <= 1
=============================================================================

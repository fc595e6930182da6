---------------------------- MODULE BidiRingOps ----------------------------
(***************************************************************************)
(* The value of one src/native/renderer/buffer/bidi_ring_buffer.h          *)
(* BidiRingBuffer and what each of its methods computes.  Every method     *)
(* holds mutex_ from its first to its last access, so each is one step of  *)
(* whoever calls it.  A frame is a member of Frames; a slot that was never *)
(* written holds NoFrame, the default TextureFrame.                        *)
(***************************************************************************)
EXTENDS Integers, Sequences

CONSTANTS ForwardDepth, BackwardDepth, NoFrame

ASSUME DepthAssumption ==
  /\ ForwardDepth \in Nat \ {0}
  /\ BackwardDepth \in Nat

RingCapacity == ForwardDepth + BackwardDepth + 1

(* Mutant: every slot may be filled. *)
EverySlot == RingCapacity

(* max_count(): the slots push may fill; the others keep frames to go back to. *)
MaxCount == RingCapacity - BackwardDepth

Slots == 0 .. RingCapacity - 1

(* A ring just constructed or cleared. *)
NewRing ==
  [slots |-> [i \in Slots |-> NoFrame], writeIdx |-> 0, readIdx |-> 0,
   count |-> 0, retreated |-> 0, advanced |-> 0]

CanPush(r) == r.count < MaxCount

RingPush(r, frame) ==
  [r EXCEPT !.slots[r.writeIdx] = frame,
            !.writeIdx = (@ + 1) % RingCapacity,
            !.count = @ + 1]

CanAdvance(r) == r.count > 0

RingAdvance(r) ==
  [r EXCEPT !.readIdx = (@ + 1) % RingCapacity,
            !.count = @ - 1,
            !.retreated = IF @ > 0 THEN @ - 1 ELSE 0,
            !.advanced = @ + 1]

CanRetreat(r) == r.retreated < BackwardDepth /\ r.retreated < r.advanced

RingRetreat(r) ==
  [r EXCEPT !.readIdx = (@ + RingCapacity - 1) % RingCapacity,
            !.count = @ + 1,
            !.retreated = @ + 1]

(* The slot peek(offset) looks at. *)
Peek(r, offset) == r.slots[(r.readIdx + RingCapacity + offset) % RingCapacity]

Lesser(x, y) == IF x < y THEN x ELSE y

(* available_retreat_count() *)
AvailableRetreats(r) ==
  LET available == Lesser(BackwardDepth, r.advanced)
  IN  IF available > r.retreated THEN available - r.retreated ELSE 0

(* forward_count(), which recomputes count_ from the two indices. *)
ForwardCount(r) ==
  IF r.count = 0 THEN 0
  ELSE IF r.count = RingCapacity /\ r.writeIdx = r.readIdx THEN r.count
  ELSE (r.writeIdx + RingCapacity - r.readIdx) % RingCapacity
=============================================================================

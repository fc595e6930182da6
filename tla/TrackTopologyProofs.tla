------------------------ MODULE TrackTopologyProofs ------------------------
(***************************************************************************)
(* The safety of TrackTopology, for any number of slots, any file ids and  *)
(* any number of calls: whatever order tracks are added, removed, moved    *)
(* and replaced in beside the render loop and the host, a frame that       *)
(* passes the filter is of the pipeline in its slot, the sink has the      *)
(* registry's tracks, the slots are filled from the first on, exactly the  *)
(* open tracks have an audio decoder, an open track keeps the frame it can *)
(* be carried with, and the display order lists the open tracks.           *)
(***************************************************************************)
EXTENDS TrackTopology, SequenceTheorems, FiniteSetTheorems,
        WellFoundedInduction, TLAPS

TrackMaps == [Slots -> Tracks \union {NoTrack}]

Adding == [pc : {"opening", "starting"}, slot : Slots, resume : BOOLEAN, track : Tracks]

Removing == [pc : {"moving", "clearing"}, slot : Slots, at : Slots, id : Nat,
             resume : BOOLEAN, anchored : SUBSET Tracks]

Seeking == [pc : {"seeking"}, todo : SUBSET Slots, applied : BOOLEAN, byLoop : BOOLEAN]

Recreating == [pc : {"recreating", "restarting"}, todo : SUBSET Slots,
               applied : BOOLEAN, byLoop : BOOLEAN, slot : Slots, track : Tracks]

Ops == {NoOp} \union Adding \union Removing \union Seeking \union Recreating

Typed ==
  /\ slots \in TrackMaps /\ sink \in TrackMaps
  /\ history \in TrackMaps /\ decision \in TrackMaps
  /\ nextId \in Nat /\ nextGen \in Nat /\ pipes \in Nat
  /\ playing \in BOOLEAN /\ initialized \in BOOLEAN
  /\ op \in Ops

(* The call has a track that is in no slot yet. *)
HasNew == op.pc \in {"opening", "starting", "recreating", "restarting"}

(* The tracks that frames, slots and sink are of. *)
FramesOf(map) == {map[s] : s \in Slots} \ {NoTrack}

Known ==
  FramesOf(slots) \union FramesOf(sink) \union FramesOf(history) \union FramesOf(decision)

(* A generation is given out once: it tells the tracks apart, those of old *)
(* frames too, and the track that a call is about to open is another one.  *)
OneGeneration ==
  /\ \A f \in Known : f.gen < nextGen
  /\ \A f, g \in Known : f.gen = g.gen => f = g
  /\ HasNew => op.track.gen < nextGen /\ \A f \in Known : f.gen # op.track.gen

(* The sink has the tracks of the registry, but for the one just moved,    *)
(* which is at both slots.                                                 *)
SinkFollows ==
  IF op.pc = "clearing" THEN slots = [sink EXCEPT ![op.at + 1] = NoTrack]
  ELSE sink = slots

(* The slot a call has emptied, or left behind on the way of the hole.     *)
Hole ==
  IF op.pc = "moving" THEN {op.at}
  ELSE IF op.pc = "clearing" THEN {op.at + 1}
  ELSE IF op.pc \in {"recreating", "restarting"} THEN {op.slot}
  ELSE {}

Gapless ==
  lost = {} => \E n \in 0 .. MaxTracks :
                 /\ Open \union Hole = 1 .. n
                 /\ op.pc \in {"opening", "starting"} => op.slot = n + 1

(* Where a call is among the slots. *)
Places ==
  /\ Hole \subseteq Slots \ Open
  /\ HasNew => op.slot \notin Open
  /\ op.pc \in {"seeking", "recreating", "restarting"} => op.todo \subseteq Open

(* Ids tell the open tracks apart, the new one too, and the next one is    *)
(* larger than all.                                                        *)
OneId ==
  /\ \A s, t \in Open : slots[s].id = slots[t].id => s = t
  /\ \A s \in Open : slots[s].id < nextId
  /\ HasNew => op.track.id < nextId /\ op.track.id \notin OpenIds

(* The open tracks have an audio decoder, and a new one that was started.  *)
Audible ==
  initialized =>
    audio = OpenIds \union (IF op.pc \in {"starting", "restarting"} THEN {op.track.id}
                            ELSE {})

Rest == SinkFollows /\ Places /\ Gapless /\ OneId /\ Audible

IInv == Typed /\ Rest /\ OneGeneration

(* A decision that is as young as the tracks has, where the frame in the   *)
(* history can be carried, that very frame: it has been carried, or will   *)
(* be when the decision was ticked without it.                             *)
Timely == lost = {} /\ late \cap {"removal", "redraw"} = {}

Compacting == op.pc \in {"moving", "clearing"}

Carried ==
  Timely /\ ~Compacting => \A s \in Open : history[s] = slots[s] =>
    /\ lpc = "filtered" => decision[s] \in {NoTrack, slots[s]}
    /\ lpc \in {"presenting", "accepted", "previewing"} => decision[s] = slots[s]

(* While the slots move up, the history waits for the end of it: the frame *)
(* of a track that has passed the hole is one slot further.                *)
Emptied == IF op.pc = "clearing" THEN op.at + 1 ELSE op.at

FrameOf(k) == IF op.slot <= k /\ k < Emptied THEN history[k + 1] ELSE history[k]

Shifted ==
  Compacting =>
    /\ op.slot <= Emptied
    /\ \A t \in op.anchored : \E k \in Open : slots[k] = t /\ FrameOf(k) = t

Anchored == Carried /\ Shifted

(* s lists the ids, each once. *)
Lists(s, ids) ==
  /\ s \in Seq(Nat)
  /\ \A i, j \in 1 .. Len(s) : s[i] = s[j] => i = j
  /\ \A i \in 1 .. Len(s) : s[i] \in ids
  /\ \A id \in ids : \E i \in 1 .. Len(s) : s[i] = id

Replacing == op.pc \in {"recreating", "restarting"}

(* In a removal the id is listed to the end, in a replacement throughout. *)
Listed ==
  OpenIds \union (IF Compacting THEN {op.id}
                  ELSE IF Replacing THEN {op.track.id} ELSE {})

DrawnFrom(s, id) ==
  \/ s \in Open /\ slots[s].id = id
  \/ Replacing /\ s = op.slot /\ op.track.id = id

(* The display order has the tracks' ids and slots as of the last call, or *)
(* of the last section of it.                                              *)
OrderFollows ==
  lost = {} /\ "order" \notin late =>
    /\ Lists(order, Listed)
    /\ drawn \in Seq(Slots) /\ Len(drawn) = Len(order)
    /\ ~Compacting => \A i \in 1 .. Len(order) : DrawnFrom(drawn[i], order[i])

(* And so does a layout that waits, unless it is late. *)
PendingFollows ==
  lost = {} /\ pending # <<>> /\ "pending" \notin late =>
    ~Replacing /\ (~Compacting => Lists(pending, OpenIds))

RemovedClosed == Compacting => op.id \notin OpenIds

Ordered == OrderFollows /\ PendingFollows /\ RemovedClosed
-----------------------------------------------------------------------------
LEMMA Least ==
  ASSUME NEW S \in SUBSET Nat, S # {}
  PROVE  Min(S) \in S /\ \A y \in S : Min(S) <= y
<1>1. \E x \in S : \A y \in S : ~ (<<y, x>> \in OpToRel(<, Nat))
  BY NatLessThanWellFounded, WFMin, Zenon
<1>2. \A x, y \in S : <<y, x>> \in OpToRel(<, Nat) <=> y < x BY Zenon DEF OpToRel
<1>3. \E x \in S : \A y \in S : ~ (y < x) BY <1>1, <1>2, Zenon
<1>4. \E x \in S : \A y \in S : x <= y BY <1>3
<1> QED BY <1>4 DEF Min

LEMMA Apart == NoTrack \notin Tracks /\ MaxTracks \in Nat /\ Slots \subseteq Nat
  BY TrackAssumption DEF Slots

(* What the shape of op says of each state of a call. *)
LEMMA Shapes ==
  ASSUME op \in Ops
  PROVE  /\ op.pc \in {"none", "opening", "starting", "moving", "clearing", "seeking",
                       "recreating", "restarting"}
         /\ op.pc = "none" <=> op = NoOp
         /\ op.pc \in {"opening", "starting"} => op \in Adding
         /\ op.pc \in {"moving", "clearing"} => op \in Removing
         /\ op.pc = "seeking" => op \in Seeking
         /\ op.pc \in {"recreating", "restarting"} => op \in Recreating
<1>1. NoOp.pc = "none" BY DEF NoOp
<1>2. op \in Adding => op.pc \in {"opening", "starting"} BY DEF Adding
<1>3. op \in Removing => op.pc \in {"moving", "clearing"} BY DEF Removing
<1>4. op \in Seeking => op.pc = "seeking" BY DEF Seeking
<1>5. op \in Recreating => op.pc \in {"recreating", "restarting"} BY DEF Recreating
<1> HIDE DEF NoOp
<1>6. op = NoOp \/ op \in Adding \/ op \in Removing \/ op \in Seeking \/ op \in Recreating
  BY DEF Ops
<1> QED BY <1>1, <1>2, <1>3, <1>4, <1>5, <1>6

(* The steps that leave the tracks alone: the loop, the host, and the      *)
(* calls that only set the clock or the layout.                            *)
Quiet == LoopStep \/ HostRedraw \/ Play \/ Pause \/ ApplyLayout \/ DeviceLost

LEMMA QuietKeeps ==
  ASSUME Quiet
  PROVE  /\ UNCHANGED <<slots, sink, audio, registry, op, pipes, lost>>
         /\ initialized' => initialized
<1> USE DEF registry, layout, loop, history_
<1>1. ASSUME LoopStep PROVE UNCHANGED <<slots, sink, audio, registry, op, pipes, lost,
                                       initialized>>
  BY <1>1 DEF LoopStep, LoopTick, LoopFilter, LoopCarry, LoopPresent, LoopCommit, LoopSettle,
       LoopConsume, LoopPreview, LoopPreviewSet
<1>2. ASSUME HostRedraw \/ Play \/ Pause \/ ApplyLayout
      PROVE  UNCHANGED <<slots, sink, audio, registry, op, pipes, lost, initialized>>
  BY <1>2 DEF HostRedraw, Play, Pause, ApplyLayout, Call
<1>3. ASSUME DeviceLost
      PROVE  /\ UNCHANGED <<slots, sink, audio, registry, op, pipes, lost>>
             /\ initialized' = FALSE
  BY <1>3 DEF DeviceLost
<1>4. UNCHANGED <<slots, sink, audio, registry, op, pipes, lost>> BY <1>1, <1>2, <1>3 DEF Quiet
<1>5. initialized' = initialized \/ initialized' = FALSE BY <1>1, <1>2, <1>3 DEF Quiet
<1> QED BY <1>4, <1>5

(* They make no track: a frame they put into the history or a decision was *)
(* in a slot, the sink, the history or the decision before.                *)
LEMMA QuietFrames ==
  ASSUME Quiet, NEW K, LET M == [Slots -> K \union {NoTrack}]
                       IN  {slots, sink, history, decision} \subseteq M
  PROVE  {history', decision'} \subseteq [Slots -> K \union {NoTrack}]
<1> DEFINE M == [Slots -> K \union {NoTrack}]
<1>1. Nothing \in M BY DEF Nothing
<1>2. \A f \in M : Filter(f) \in M BY DEF Filter
<1>3. \A f, g \in M : Fill(f, g) \in M BY DEF Fill
<1>4. \A f \in M, r \in SUBSET Slots : Heads(f, r) \in M BY DEF Heads
<1>5. \A f \in M : CarryForward(f) \in M BY <1>2, <1>3 DEF CarryForward
<1>6. \A r \in SUBSET Slots : Cached(r) \in M BY <1>2, <1>3, <1>4 DEF Cached
<1>7. SUBSET Open \subseteq SUBSET Slots BY DEF Open
<1> HIDE DEF M
<1>8. slots \in M /\ sink \in M /\ history \in M /\ decision \in M BY DEF M
<1>9. history' \in M /\ decision' \in M
  <2> USE <1>1, <1>2, <1>3, <1>4, <1>5, <1>6, <1>7, <1>8
      DEF registry, layout, loop, history_, LoopEnds
  <2>1. CASE LoopTick BY <2>1 DEF LoopTick
  <2>2. CASE LoopFilter BY <2>2 DEF LoopFilter
  <2>3. CASE LoopCarry BY <2>3 DEF LoopCarry
  <2>4. CASE LoopPresent BY <2>4 DEF LoopPresent
  <2>5. CASE LoopCommit BY <2>5 DEF LoopCommit
  <2>6. CASE LoopSettle \/ LoopConsume BY <2>6 DEF LoopSettle, LoopConsume
  <2>7. CASE LoopPreview BY <2>7 DEF LoopPreview
  <2>8. CASE LoopPreviewSet BY <2>8 DEF LoopPreviewSet
  <2>9. CASE HostRedraw BY <2>9 DEF HostRedraw
  <2>10. CASE Play \/ Pause \/ ApplyLayout \/ DeviceLost
    BY <2>10 DEF Play, Pause, ApplyLayout, DeviceLost
  <2> QED BY <2>1, <2>2, <2>3, <2>4, <2>5, <2>6, <2>7, <2>8, <2>9, <2>10
       DEF Quiet, LoopStep
<1> QED BY <1>9 DEF M
-----------------------------------------------------------------------------
LEMMA OpenTracks ==
  ASSUME Typed
  PROVE  /\ Open \subseteq Slots
         /\ \A s \in Open : slots[s] \in Tracks
         /\ \A s \in Slots \ Open : slots[s] = NoTrack
  BY Apart DEF Typed, TrackMaps, Open

(* Two more facts about where a call is. *)
LEMMA Spots ==
  ASSUME Typed, Places
  PROVE  /\ HasNew => op.slot \in Slots \ Open /\ op.track \in Tracks
         /\ op.pc \in {"moving", "clearing"} => op.at \in Slots /\ op.slot \in Slots
         /\ op.pc = "clearing" => op.at + 1 \in Slots \ Open
         /\ op.pc = "moving" => op.at \in Slots \ Open
         /\ op.pc = "seeking" /\ op.todo # {} => Min(op.todo) \in op.todo
         /\ op.pc \in {"seeking", "recreating", "restarting"} => op.todo \in SUBSET Open
<1>1. op \in Ops BY DEF Typed
<1>2. HasNew => op.slot \in Slots \ Open /\ op.track \in Tracks
  BY <1>1, Shapes DEF HasNew, Adding, Recreating, Places
<1>3. op.pc \in {"moving", "clearing"} => op.at \in Slots /\ op.slot \in Slots
  BY <1>1, Shapes DEF Removing
<1>4. op.pc = "clearing" => op.at + 1 \in Slots \ Open BY DEF Places, Hole
<1>5. op.pc = "moving" => op.at \in Slots \ Open BY DEF Places, Hole
<1>6. op.pc \in {"seeking", "recreating", "restarting"} => op.todo \in SUBSET Open
  BY DEF Places
<1>7. op.pc = "seeking" /\ op.todo # {} => Min(op.todo) \in op.todo
  BY <1>6, Least, Apart DEF Open
<1> QED BY <1>2, <1>3, <1>4, <1>5, <1>6, <1>7

LEMMA EmptySlot ==
  ASSUME Open # Slots
  PROVE  FirstEmpty \in Slots \ Open /\ \A s \in Slots \ Open : FirstEmpty <= s
  BY Least, Apart DEF FirstEmpty, Open

(* A step makes no frame but of the track that a call puts into its slot,  *)
(* and then the call has none in hand.                                     *)
LEMMA StepFrames ==
  ASSUME Typed, Places, ApiStep \/ Quiet,
         NEW K, {slots, sink, history, decision} \subseteq [Slots -> K \union {NoTrack}]
  PROVE  LET M == [Slots -> K \union {NoTrack}]
             N == [Slots -> K \union {op.track, NoTrack}]
         IN  \/ {slots', sink', history', decision'} \subseteq M
             \/ /\ {slots', sink', history', decision'} \subseteq N
                /\ HasNew /\ op'.pc \in {"none", "seeking"} /\ UNCHANGED nextGen
<1> DEFINE M == [Slots -> K \union {NoTrack}]
           N == [Slots -> K \union {op.track, NoTrack}]
           Kept == {slots', sink', history', decision'} \subseteq M
<1>0. slots \in M /\ sink \in M /\ history \in M /\ decision \in M OBVIOUS
<1>1. \A f \in M, s \in Slots : [f EXCEPT ![s] = NoTrack] \in M OBVIOUS
<1>2. \A f \in M, s \in Slots : [f EXCEPT ![s] = NoTrack] \in N OBVIOUS
<1>3. \A f \in M, s \in Slots : [f EXCEPT ![s] = op.track] \in N OBVIOUS
<1>4. \A f \in M, s, t \in Slots : [f EXCEPT ![s] = f[t], ![t] = NoTrack] \in M OBVIOUS
<1>5. \A f, g \in M, s, t \in Slots : [g EXCEPT ![s] = f[t]] \in M OBVIOUS
<1>6. \A f \in M, s \in Slots : CompactHistory(f, s) \in M BY Apart DEF CompactHistory, Slots
<1>7. Nothing \in M BY DEF Nothing
<1>8. M \subseteq N OBVIOUS
<1>9. op.pc = "moving" /\ MoreToMove => op.at + 1 \in Slots
  BY Spots, Apart DEF MoreToMove, Slots
<1> HIDE DEF M, N
<1> USE <1>0 DEF registry, layout, loop, history_, Call, NoOp
<1>10. CASE Quiet
  <2>1. {history', decision'} \subseteq M BY <1>10, QuietFrames DEF M
  <2>2. Kept BY <2>1, <1>10, QuietKeeps
  <2> QED BY <2>2 DEF M
<1>11. CASE AddCommit
  <2>1. HasNew /\ op' = NoOp BY <1>11 DEF AddCommit, HasNew
  <2>2. slots' \in N /\ sink' \in N /\ history' \in N /\ decision' \in N
    BY <1>11, <2>1, <1>2, <1>3, <1>8, Spots DEF AddCommit, ClearReservedSlot
  <2>3. UNCHANGED nextGen BY <1>11 DEF AddCommit
  <2> QED BY <2>1, <2>2, <2>3 DEF N
<1>12. CASE RecreateCommit
  <2>1. HasNew /\ op'.pc = "seeking" BY <1>12 DEF RecreateCommit, HasNew, SeekGoesOn
  <2>2. slots' \in N /\ sink' \in N /\ history' \in N /\ decision' \in N
    <3>1. /\ \/ slots' = [slots EXCEPT ![op.slot] = op.track]
                /\ sink' = [sink EXCEPT ![op.slot] = op.track]
             \/ UNCHANGED <<slots, sink>>
          /\ UNCHANGED <<history, decision>> /\ op.slot \in Slots
      BY <1>12, <2>1, Spots DEF RecreateCommit
    <3>2. slots' \in N /\ sink' \in N BY <3>1, <1>3, <1>8
    <3> QED BY <3>1, <3>2, <1>8
  <2>3. UNCHANGED nextGen BY <1>12 DEF RecreateCommit
  <2> QED BY <2>1, <2>2, <2>3 DEF N
<1>13. CASE \E id \in FileIds \cup {AutoId} : AddReserve(id)
  BY <1>13 DEF AddReserve, M
<1>14. CASE AddStart \/ AddFails \/ AddDiscard BY <1>14 DEF AddStart, AddFails, AddDiscard, M
<1>15. CASE \E s \in Slots : RemoveDetach(s)
  <2>1. PICK s \in Slots : RemoveDetach(s) BY <1>15
  <2>2. slots' \in M /\ sink' \in M BY <2>1, <1>1 DEF RemoveDetach
  <2>3. UNCHANGED <<history, decision>> BY <2>1 DEF RemoveDetach
  <2> QED BY <2>2, <2>3 DEF M
<1>16. CASE RemoveMove
  <2>1. slots' \in M BY <1>16, <1>4, <1>9, Spots DEF RemoveMove
  <2>2. sink' \in M BY <1>16, <1>5, <1>9, Spots DEF RemoveMove
  <2> QED BY <1>16, <2>1, <2>2 DEF RemoveMove, M
<1>17. CASE RemoveClear
  <2>1. sink' \in M BY <1>17, <1>1, Spots DEF RemoveClear
  <2> QED BY <1>17, <2>1 DEF RemoveClear, M
<1>18. CASE RemoveFinish
  <2>1. history' \in M BY <1>18, <1>6, Spots DEF RemoveFinish
  <2> QED BY <1>18, <2>1 DEF RemoveFinish, M
<1>19. CASE RecreateDetach
  <2>1. Min(op.todo) \in Slots BY <1>19, Spots DEF RecreateDetach, Open
  <2>2. slots' \in M /\ sink' \in M /\ history' \in M BY <1>19, <2>1, <1>1 DEF RecreateDetach
  <2> QED BY <1>19, <2>2 DEF RecreateDetach, M
<1>20. CASE RecreateFails \/ RecreateStart
  BY <1>20 DEF RecreateFails, RecreateStart, M
<1>21. CASE SeekFinish \/ \E r \in SUBSET Slots, byLoop \in BOOLEAN : SeekCall(r, byLoop)
  <2>1. Kept BY <1>21, <1>7 DEF SeekFinish, SeekCall
  <2> QED BY <2>1 DEF M
<1> QED BY <1>10, <1>11, <1>12, <1>13, <1>14, <1>15, <1>16, <1>17, <1>18, <1>19, <1>20, <1>21
     DEF ApiStep, Quiet

(* The types. *)
LEMMA OpTyped ==
  ASSUME Typed, Places, ApiStep
  PROVE  op' \in Ops
<1> USE Spots, OpenTracks, Apart
<1>0. op \in Ops /\ playing \in BOOLEAN /\ nextId \in Nat /\ nextGen \in Nat /\ pipes \in Nat
  BY DEF Typed
<1>1. CASE \E id \in FileIds \cup {AutoId} : AddReserve(id)
  <2>1. PICK id \in FileIds \cup {AutoId} : AddReserve(id) BY <1>1
  <2>2. FirstEmpty \in Slots BY <2>1, EmptySlot DEF AddReserve
  <2> DEFINE new == IF id = AutoId THEN nextId ELSE id
  <2>3. Track(new, nextGen, 0) \in Tracks BY <1>0, TrackAssumption DEF Track, Tracks
  <2>4. op' = [pc |-> "opening", slot |-> FirstEmpty, resume |-> playing,
               track |-> Track(new, nextGen, 0)] BY <2>1 DEF AddReserve
  <2> HIDE DEF new
  <2>5. op' \in Adding BY <2>2, <2>3, <2>4, <1>0 DEF Adding
  <2> QED BY <2>5 DEF Ops
<1>2. CASE AddStart
  <2>1. op \in Adding BY <1>2, <1>0, Shapes DEF AddStart
  <2> DEFINE new == [op.track EXCEPT !.pipe = pipes + 1]
  <2>2. new \in Tracks BY <2>1, <1>0 DEF Adding, Tracks
  <2>3. op' = [op EXCEPT !.pc = "starting", !.track = new] BY <1>2, <2>1 DEF AddStart, Adding
  <2> HIDE DEF new
  <2>4. op' \in Adding BY <2>1, <2>2, <2>3 DEF Adding
  <2> QED BY <2>4 DEF Ops
<1>3. CASE AddFails \/ AddCommit \/ AddDiscard \/ RemoveFinish \/ SeekFinish
  BY <1>3 DEF AddFails, AddCommit, AddDiscard, RemoveFinish, SeekFinish, Ops
<1>4. CASE \E s \in Slots : RemoveDetach(s)
  <2>1. PICK s \in Slots : RemoveDetach(s) BY <1>4
  <2>2. slots[s].id \in Nat BY <2>1 DEF RemoveDetach, Tracks
  <2>3. Anchors \ {slots[s]} \in SUBSET Tracks BY DEF Anchors
  <2>4. op' = [pc |-> "moving", slot |-> s, at |-> s, id |-> slots[s].id,
               resume |-> playing, anchored |-> Anchors \ {slots[s]}]
    BY <2>1 DEF RemoveDetach
  <2>5. op' \in Removing BY <2>2, <2>3, <2>4, <1>0 DEF Removing
  <2> QED BY <2>5 DEF Ops
<1>5. CASE RemoveMove
  <2>1. op \in Removing BY <1>5, <1>0, Shapes DEF RemoveMove
  <2>2. op' \in Removing BY <1>5, <2>1 DEF RemoveMove, Removing
  <2> QED BY <2>2 DEF Ops
<1>6. CASE RemoveClear
  <2>1. op \in Removing BY <1>6, <1>0, Shapes DEF RemoveClear
  <2>2. op' \in Removing BY <1>6, <2>1 DEF RemoveClear, Removing
  <2> QED BY <2>2 DEF Ops
<1>7. CASE \E r \in SUBSET Slots, byLoop \in BOOLEAN : SeekCall(r, byLoop)
  <2>1. op' \in Seeking BY <1>7 DEF SeekCall, Seeking
  <2> QED BY <2>1 DEF Ops
<1>8. CASE RecreateDetach
  <2> DEFINE s == Min(op.todo)
  <2>1. s \in Open /\ op \in Seeking BY <1>8, <1>0, Shapes DEF RecreateDetach
  <2>2. Track(slots[s].id, nextGen, 0) \in Tracks BY <2>1, <1>0 DEF Track, Tracks
  <2>3. op' = [pc |-> "recreating", todo |-> op.todo \ {s}, applied |-> op.applied,
               byLoop |-> op.byLoop, slot |-> s, track |-> Track(slots[s].id, nextGen, 0)]
    BY <1>8 DEF RecreateDetach, ReplacementGeneration
  <2> HIDE DEF s
  <2>4. op' \in Recreating BY <2>1, <2>2, <2>3 DEF Recreating, Seeking
  <2> QED BY <2>4 DEF Ops
<1>9. CASE RecreateStart
  <2>1. op \in Recreating BY <1>9, <1>0, Shapes DEF RecreateStart
  <2> DEFINE new == [op.track EXCEPT !.pipe = pipes + 1]
  <2>2. new \in Tracks BY <2>1, <1>0 DEF Recreating, Tracks
  <2>3. op' = [op EXCEPT !.pc = "restarting", !.track = new]
    BY <1>9, <2>1 DEF RecreateStart, Recreating
  <2> HIDE DEF new
  <2>4. op' \in Recreating BY <2>1, <2>2, <2>3 DEF Recreating
  <2> QED BY <2>4 DEF Ops
<1>10. CASE RecreateFails \/ RecreateCommit
  <2>1. op \in Recreating BY <1>10, <1>0, Shapes DEF RecreateFails, RecreateCommit
  <2>2. PICK b \in BOOLEAN : SeekGoesOn(b) BY <1>10 DEF RecreateFails, RecreateCommit
  <2>3. op' = [pc |-> "seeking", todo |-> op.todo, applied |-> op.applied \/ b,
               byLoop |-> op.byLoop] BY <2>2 DEF SeekGoesOn
  <2>4. op.todo \in SUBSET Slots /\ op.applied \in BOOLEAN /\ op.byLoop \in BOOLEAN
    BY <2>1 DEF Recreating
  <2>5. op' \in Seeking BY <2>3, <2>4 DEF Seeking
  <2> QED BY <2>5 DEF Ops
<1>11. CASE Play \/ Pause \/ ApplyLayout BY <1>11, <1>0, QuietKeeps DEF Quiet
<1> QED BY <1>1, <1>2, <1>3, <1>4, <1>5, <1>6, <1>7, <1>8, <1>9, <1>10, <1>11 DEF ApiStep

LEMMA TypedStep ==
  ASSUME Typed, Places, ApiStep \/ Quiet
  PROVE  Typed' /\ nextGen <= nextGen'
<1>1. {slots, sink, history, decision} \subseteq [Slots -> Tracks \union {NoTrack}]
  BY DEF Typed, TrackMaps
<1>2. HasNew => op.track \in Tracks BY Spots
<1>3. {slots', sink', history', decision'} \subseteq TrackMaps
  <2>1. CASE {slots', sink', history', decision'} \subseteq [Slots -> Tracks \union {NoTrack}]
    BY <2>1 DEF TrackMaps
  <2>2. CASE /\ {slots', sink', history', decision'}
                  \subseteq [Slots -> Tracks \union {op.track, NoTrack}]
             /\ HasNew
    <3>1. Tracks \union {op.track, NoTrack} = Tracks \union {NoTrack} BY <2>2, <1>2
    <3> QED BY <2>2, <3>1 DEF TrackMaps
  <2> QED BY <1>1, <2>1, <2>2, StepFrames
<1>4. op' \in Ops
  <2>1. CASE Quiet BY <2>1, QuietKeeps DEF Typed
  <2> QED BY <2>1, OpTyped
<1>5. nextId' \in Nat /\ nextGen' \in Nat /\ pipes' \in Nat /\ nextGen <= nextGen'
  <2> USE DEF Typed, registry, history_
  <2>1. CASE Quiet BY <2>1, QuietKeeps
  <2>2. CASE \E id \in FileIds \cup {AutoId} : AddReserve(id)
    BY <2>2, TrackAssumption DEF AddReserve
  <2>3. CASE AddStart \/ RecreateStart BY <2>3 DEF AddStart, RecreateStart
  <2>4. CASE RecreateDetach BY <2>4 DEF RecreateDetach
  <2>5. CASE AddFails \/ AddCommit \/ AddDiscard \/ RemoveMove \/ RemoveClear \/ RemoveFinish
    BY <2>5 DEF AddFails, AddCommit, AddDiscard, RemoveMove, RemoveClear, RemoveFinish
  <2>6. CASE \E s \in Slots : RemoveDetach(s) BY <2>6 DEF RemoveDetach
  <2>7. CASE RecreateFails \/ RecreateCommit \/ SeekFinish
    <3>1. UNCHANGED <<nextId, nextGen, pipes>>
      BY <2>7 DEF RecreateFails, RecreateCommit, SeekFinish
    <3> QED BY <3>1
  <2>8. CASE \E r \in SUBSET Slots, byLoop \in BOOLEAN : SeekCall(r, byLoop)
    BY <2>8 DEF SeekCall
  <2> QED BY <2>1, <2>2, <2>3, <2>4, <2>5, <2>6, <2>7, <2>8 DEF ApiStep, Quiet
<1>6. playing' \in BOOLEAN /\ initialized' \in BOOLEAN
  <2>1. playing \in BOOLEAN /\ initialized \in BOOLEAN BY DEF Typed
  <2>2. CASE LoopStep
    BY <2>2, <2>1 DEF LoopStep, LoopTick, LoopFilter, LoopCarry, LoopPresent, LoopCommit,
       LoopSettle, LoopConsume, LoopPreview, LoopPreviewSet
  <2>3. CASE HostRedraw \/ Play \/ Pause \/ ApplyLayout \/ DeviceLost
    BY <2>3, <2>1 DEF HostRedraw, Play, Pause, ApplyLayout, DeviceLost
  <2>4. CASE \E id \in FileIds \cup {AutoId} : AddReserve(id)
    BY <2>4, <2>1 DEF AddReserve, PauseForMutation
  <2>5. CASE AddStart \/ AddFails \/ AddCommit \/ AddDiscard
    BY <2>5, <2>1 DEF AddStart, AddFails, AddCommit, AddDiscard, Resume
  <2>6. CASE \E s \in Slots : RemoveDetach(s)
    BY <2>6, <2>1 DEF RemoveDetach, PauseForMutation
  <2>7. CASE RemoveMove \/ RemoveClear \/ RemoveFinish
    BY <2>7, <2>1 DEF RemoveMove, RemoveClear, RemoveFinish
  <2>8. CASE RecreateDetach \/ RecreateStart \/ RecreateFails \/ RecreateCommit \/ SeekFinish
    BY <2>8, <2>1 DEF RecreateDetach, RecreateStart, RecreateFails, RecreateCommit, SeekFinish
  <2>9. CASE \E r \in SUBSET Slots, byLoop \in BOOLEAN : SeekCall(r, byLoop)
    BY <2>9, <2>1 DEF SeekCall
  <2> QED BY <2>2, <2>3, <2>4, <2>5, <2>6, <2>7, <2>8, <2>9 DEF ApiStep, Quiet
<1> QED BY <1>3, <1>4, <1>5, <1>6 DEF Typed

(* What the three ways to write a slot do to the open tracks. *)
LEMMA Fills ==
  ASSUME Typed, NEW s \in Slots \ Open, NEW t \in Tracks, slots' = [slots EXCEPT ![s] = t]
  PROVE  /\ Open' = Open \union {s}
         /\ slots'[s] = t /\ \A u \in Open : slots'[u] = slots[u]
         /\ OpenIds' = OpenIds \union {t.id}
<1>1. Open' = Open \union {s} BY Apart DEF Open, Typed, TrackMaps
<1>2. slots'[s] = t /\ \A u \in Open : slots'[u] = slots[u] BY DEF Open, Typed, TrackMaps
<1> QED BY <1>1, <1>2 DEF OpenIds

LEMMA Empties ==
  ASSUME Typed, OneId, NEW s \in Open, slots' = [slots EXCEPT ![s] = NoTrack]
  PROVE  /\ Open' = Open \ {s}
         /\ \A u \in Open' : slots'[u] = slots[u]
         /\ OpenIds' = OpenIds \ {slots[s].id}
<1>1. Open' = Open \ {s} BY DEF Open, Typed, TrackMaps
<1>2. \A u \in Open' : slots'[u] = slots[u] BY DEF Open, Typed, TrackMaps
<1> QED BY <1>1, <1>2 DEF OpenIds, OneId

LEMMA Moves ==
  ASSUME Typed, NEW s \in Slots \ Open, NEW t \in Open,
         slots' = [slots EXCEPT ![s] = slots[t], ![t] = NoTrack]
  PROVE  /\ Open' = (Open \union {s}) \ {t}
         /\ slots'[s] = slots[t] /\ \A u \in Open \ {t} : slots'[u] = slots[u]
         /\ OpenIds' = OpenIds
<1>1. Open' = (Open \union {s}) \ {t} BY DEF Open, Typed, TrackMaps
<1>2. slots'[s] = slots[t] /\ \A u \in Open \ {t} : slots'[u] = slots[u]
  BY DEF Open, Typed, TrackMaps
<1>3. \A u \in Open' : \E v \in Open : slots'[u] = slots[v] BY <1>1, <1>2
<1>4. \A v \in Open : \E u \in Open' : slots'[u] = slots[v] BY <1>1, <1>2
<1> HIDE DEF Open
<1>5. OpenIds' \subseteq OpenIds BY <1>3 DEF OpenIds
<1>6. OpenIds \subseteq OpenIds' BY <1>4 DEF OpenIds
<1> QED BY <1>1, <1>2, <1>5, <1>6

LEMMA Same ==
  ASSUME UNCHANGED slots
  PROVE  Open' = Open /\ OpenIds' = OpenIds
  BY DEF Open, OpenIds
-----------------------------------------------------------------------------
LEMMA RestQuiet ==
  ASSUME Typed, Rest, Quiet
  PROVE  Rest'
<1>1. /\ UNCHANGED <<slots, sink, audio, registry, op, pipes, lost>>
      /\ initialized' => initialized
  BY QuietKeeps
<1>2. UNCHANGED <<Hole, HasNew>> BY <1>1 DEF Hole, HasNew
<1>3. SinkFollows' BY <1>1 DEF Rest, SinkFollows
<1>4. Places' BY <1>1, <1>2, Same DEF Rest, Places
<1>5. Gapless' BY <1>1, <1>2, Same DEF Rest, Gapless
<1>6. OneId' BY <1>1, <1>2, Same DEF Rest, OneId, registry
<1>7. Audible' BY <1>1, <1>2, Same DEF Rest, Audible
<1> QED BY <1>3, <1>4, <1>5, <1>6, <1>7 DEF Rest

LEMMA RestAddReserve ==
  ASSUME Typed, Rest, NEW id \in FileIds \union {AutoId}, AddReserve(id)
  PROVE  Rest'
<1> DEFINE new == IF id = AutoId THEN nextId ELSE id
<1>1. /\ op = NoOp /\ op'.pc = "opening" /\ op'.slot = FirstEmpty /\ op'.track.id = new
      /\ nextId' = (IF new >= nextId THEN new + 1 ELSE nextId)
      /\ UNCHANGED <<slots, sink, audio, lost, initialized>>
  BY DEF AddReserve, Call, Track
<1>2. op.pc = "none" BY <1>1 DEF NoOp
<1>3. Hole = {} /\ Hole' = {} /\ HasNew' BY <1>1, <1>2 DEF Hole, HasNew
<1>4. FirstEmpty \in Slots \ Open /\ \A s \in Slots \ Open : FirstEmpty <= s
  BY EmptySlot DEF AddReserve
<1>5. new \in Nat /\ nextId \in Nat BY TrackAssumption DEF Typed
<1>6. \A s \in Open : slots[s].id \in Nat /\ slots[s].id < nextId
  BY OpenTracks DEF Rest, OneId, Tracks
<1>7. nextId \notin OpenIds BY <1>5, <1>6 DEF OpenIds
<1>8. new \notin OpenIds BY <1>7 DEF AddReserve
<1>9. nextId' >= nextId /\ new < nextId' BY <1>1, <1>5
<1>10. SinkFollows' BY <1>1, <1>2 DEF Rest, SinkFollows
<1>11. Places' BY <1>1, <1>3, <1>4, Same DEF Places
<1>12. Gapless'
  <2>1. SUFFICES ASSUME lost' = {}
                 PROVE \E n \in 0 .. MaxTracks : Open = 1 .. n /\ FirstEmpty = n + 1
    BY <1>1, <1>3, Same DEF Gapless
  <2>2. PICK n \in 0 .. MaxTracks : Open = 1 .. n
    BY <2>1, <1>1, <1>3 DEF Rest, Gapless
  <2>3. n # MaxTracks BY <2>2 DEF AddReserve, Slots
  <2>4. n + 1 \in Slots \ Open BY <2>2, <2>3, Apart DEF Slots
  <2>5. FirstEmpty <= n + 1 /\ FirstEmpty \notin 1 .. n /\ FirstEmpty \in Slots
    BY <2>2, <2>4, <1>4
  <2>6. FirstEmpty = n + 1 BY <2>5, Apart DEF Slots
  <2> QED BY <2>2, <2>6
<1>13. OneId'
  <2> HIDE DEF new
  <2>1. \A s, t \in Open : slots[s].id = slots[t].id => s = t BY DEF Rest, OneId
  <2>2. nextId' \in Nat BY <1>1, <1>5
  <2>3. \A s \in Open : slots[s].id < nextId' BY <1>5, <1>6, <1>9, <2>2
  <2> QED BY <2>1, <2>3, <1>1, <1>8, <1>9, Same DEF OneId
<1>14. Audible' BY <1>1, <1>2, Same DEF Rest, Audible
<1> QED BY <1>10, <1>11, <1>12, <1>13, <1>14 DEF Rest

LEMMA RestAddStart ==
  ASSUME Typed, Rest, AddStart
  PROVE  Rest'
<1>1. op \in Adding BY Shapes DEF Typed, AddStart
<1>2. /\ op.pc = "opening" /\ op'.pc = "starting" /\ op'.slot = op.slot
      /\ op'.track.id = op.track.id
      /\ UNCHANGED <<slots, sink, nextId, lost, initialized>>
      /\ audio' = audio \union {op.track.id}
  BY <1>1 DEF AddStart, Adding, Tracks, registry
<1>3. Hole = {} /\ Hole' = {} /\ HasNew /\ HasNew' BY <1>2 DEF Hole, HasNew
<1>4. SinkFollows' BY <1>2 DEF Rest, SinkFollows
<1>5. Places' BY <1>2, <1>3, Same DEF Rest, Places
<1>6. Gapless' BY <1>2, <1>3, Same DEF Rest, Gapless
<1>7. OneId' BY <1>2, <1>3, Same DEF Rest, OneId
<1>8. Audible' BY <1>2, Same DEF Rest, Audible
<1> QED BY <1>4, <1>5, <1>6, <1>7, <1>8 DEF Rest

(* The call ends, or begins to seek, with the slots as they are. *)
LEMMA RestSteady ==
  ASSUME Typed, Rest,
         \/ AddFails \/ AddDiscard \/ SeekFinish
         \/ \E r \in SUBSET Slots, byLoop \in BOOLEAN : SeekCall(r, byLoop)
  PROVE  Rest'
<1>1. /\ UNCHANGED <<slots, sink, audio, nextId, lost, initialized>>
      /\ op.pc \in {"none", "opening", "starting", "seeking"}
      /\ op.pc = "starting" => ~initialized \/ slots[op.slot] # NoTrack
      /\ \/ op'.pc = "none"
         \/ op'.pc = "seeking" /\ op'.todo \subseteq Open
  BY DEF AddFails, AddDiscard, SeekFinish, SeekCall, Call, NoOp, registry, history_
<1>2. op.pc = "starting" => ~initialized
  <2>1. op.pc = "starting" => slots[op.slot] = NoTrack BY Spots, OpenTracks DEF Rest, HasNew
  <2> QED BY <1>1, <2>1
<1>3. Hole = {} /\ Hole' = {} /\ ~HasNew' BY <1>1 DEF Hole, HasNew
<1>4. SinkFollows' BY <1>1 DEF Rest, SinkFollows
<1>5. Places' BY <1>1, <1>3, Same DEF Places, HasNew
<1>6. Gapless' BY <1>1, <1>3, Same DEF Rest, Gapless
<1>7. OneId' BY <1>1, <1>3, Same DEF Rest, OneId
<1>8. Audible' BY <1>1, <1>2, Same DEF Rest, Audible
<1> QED BY <1>4, <1>5, <1>6, <1>7, <1>8 DEF Rest

LEMMA RestAddCommit ==
  ASSUME Typed, Rest, AddCommit
  PROVE  Rest'
<1>1. /\ op.pc = "starting" /\ op' = NoOp
      /\ slots' = [slots EXCEPT ![op.slot] = op.track]
      /\ sink' = [sink EXCEPT ![op.slot] = op.track]
      /\ UNCHANGED <<audio, nextId, lost, initialized>>
  BY DEF AddCommit, registry
<1>2. op'.pc = "none" BY <1>1 DEF NoOp
<1>3. Hole = {} /\ Hole' = {} /\ HasNew /\ ~HasNew' BY <1>1, <1>2 DEF Hole, HasNew
<1>4. op.slot \in Slots \ Open /\ op.track \in Tracks BY <1>3, Spots DEF Rest
<1>5. /\ Open' = Open \union {op.slot}
      /\ slots'[op.slot] = op.track /\ \A u \in Open : slots'[u] = slots[u]
      /\ OpenIds' = OpenIds \union {op.track.id}
  BY <1>1, <1>4, Fills
<1>6. SinkFollows' BY <1>1, <1>2 DEF Rest, SinkFollows
<1>7. Places' BY <1>2, <1>3 DEF Places, HasNew
<1>8. Gapless'
  <2>1. SUFFICES ASSUME lost = {} PROVE \E n \in 0 .. MaxTracks : Open' = 1 .. n
    BY <1>1, <1>2, <1>3 DEF Gapless
  <2>2. PICK n \in 0 .. MaxTracks : Open = 1 .. n /\ op.slot = n + 1
    BY <2>1, <1>1, <1>3 DEF Rest, Gapless
  <2>3. Open' = 1 .. n + 1 BY <2>2, <1>5
  <2>4. n + 1 \in 0 .. MaxTracks BY <2>2, <1>4, Apart DEF Slots
  <2> QED BY <2>3, <2>4
<1>9. OneId'
  <2>1. \A s \in Open : slots[s].id \in OpenIds BY DEF OpenIds
  <2>2. \A s \in Open : slots[s].id # op.track.id BY <2>1, <1>3 DEF Rest, OneId
  <2>3. \A s, t \in Open' : slots'[s].id = slots'[t].id => s = t
    BY <2>2, <1>5 DEF Rest, OneId
  <2>4. \A s \in Open' : slots'[s].id < nextId' BY <1>1, <1>3, <1>5 DEF Rest, OneId
  <2> QED BY <2>3, <2>4, <1>3 DEF OneId
<1>10. Audible' BY <1>1, <1>2, <1>5 DEF Rest, Audible
<1> QED BY <1>6, <1>7, <1>8, <1>9, <1>10 DEF Rest

LEMMA RestRemoveDetach ==
  ASSUME Typed, Rest, NEW s \in Slots, RemoveDetach(s)
  PROVE  Rest'
<1>1. /\ op = NoOp /\ s \in Open /\ op'.pc = "moving" /\ op'.at = s
      /\ slots' = [slots EXCEPT ![s] = NoTrack]
      /\ sink' = [sink EXCEPT ![s] = NoTrack]
      /\ audio' = audio \ {slots[s].id}
      /\ UNCHANGED <<nextId, lost, initialized>>
  BY DEF RemoveDetach, Call, Unregister, registry
<1>2. op.pc = "none" BY <1>1 DEF NoOp
<1>3. Hole = {} /\ Hole' = {s} /\ ~HasNew' BY <1>1, <1>2 DEF Hole, HasNew
<1>4. /\ Open' = Open \ {s}
      /\ \A u \in Open' : slots'[u] = slots[u]
      /\ OpenIds' = OpenIds \ {slots[s].id}
  BY <1>1, Empties DEF Rest
<1>5. SinkFollows' BY <1>1, <1>2 DEF Rest, SinkFollows
<1>6. Places' BY <1>1, <1>3, <1>4 DEF Places, HasNew
<1>7. Gapless'
  <2>1. Open' \union {s} = Open BY <1>1, <1>4
  <2> QED BY <2>1, <1>1, <1>3 DEF Rest, Gapless
<1>8. OneId' BY <1>1, <1>3, <1>4 DEF Rest, OneId
<1>9. Audible' BY <1>1, <1>2, <1>4 DEF Rest, Audible
<1> QED BY <1>5, <1>6, <1>7, <1>8, <1>9 DEF Rest

LEMMA RestRemoveMove ==
  ASSUME Typed, Rest, RemoveMove
  PROVE  Rest'
<1> DEFINE at == op.at
<1>1. op \in Removing BY Shapes DEF Typed, RemoveMove
<1>2. /\ op.pc = "moving" /\ op'.pc = "clearing" /\ op'.at = at
      /\ slots' = [slots EXCEPT ![at] = slots[at + 1], ![at + 1] = NoTrack]
      /\ sink' = [sink EXCEPT ![at] = slots[at + 1]]
      /\ UNCHANGED <<audio, nextId, lost, initialized>>
  BY <1>1 DEF RemoveMove, Removing, registry, history_
<1>3. at \in Slots \ Open BY <1>2, Spots DEF Rest
<1>4. at + 1 \in Open BY <1>3, Apart DEF RemoveMove, MoreToMove, Open, Slots
<1>5. Hole = {at} /\ Hole' = {at + 1} /\ ~HasNew' BY <1>2 DEF Hole, HasNew
<1>6. /\ Open' = (Open \union {at}) \ {at + 1}
      /\ slots'[at] = slots[at + 1] /\ \A u \in Open \ {at + 1} : slots'[u] = slots[u]
      /\ OpenIds' = OpenIds
  BY <1>2, <1>3, <1>4, Moves
<1>7. SinkFollows'
  <2>1. sink = slots BY <1>2 DEF Rest, SinkFollows
  <2>2. slots' = [sink' EXCEPT ![at + 1] = NoTrack]
    BY <1>2, <2>1 DEF Typed, TrackMaps
  <2> QED BY <1>2, <2>2 DEF SinkFollows
<1>8. Places' BY <1>2, <1>4, <1>5, <1>6 DEF Places, HasNew, Open
<1>9. Gapless'
  <2>1. Open' \union {at + 1} = Open \union {at} BY <1>3, <1>4, <1>6
  <2> QED BY <2>1, <1>2, <1>5 DEF Rest, Gapless
<1>10. OneId'
  <2>1. \A u \in Open' : \E v \in Open :
          slots'[u] = slots[v] /\ v = IF u = at THEN at + 1 ELSE u
    BY <1>3, <1>4, <1>6
  <2>2. \A s, t \in Open' : slots'[s].id = slots'[t].id => s = t
    BY <2>1, <1>6 DEF Rest, OneId
  <2>3. \A s \in Open' : slots'[s].id < nextId' BY <2>1, <1>2 DEF Rest, OneId
  <2> QED BY <2>2, <2>3, <1>5 DEF OneId
<1>11. Audible' BY <1>2, <1>6 DEF Rest, Audible
<1> QED BY <1>7, <1>8, <1>9, <1>10, <1>11 DEF Rest

LEMMA RestRemoveClear ==
  ASSUME Typed, Rest, RemoveClear
  PROVE  Rest'
<1>1. op \in Removing BY Shapes DEF Typed, RemoveClear
<1>2. /\ op.pc = "clearing" /\ op'.pc = "moving" /\ op'.at = op.at + 1
      /\ sink' = [sink EXCEPT ![op.at + 1] = NoTrack]
      /\ UNCHANGED <<slots, audio, nextId, lost, initialized>>
  BY <1>1 DEF RemoveClear, Removing, registry, history_
<1>3. Hole' = Hole /\ ~HasNew' BY <1>2 DEF Hole, HasNew
<1>4. SinkFollows' BY <1>2 DEF Rest, SinkFollows
<1>5. Places' BY <1>2, <1>3, Same DEF Rest, Places
<1>6. Gapless' BY <1>2, <1>3, Same DEF Rest, Gapless
<1>7. OneId' BY <1>2, <1>3, Same DEF Rest, OneId
<1>8. Audible' BY <1>2, Same DEF Rest, Audible
<1> QED BY <1>4, <1>5, <1>6, <1>7, <1>8 DEF Rest

LEMMA RestRemoveFinish ==
  ASSUME Typed, Rest, RemoveFinish
  PROVE  Rest'
<1>1. /\ op.pc = "moving" /\ op' = NoOp
      /\ op.at < MaxTracks => slots[op.at + 1] = NoTrack
      /\ UNCHANGED <<slots, sink, audio, nextId, lost, initialized>>
  BY DEF RemoveFinish, MoreToMove, registry
<1>2. op'.pc = "none" BY <1>1 DEF NoOp
<1>3. op.at \in Slots \ Open BY <1>1, Spots DEF Rest
<1>4. Hole = {op.at} /\ Hole' = {} /\ ~HasNew' BY <1>1, <1>2 DEF Hole, HasNew
<1>5. SinkFollows' BY <1>1, <1>2 DEF Rest, SinkFollows
<1>6. Places' BY <1>2, <1>4 DEF Places, HasNew
<1>7. Gapless'
  <2>1. SUFFICES ASSUME lost = {} PROVE \E n \in 0 .. MaxTracks : Open = 1 .. n
    BY <1>1, <1>2, <1>4, Same DEF Gapless
  <2>2. PICK n \in 0 .. MaxTracks : Open \union {op.at} = 1 .. n
    BY <2>1, <1>4 DEF Rest, Gapless
  <2>3. op.at + 1 \notin Open BY <1>1, <1>3, Apart DEF Open, Slots
  <2>4. op.at = n BY <2>2, <2>3, <1>3, Apart DEF Slots
  <2>5. Open = 1 .. n - 1
    <3>1. n \in Nat /\ n \notin Open BY <2>4, <1>3, Apart
    <3>2. Open = (1 .. n) \ {n} BY <2>2, <2>4, <3>1
    <3>3. (1 .. n) \ {n} = 1 .. n - 1 BY <3>1
    <3> QED BY <3>2, <3>3
  <2>6. n - 1 \in 0 .. MaxTracks BY <2>2, <2>4, <1>3, Apart DEF Slots
  <2> QED BY <2>5, <2>6
<1>8. OneId' BY <1>1, <1>4, Same DEF Rest, OneId
<1>9. Audible' BY <1>1, <1>2, Same DEF Rest, Audible
<1> QED BY <1>5, <1>6, <1>7, <1>8, <1>9 DEF Rest

LEMMA RestRecreateDetach ==
  ASSUME Typed, Rest, RecreateDetach
  PROVE  Rest'
<1> DEFINE s == Min(op.todo)
<1>1. /\ op.pc = "seeking" /\ op'.pc = "recreating" /\ op'.slot = s
      /\ op'.todo = op.todo \ {s} /\ op'.track.id = slots[s].id
      /\ slots' = [slots EXCEPT ![s] = NoTrack]
      /\ sink' = [sink EXCEPT ![s] = NoTrack]
      /\ audio' = audio \ {slots[s].id}
      /\ UNCHANGED <<nextId, lost, initialized>>
  BY DEF RecreateDetach, Track
<1>2. s \in op.todo /\ op.todo \subseteq Open BY Spots DEF RecreateDetach, Rest
<1> HIDE DEF s
<1>3. Hole = {} /\ Hole' = {s} BY <1>1 DEF Hole
<1>4. /\ Open' = Open \ {s}
      /\ \A u \in Open' : slots'[u] = slots[u]
      /\ OpenIds' = OpenIds \ {slots[s].id}
  BY <1>1, <1>2, Empties DEF Rest
<1>5. SinkFollows' BY <1>1 DEF Rest, SinkFollows
<1>6. Places' BY <1>1, <1>2, <1>3, <1>4 DEF Places, Open
<1>7. Gapless'
  <2>1. Open' \union {s} = Open BY <1>2, <1>4
  <2> QED BY <2>1, <1>1, <1>3 DEF Rest, Gapless
<1>8. OneId' BY <1>1, <1>2, <1>4 DEF Rest, OneId
<1>9. Audible' BY <1>1, <1>4 DEF Rest, Audible
<1> QED BY <1>5, <1>6, <1>7, <1>8, <1>9 DEF Rest

LEMMA RestRecreateStart ==
  ASSUME Typed, Rest, RecreateStart
  PROVE  Rest'
<1>1. op \in Recreating BY Shapes DEF Typed, RecreateStart
<1>2. /\ op.pc = "recreating" /\ op'.pc = "restarting" /\ op'.slot = op.slot
      /\ op'.track.id = op.track.id /\ op'.todo = op.todo
      /\ UNCHANGED <<slots, sink, nextId, lost, initialized>>
      /\ audio' = audio \union {op.track.id}
  BY <1>1 DEF RecreateStart, Recreating, Tracks, registry
<1>3. Hole' = Hole /\ HasNew /\ HasNew' BY <1>2 DEF Hole, HasNew
<1>4. SinkFollows' BY <1>2 DEF Rest, SinkFollows
<1>5. Places' BY <1>2, <1>3, Same DEF Rest, Places
<1>6. Gapless' BY <1>2, <1>3, Same DEF Rest, Gapless
<1>7. OneId' BY <1>2, <1>3, Same DEF Rest, OneId
<1>8. Audible' BY <1>2, Same DEF Rest, Audible
<1> QED BY <1>4, <1>5, <1>6, <1>7, <1>8 DEF Rest

(* A replacement that is lost leaves a hole, and so the claim about holes. *)
LEMMA RestLost ==
  ASSUME Typed, Rest,
         \/ RecreateFails
         \/ RecreateCommit /\ ~ (initialized /\ slots[op.slot] = NoTrack)
  PROVE  Rest'
<1>1. /\ op.pc \in {"recreating", "restarting"}
      /\ op.pc = "restarting" => ~ (initialized /\ slots[op.slot] = NoTrack)
      /\ op'.pc = "seeking" /\ op'.todo = op.todo
      /\ UNCHANGED <<slots, sink, audio, nextId, initialized>>
      /\ lost' # {}
  BY DEF RecreateFails, RecreateCommit, SeekGoesOn, registry
<1>2. HasNew /\ ~HasNew' /\ Hole' = {} BY <1>1 DEF HasNew, Hole
<1>3. op.pc = "restarting" => ~initialized BY <1>1, <1>2, Spots, OpenTracks DEF Rest
<1>4. SinkFollows' BY <1>1 DEF Rest, SinkFollows
<1>5. Places' BY <1>1, <1>2, Same DEF Rest, Places
<1>6. Gapless' BY <1>1 DEF Gapless
<1>7. OneId' BY <1>1, <1>2, Same DEF Rest, OneId
<1>8. Audible' BY <1>1, <1>3, Same DEF Rest, Audible
<1> QED BY <1>4, <1>5, <1>6, <1>7, <1>8 DEF Rest

LEMMA RestRecreateCommit ==
  ASSUME Typed, Rest, RecreateCommit, initialized, slots[op.slot] = NoTrack
  PROVE  Rest'
<1>1. /\ op.pc = "restarting" /\ op'.pc = "seeking" /\ op'.todo = op.todo
      /\ slots' = [slots EXCEPT ![op.slot] = op.track]
      /\ sink' = [sink EXCEPT ![op.slot] = op.track]
      /\ UNCHANGED <<audio, nextId, lost, initialized>>
  BY DEF RecreateCommit, SeekGoesOn, registry
<1>2. Hole = {op.slot} /\ Hole' = {} /\ HasNew /\ ~HasNew' BY <1>1 DEF Hole, HasNew
<1>3. op.slot \in Slots \ Open /\ op.track \in Tracks BY <1>2, Spots DEF Rest
<1>4. /\ Open' = Open \union {op.slot}
      /\ slots'[op.slot] = op.track /\ \A u \in Open : slots'[u] = slots[u]
      /\ OpenIds' = OpenIds \union {op.track.id}
  BY <1>1, <1>3, Fills
<1>5. SinkFollows' BY <1>1 DEF Rest, SinkFollows
<1>6. Places' BY <1>1, <1>2, <1>4 DEF Rest, Places
<1>7. Gapless' BY <1>1, <1>2, <1>4 DEF Rest, Gapless
<1>8. OneId'
  <2>1. \A s \in Open : slots[s].id \in OpenIds BY DEF OpenIds
  <2>2. \A s \in Open : slots[s].id # op.track.id BY <2>1, <1>2 DEF Rest, OneId
  <2>3. \A s, t \in Open' : slots'[s].id = slots'[t].id => s = t
    BY <2>2, <1>4 DEF Rest, OneId
  <2>4. \A s \in Open' : slots'[s].id < nextId' BY <1>1, <1>2, <1>4 DEF Rest, OneId
  <2> QED BY <2>3, <2>4, <1>2 DEF OneId
<1>9. Audible' BY <1>1, <1>4 DEF Rest, Audible
<1> QED BY <1>5, <1>6, <1>7, <1>8, <1>9 DEF Rest

LEMMA RestStep ==
  ASSUME Typed, Rest, ApiStep \/ Quiet
  PROVE  Rest'
<1>1. CASE Quiet BY <1>1, RestQuiet
<1>2. CASE \E id \in FileIds \cup {AutoId} : AddReserve(id) BY <1>2, RestAddReserve
<1>3. CASE AddStart BY <1>3, RestAddStart
<1>4. CASE AddCommit BY <1>4, RestAddCommit
<1>5. CASE \/ AddFails \/ AddDiscard \/ SeekFinish
           \/ \E r \in SUBSET Slots, byLoop \in BOOLEAN : SeekCall(r, byLoop)
  BY <1>5, RestSteady
<1>6. CASE \E s \in Slots : RemoveDetach(s) BY <1>6, RestRemoveDetach
<1>7. CASE RemoveMove BY <1>7, RestRemoveMove
<1>8. CASE RemoveClear BY <1>8, RestRemoveClear
<1>9. CASE RemoveFinish BY <1>9, RestRemoveFinish
<1>10. CASE RecreateDetach BY <1>10, RestRecreateDetach
<1>11. CASE RecreateStart BY <1>11, RestRecreateStart
<1>12. CASE RecreateFails BY <1>12, RestLost
<1>13. CASE RecreateCommit BY <1>13, RestLost, RestRecreateCommit
<1> QED BY <1>1, <1>2, <1>3, <1>4, <1>5, <1>6, <1>7, <1>8, <1>9, <1>10, <1>11, <1>12, <1>13
     DEF ApiStep, Quiet

(* The generations. *)
LEMMA InMaps ==
  /\ Typed => {slots, sink, history, decision} \subseteq [Slots -> Known \union {NoTrack}]
  /\ \A K : {slots, sink, history, decision} \subseteq [Slots -> K \union {NoTrack}]
            => Known \subseteq K
  /\ Typed => Known \subseteq Tracks
  BY DEF Typed, TrackMaps, Known, FramesOf

LEMMA NewTrack ==
  ASSUME Typed, Rest, OneGeneration, ApiStep \/ Quiet, HasNew'
  PROVE  /\ op'.track.gen < nextGen'
         /\ \A f \in Known : f.gen # op'.track.gen
<1>1. nextGen \in Nat /\ op \in Ops BY DEF Typed
<1>2. \A f \in Known : f.gen \in Nat /\ f.gen < nextGen
  BY InMaps DEF OneGeneration, Tracks
<1>3. HasNew => op.track \in Tracks BY Spots DEF Rest
<1>4. HasNew => op.track.gen \in Nat BY <1>3 DEF Tracks
<1>5. \/ HasNew /\ op'.track.gen = op.track.gen /\ nextGen' = nextGen
      \/ op'.track.gen = nextGen /\ nextGen' = nextGen + 1
  <2>1. CASE Quiet BY <2>1, QuietKeeps DEF HasNew, registry
  <2>2. CASE \E id \in FileIds \cup {AutoId} : AddReserve(id)
    BY <2>2 DEF AddReserve, Track
  <2>3. CASE AddStart
    <3>1. op \in Adding BY <2>3, <1>1, Shapes DEF AddStart
    <3> QED BY <2>3, <3>1 DEF AddStart, Adding, Tracks, HasNew, registry
  <2>4. CASE RecreateStart
    <3>1. op \in Recreating BY <2>4, <1>1, Shapes DEF RecreateStart
    <3> QED BY <2>4, <3>1 DEF RecreateStart, Recreating, Tracks, HasNew, registry
  <2>5. CASE RecreateDetach BY <2>5 DEF RecreateDetach, ReplacementGeneration, Track
  <2>6. CASE AddFails \/ AddCommit \/ AddDiscard \/ RemoveFinish \/ SeekFinish
    BY <2>6 DEF AddFails, AddCommit, AddDiscard, RemoveFinish, SeekFinish, NoOp, HasNew
  <2>7. CASE RemoveMove \/ RemoveClear
    <3>1. op \in Removing BY <2>7, <1>1, Shapes DEF RemoveMove, RemoveClear
    <3>2. op'.pc \in {"moving", "clearing"}
      BY <2>7, <3>1 DEF RemoveMove, RemoveClear, Removing
    <3> QED BY <3>2 DEF HasNew
  <2>8. CASE \E s \in Slots : RemoveDetach(s) BY <2>8 DEF RemoveDetach, HasNew
  <2>9. CASE RecreateFails \/ RecreateCommit
    BY <2>9 DEF RecreateFails, RecreateCommit, SeekGoesOn, HasNew
  <2>10. CASE \E r \in SUBSET Slots, byLoop \in BOOLEAN : SeekCall(r, byLoop)
    BY <2>10 DEF SeekCall, HasNew
  <2> QED BY <2>1, <2>2, <2>3, <2>4, <2>5, <2>6, <2>7, <2>8, <2>9, <2>10 DEF ApiStep, Quiet
<1>6. CASE HasNew /\ op'.track.gen = op.track.gen /\ nextGen' = nextGen
  BY <1>1, <1>4, <1>6 DEF OneGeneration
<1>7. CASE op'.track.gen = nextGen /\ nextGen' = nextGen + 1
  BY <1>1, <1>2, <1>7
<1> QED BY <1>5, <1>6, <1>7

LEMMA GenerationStep ==
  ASSUME Typed, Rest, OneGeneration, ApiStep \/ Quiet
  PROVE  OneGeneration'
<1>1. Typed' /\ nextGen \in Nat /\ nextGen' \in Nat /\ nextGen <= nextGen'
  BY TypedStep DEF Rest, Typed
<1>2. \A f \in Known : f.gen \in Nat /\ f.gen < nextGen
  BY InMaps DEF OneGeneration, Tracks
<1>3. \A f \in Known : f.gen < nextGen' BY <1>1, <1>2
<1>4. \A f, g \in Known : f.gen = g.gen => f = g BY DEF OneGeneration
<1>5. HasNew' => op'.track.gen < nextGen' /\ \A f \in Known : f.gen # op'.track.gen
  BY NewTrack
<1>6. CASE {slots', sink', history', decision'} \subseteq [Slots -> Known \union {NoTrack}]
  <2>1. Known' \subseteq Known BY <1>6 DEF Known, FramesOf
  <2> QED BY <2>1, <1>3, <1>4, <1>5 DEF OneGeneration
<1>7. CASE /\ {slots', sink', history', decision'}
                \subseteq [Slots -> Known \union {op.track, NoTrack}]
           /\ HasNew /\ op'.pc \in {"none", "seeking"} /\ UNCHANGED nextGen
  <2>1. Known' \subseteq Known \union {op.track} BY <1>7 DEF Known, FramesOf
  <2>2. op.track.gen < nextGen' /\ \A f \in Known : f.gen # op.track.gen
    BY <1>7 DEF OneGeneration
  <2>3. ~HasNew' BY <1>7 DEF HasNew
  <2>4. \A f \in Known' : f.gen < nextGen' BY <2>1, <2>2, <1>3
  <2>5. \A f, g \in Known' : f.gen = g.gen => f = g BY <2>1, <2>2, <1>4
  <2> QED BY <2>3, <2>4, <2>5 DEF OneGeneration
<1> QED BY <1>6, <1>7, InMaps, StepFrames DEF Rest

LEMMA Begin == Init => Typed /\ Rest /\ OneGeneration
<1> SUFFICES ASSUME Init PROVE Typed /\ Rest /\ OneGeneration OBVIOUS
<1> USE Apart, TrackAssumption
<1>0. InitialTracks \in Nat /\ InitialTracks <= MaxTracks BY DEF Slots
<1>1. \A s \in Slots : s <= InitialTracks =>
        Track(s, s, s) \in Tracks /\ Track(s, s, s).id = s /\ Track(s, s, s).gen = s
  BY DEF Track, Tracks
<1>2. \A s \in Slots : slots[s] = IF s <= InitialTracks THEN Track(s, s, s) ELSE NoTrack
  BY DEF Init
<1>3. slots \in TrackMaps BY <1>1 DEF Init, TrackMaps
<1>4. sink = slots /\ op.pc = "none" BY DEF Init, NoOp
<1>5. Typed
  <2>1. history \in TrackMaps /\ decision \in TrackMaps BY DEF Init, Nothing, TrackMaps
  <2>2. op \in Ops /\ playing \in BOOLEAN /\ initialized \in BOOLEAN BY DEF Init, Ops
  <2>3. nextId \in Nat /\ nextGen \in Nat /\ pipes \in Nat BY <1>0 DEF Init
  <2> QED BY <1>3, <1>4, <2>1, <2>2, <2>3 DEF Typed
<1>6. \A s \in Slots : s \in Open <=> s <= InitialTracks BY <1>1, <1>2 DEF Open
<1>7. Open = 1 .. InitialTracks BY <1>0, <1>6 DEF Slots, Open
<1>8. \A s \in Open : slots[s].id = s BY <1>1, <1>2, <1>6 DEF Open
<1>9. OpenIds = 1 .. InitialTracks
  <2> HIDE DEF Open
  <2> QED BY <1>7, <1>8 DEF OpenIds
<1>10. Hole = {} /\ ~HasNew BY <1>4 DEF Hole, HasNew
<1>11. SinkFollows BY <1>4 DEF SinkFollows
<1>12. Places BY <1>4, <1>10 DEF Places
<1>13. Gapless BY <1>0, <1>4, <1>7, <1>10 DEF Gapless
<1>14. OneId
  <2>1. nextId = InitialTracks + 1 BY DEF Init
  <2> HIDE DEF Open
  <2> QED BY <2>1, <1>0, <1>7, <1>8, <1>10 DEF OneId
<1>15. Audible BY <1>4, <1>9 DEF Audible, Init
<1>16. OneGeneration
  <2>1. \A f \in Known : \E s \in Slots : f = Track(s, s, s) /\ s <= InitialTracks
    BY <1>2, <1>4 DEF Known, FramesOf, Init, Nothing
  <2>2. nextGen = InitialTracks + 1 BY DEF Init
  <2>3. \A f \in Known : f = Track(f.gen, f.gen, f.gen) /\ f.gen \in Nat
                         /\ f.gen <= InitialTracks
    BY <2>1, <1>1
  <2> QED BY <2>2, <2>3, <1>0, <1>10 DEF OneGeneration
<1> QED BY <1>5, <1>11, <1>12, <1>13, <1>14, <1>15, <1>16 DEF Rest
-----------------------------------------------------------------------------
(* The invariant is inductive. *)
THEOREM Inductive == Spec => []IInv
<1>1. Init => IInv BY Begin DEF IInv
<1>2. IInv /\ [Next]_vars => IInv'
  <2> SUFFICES ASSUME Typed, Rest, OneGeneration, [Next]_vars
               PROVE  (Typed /\ Rest /\ OneGeneration)'
    BY DEF IInv
  <2>1. CASE Next
    <3>1. ApiStep \/ Quiet BY <2>1 DEF Next, Quiet
    <3> QED BY <3>1, TypedStep, RestStep, GenerationStep DEF Rest
  <2>2. CASE UNCHANGED vars
    <3>1. UNCHANGED <<slots, sink, history, decision, audio, nextId, nextGen, playing,
                      initialized, op, pipes, lost>>
      BY <2>2 DEF vars, registry, loop, history_
    <3>2. Typed' BY <3>1 DEF Typed
    <3>3. UNCHANGED <<Open, OpenIds, Hole, HasNew, Known>>
      BY <3>1 DEF Open, OpenIds, Hole, HasNew, Known, FramesOf
    <3>4. Rest'
      BY <3>1, <3>3 DEF Rest, SinkFollows, Places, Gapless, OneId, Audible
    <3>5. OneGeneration' BY <3>1, <3>3 DEF OneGeneration
    <3> QED BY <3>2, <3>4, <3>5
  <2> QED BY <2>1, <2>2
<1> QED BY <1>1, <1>2, PTL DEF Spec

(* However long a decision is kept beside changes of the tracks, and       *)
(* whichever ids are used again, a frame that passes                       *)
(* filter_present_decision_against_tracks was decoded by the pipeline that *)
(* is in its slot.                                                         *)
THEOREM PipelineCorrect == Spec => []RightPipeline
<1>1. ASSUME Typed, OneGeneration PROVE RightPipeline
  <2> SUFFICES ASSUME NEW s \in Slots, NEW frame \in {history[s], decision[s]},
                      Matches(frame, slots[s])
               PROVE  frame.pipe = slots[s].pipe
    BY DEF RightPipeline
  <2>1. frame \in Known /\ slots[s] \in Known BY DEF Matches, Known, FramesOf
  <2>2. frame = slots[s] BY <1>1, <2>1 DEF Matches, OneGeneration
  <2> QED BY <2>2
<1>2. IInv => Typed /\ Rest /\ OneGeneration BY DEF IInv
<1> QED BY <1>1, <1>2, Inductive, PTL

(* The sink has the registry's tracks whenever state_mutex_ is free, slots *)
(* are used from the first on, and between calls exactly the open tracks   *)
(* have an audio decoder, for any number of slots and any order of calls.  *)
THEOREM SinkAndAudioCorrect == Spec => []SinkAndAudioInSync
<1>1. ASSUME Typed, Rest PROVE SinkAndAudioInSync
  <2>1. ASSUME StateFree PROVE sink = slots BY <1>1, <2>1 DEF StateFree, Rest, SinkFollows
  <2>2. ASSUME lost = {}, op.pc \in {"none", "opening", "starting"}
        PROVE  Open = 1 .. Cardinality(Open)
    <3>1. Hole = {} BY <2>2 DEF Hole
    <3>2. PICK n \in 0 .. MaxTracks : Open = 1 .. n BY <1>1, <2>2, <3>1 DEF Rest, Gapless
    <3> HIDE DEF Open
    <3>3. n \in Nat BY Apart
    <3>4. Cardinality(1 .. n) = n BY <3>3, FS_Interval
    <3> QED BY <3>2, <3>4
  <2>3. ASSUME op = NoOp, initialized PROVE audio = OpenIds
    <3>1. op.pc = "none" BY <2>3 DEF NoOp
    <3> QED BY <1>1, <2>3, <3>1 DEF Rest, Audible
  <2> QED BY <2>1, <2>2, <2>3 DEF SinkAndAudioInSync
<1>2. IInv => Typed /\ Rest /\ OneGeneration BY DEF IInv
<1> QED BY <1>1, <1>2, Inductive, PTL
-----------------------------------------------------------------------------
(* The frames that are carried. *)

LEMMA SameGen ==
  ASSUME Typed, OneGeneration, NEW s \in Open,
         NEW map \in {history, decision}, Matches(map[s], slots[s])
  PROVE  map[s] = slots[s]
<1>1. s \in Slots BY DEF Open
<1>2. map[s] \in Known /\ slots[s] \in Known BY <1>1 DEF Matches, Known, FramesOf
<1> QED BY <1>2 DEF Matches, OneGeneration

(* Between the moves of the slots nothing touches the history. *)
LEMMA HistoryWaits ==
  ASSUME Quiet, Compacting
  PROVE  UNCHANGED history
<1>1. ~StateFree /\ op # NoOp BY DEF Compacting, StateFree, NoOp
<1> QED BY <1>1 DEF Quiet, LoopStep, LoopTick, LoopFilter, LoopCarry, LoopPresent, LoopCommit,
     LoopSettle, LoopConsume, LoopPreview, LoopPreviewSet, HostRedraw, Play, Pause, ApplyLayout,
     Call, DeviceLost

LEMMA ShiftedStep ==
  ASSUME Typed, Rest, Shifted, ApiStep \/ Quiet
  PROVE  Shifted'
<1>1. CASE Quiet /\ Compacting
  <2>1. UNCHANGED <<slots, op, history>> BY <1>1, QuietKeeps, HistoryWaits
  <2>2. UNCHANGED <<Compacting, Open, Emptied>> BY <2>1 DEF Compacting, Open, Emptied
  <2> QED BY <2>1, <2>2, <1>1 DEF Shifted, FrameOf
<1>2. CASE Quiet /\ ~Compacting BY <1>2, QuietKeeps DEF Shifted, Compacting
<1>3. CASE \E s \in Slots : RemoveDetach(s)
  <2>1. PICK s \in Slots : RemoveDetach(s) BY <1>3
  <2>2. /\ s \in Open /\ op'.pc = "moving" /\ op'.slot = s /\ op'.at = s
        /\ op'.anchored = Anchors \ {slots[s]}
        /\ slots' = [slots EXCEPT ![s] = NoTrack] /\ UNCHANGED history
    BY <2>1 DEF RemoveDetach
  <2>3. Open' = Open \ {s} /\ \A u \in Open' : slots'[u] = slots[u]
    BY <2>2, Empties DEF Rest
  <2>4. ASSUME NEW t \in op'.anchored PROVE \E k \in Open' : slots'[k] = t /\ history'[k] = t
    <3>1. PICK k \in Open : slots[k] = t /\ history[k] = t BY <2>2 DEF Anchors
    <3> QED BY <3>1, <2>2, <2>3
  <2>5. Emptied' = s /\ \A k \in Nat : FrameOf(k)' = history'[k]
    BY <2>2, Apart DEF Emptied, FrameOf
  <2>6. Open' \subseteq Nat /\ s \in Nat BY <2>2, <2>3, Apart DEF Open
  <2> QED BY <2>2, <2>4, <2>5, <2>6 DEF Shifted
<1>4. CASE RemoveMove
  <2> DEFINE at == op.at
  <2>1. op \in Removing BY <1>4, Shapes DEF Typed, RemoveMove
  <2>2. /\ op.pc = "moving" /\ op'.pc = "clearing" /\ op'.at = at
        /\ op'.slot = op.slot /\ op'.anchored = op.anchored
        /\ slots' = [slots EXCEPT ![at] = slots[at + 1], ![at + 1] = NoTrack]
        /\ UNCHANGED history
    BY <1>4, <2>1 DEF RemoveMove, Removing
  <2>3. at \in Slots \ Open BY <2>2, Spots DEF Rest
  <2>4. at + 1 \in Open BY <1>4, <2>3, Apart DEF RemoveMove, MoreToMove, Open, Slots
  <2>5. /\ Open' = (Open \union {at}) \ {at + 1}
        /\ slots'[at] = slots[at + 1] /\ \A u \in Open \ {at + 1} : slots'[u] = slots[u]
    BY <2>2, <2>3, <2>4, Moves
  <2>6. Emptied = at /\ Emptied' = at + 1 BY <2>2 DEF Emptied
  <2>7. op.slot \in Nat /\ at \in Nat /\ op.slot <= at /\ Open \subseteq Nat
    BY <1>4, <2>1, <2>2, <2>3, <2>6, Apart DEF Shifted, Compacting, Removing, Open
  <2>8. \A k \in Nat : FrameOf(k)' = IF op.slot <= k /\ k < at + 1 THEN history[k + 1] ELSE history[k]
    BY <2>2, <2>6 DEF FrameOf
  <2>9. \A k \in Nat : FrameOf(k) = IF op.slot <= k /\ k < at THEN history[k + 1] ELSE history[k]
    BY <2>6 DEF FrameOf
  <2>10. ASSUME NEW t \in op.anchored PROVE \E k \in Open' : slots'[k] = t /\ FrameOf(k)' = t
    <3>1. PICK k \in Open : slots[k] = t /\ FrameOf(k) = t
      BY <2>2 DEF Shifted, Compacting
    <3>2. CASE k = at + 1
      <4>1. history[at + 1] = t BY <3>1, <3>2, <2>7, <2>9
      <4>2. \A a \in Nat : a = at => FrameOf(a)' = t BY <4>1, <2>7, <2>8
      <4>3. at \in Open' BY <2>5, <2>7
      <4>4. slots'[at] = t BY <3>1, <3>2, <2>5
      <4> HIDE DEF at
      <4> QED BY <4>2, <4>3, <4>4, <2>7
    <3>3. CASE k # at + 1
      <4>1. k < at <=> k < at + 1 BY <2>3, <2>7, <3>1
      <4>2. FrameOf(k)' = t BY <4>1, <3>1, <2>7, <2>8, <2>9
      <4> QED BY <3>1, <3>3, <4>2, <2>5
    <3> QED BY <3>2, <3>3
  <2>11. op'.slot <= Emptied' BY <2>2, <2>6, <2>7
  <2> QED BY <2>2, <2>10, <2>11 DEF Shifted
<1>5. CASE RemoveClear
  <2>1. op \in Removing BY <1>5, Shapes DEF Typed, RemoveClear
  <2>2. /\ op.pc = "clearing" /\ op'.pc = "moving" /\ op'.at = op.at + 1
        /\ op'.slot = op.slot /\ op'.anchored = op.anchored
        /\ UNCHANGED <<slots, history>>
    BY <1>5, <2>1 DEF RemoveClear, Removing
  <2>3. UNCHANGED <<Emptied, Open>> BY <2>2 DEF Emptied, Open
  <2> QED BY <2>2, <2>3 DEF Shifted, FrameOf, Compacting
<1>6. CASE \/ \E id \in FileIds \cup {AutoId} : AddReserve(id)
           \/ AddStart \/ AddFails \/ AddCommit \/ AddDiscard \/ RemoveFinish
           \/ \E r \in SUBSET Slots, byLoop \in BOOLEAN : SeekCall(r, byLoop)
           \/ RecreateDetach \/ RecreateFails \/ RecreateStart \/ RecreateCommit \/ SeekFinish
  <2>1. op'.pc \notin {"moving", "clearing"}
    <3>1. CASE AddStart \/ RecreateStart
      <4>1. op \in Adding \union Recreating
        BY <3>1, Shapes DEF Typed, AddStart, RecreateStart
      <4> QED BY <3>1, <4>1 DEF AddStart, RecreateStart, Adding, Recreating
    <3> QED BY <1>6, <3>1 DEF AddReserve, AddFails, AddCommit, AddDiscard, RemoveFinish,
         SeekCall, RecreateDetach, RecreateFails, RecreateCommit, SeekGoesOn, SeekFinish, NoOp
  <2> QED BY <2>1 DEF Shifted, Compacting
<1>7. CASE Play \/ Pause \/ ApplyLayout BY <1>7, <1>1, <1>2 DEF Quiet
<1> QED BY <1>1, <1>2, <1>3, <1>4, <1>5, <1>6, <1>7 DEF ApiStep

(* A layout that is taken removes nothing that makes a decision late. *)
LEMMA StaysLate ==
  ASSUME NEW extra, Consume(extra)
  PROVE  /\ extra \subseteq late'
         /\ late \cap {"removal", "redraw"} \subseteq late'
  BY DEF Consume

(* The steps that leave tracks, frames and the loop alone. *)
LEMMA CarriedStands ==
  ASSUME Carried, UNCHANGED <<slots, history, decision>>,
         lpc' \in {lpc, "idle", "ticked", "paused", "seeking"},
         lost = lost', late \cap {"removal", "redraw"} \subseteq late',
         Compacting => Compacting'
  PROVE  Carried'
<1>1. UNCHANGED Open BY DEF Open
<1>2. Timely' => Timely BY DEF Timely
<1>3. lpc' = lpc \/ lpc' \notin {"filtered", "presenting", "accepted", "previewing"} OBVIOUS
<1> HIDE DEF Timely, Compacting
<1> QED BY <1>1, <1>2, <1>3 DEF Carried

(* It only matters in the second half of a pass of the loop.               *)
LEMMA CarriedElsewhere ==
  ASSUME \/ lpc' \notin {"filtered", "presenting", "accepted", "previewing"}
         \/ ~Timely' \/ Compacting'
  PROVE  Carried'
  BY DEF Carried

LEMMA CarriedLoop ==
  ASSUME Typed, OneGeneration, Carried, LoopStep
  PROVE  Carried'
<1> USE DEF loop, history_, layout, registry
<1>1. CASE LoopTick \/ LoopCommit \/ LoopSettle \/ LoopConsume \/ LoopPreviewSet
  <2>1. lpc' \in {"ticked", "idle", "paused"}
    BY <1>1 DEF LoopTick, LoopCommit, LoopSettle, LoopConsume, LoopPreviewSet, LoopEnds
  <2> QED BY <2>1, CarriedElsewhere
<1>2. CASE LoopFilter
  <2>1. /\ UNCHANGED <<slots, history>> /\ lpc' \in {"filtered", "idle"}
        /\ decision' = Filter(decision)
    BY <1>2 DEF LoopFilter
  <2>2. \A s \in Open : decision'[s] \in {NoTrack, slots[s]}
    <3>1. \A s \in Open : s \in Slots BY DEF Open
    <3> QED BY <3>1, <2>1, SameGen DEF Filter
  <2>3. UNCHANGED Open BY <2>1 DEF Open
  <2> QED BY <2>1, <2>2, <2>3 DEF Carried
<1>3. CASE LoopCarry
  <2>1. /\ UNCHANGED <<slots, history, lost, late, op>>
        /\ lpc = "filtered" /\ lpc' = "presenting"
        /\ decision' = CarryForward(decision)
    BY <1>3 DEF LoopCarry
  <2>2. UNCHANGED <<Open, Timely, Compacting>> BY <2>1 DEF Open, Timely, Compacting
  <2>3. ASSUME NEW s \in Open, history[s] = slots[s], decision[s] \in {NoTrack, slots[s]}
        PROVE  decision'[s] = slots[s]
    <3>1. s \in Slots /\ slots[s] # NoTrack BY DEF Open
    <3>2. Filter(history)[s] = slots[s] BY <2>3, <3>1 DEF Filter, Matches
    <3> QED BY <2>1, <2>3, <3>1, <3>2 DEF CarryForward, Fill
  <2> QED BY <2>1, <2>2, <2>3 DEF Carried
<1>4. CASE LoopPresent
  <2>1. UNCHANGED <<slots, history, lost, op>> /\ lpc = "presenting" BY <1>4 DEF LoopPresent
  <2>2. CASE lpc' = "accepted" /\ UNCHANGED decision
    <3>1. late \cap {"removal", "redraw"} \subseteq late'
      BY <1>4, StaysLate DEF LoopPresent, ConsumePending
    <3>2. UNCHANGED <<Open, Compacting>> BY <2>1 DEF Open, Compacting
    <3>3. Timely' => Timely BY <2>1, <3>1 DEF Timely
    <3> QED BY <2>1, <2>2, <3>2, <3>3 DEF Carried
  <2>3. CASE LoopEnds BY <2>3, CarriedElsewhere DEF LoopEnds
  <2> QED BY <1>4, <2>2, <2>3 DEF LoopPresent
<1>5. CASE LoopPreview
  <2>1. UNCHANGED <<slots, history>> BY <1>5 DEF LoopPreview
  <2>2. UNCHANGED Open BY <2>1 DEF Open
  <2>3. ASSUME NEW ready \in SUBSET Open, NEW s \in Open, history[s] = slots[s]
        PROVE  Cached(ready)[s] = slots[s]
    <3>1. s \in Slots /\ slots[s] # NoTrack BY DEF Open
    <3>2. Filter(history)[s] = slots[s] BY <2>3, <3>1 DEF Filter, Matches
    <3> QED BY <3>1, <3>2 DEF Cached, Fill
  <2>4. \/ lpc' = "idle"
        \/ lpc' = "previewing" /\ \A s \in Open : history[s] = slots[s] => decision'[s] = slots[s]
    BY <1>5, <2>3 DEF LoopPreview
  <2> QED BY <2>1, <2>2, <2>4 DEF Carried
<1> QED BY <1>1, <1>2, <1>3, <1>4, <1>5 DEF LoopStep

LEMMA CarriedStep ==
  ASSUME Typed, Rest, OneGeneration, Carried, ApiStep \/ Quiet
  PROVE  Carried'
<1> USE DEF loop, history_, layout, registry
<1>1. CASE LoopStep BY <1>1, CarriedLoop
<1>2. CASE HostRedraw
  <2>1. UNCHANGED lpc /\ Consume(LateDecision("redraw")) BY <1>2 DEF HostRedraw
  <2>2. lpc = "idle" \/ "redraw" \in late' BY <2>1, StaysLate DEF LateDecision
  <2> QED BY <2>1, <2>2, CarriedElsewhere DEF Timely
<1>3. CASE Play \/ Pause \/ DeviceLost \/ ApplyLayout
  <2>1. UNCHANGED <<slots, history, decision, lpc, lost, op>>
    BY <1>3 DEF Play, Pause, DeviceLost, ApplyLayout
  <2>2. late \cap {"removal", "redraw"} \subseteq late'
    BY <1>3 DEF Play, Pause, DeviceLost, ApplyLayout
  <2>3. UNCHANGED Compacting BY <2>1 DEF Compacting
  <2> QED BY <2>1, <2>2, <2>3, CarriedStands
<1>4. CASE \/ \E id \in FileIds \cup {AutoId} : AddReserve(id)
           \/ AddStart \/ AddFails \/ AddDiscard \/ RecreateStart
           \/ \E r \in SUBSET Slots, byLoop \in BOOLEAN : SeekCall(r, byLoop)
  <2>1. UNCHANGED <<slots, history, decision, lost, late>> /\ lpc' \in {lpc, "seeking"}
    BY <1>4 DEF AddReserve, AddStart, AddFails, AddDiscard, RecreateStart, SeekCall
  <2>2. ~Compacting
    BY <1>4 DEF Compacting, AddReserve, AddStart, AddFails, AddDiscard, RecreateStart, SeekCall,
       Call, NoOp
  <2> QED BY <2>1, <2>2, CarriedStands
<1>5. CASE AddCommit \/ RecreateCommit
  <2>1. /\ UNCHANGED <<decision, lpc>> /\ late \cap {"removal", "redraw"} \subseteq late'
        /\ lost \subseteq lost'
    BY <1>5 DEF AddCommit, RecreateCommit, LateLayout
  <2>2. Timely' => Timely /\ lost' = lost BY <2>1 DEF Timely
  <2>3. ~Compacting /\ HasNew BY <1>5 DEF Compacting, HasNew, AddCommit, RecreateCommit
  <2>4. op.slot \in Slots \ Open /\ op.track \in Tracks BY <2>3, Spots DEF Rest
  <2>5. history[op.slot] # op.track
    <3>1. history[op.slot] # NoTrack => history[op.slot] \in Known
      BY <2>4 DEF Known, FramesOf
    <3> QED BY <3>1, <2>3, <2>4, Apart DEF OneGeneration
  <2>6. CASE slots' = [slots EXCEPT ![op.slot] = op.track]
    <3>1. /\ Open' = Open \union {op.slot}
          /\ slots'[op.slot] = op.track /\ \A u \in Open : slots'[u] = slots[u]
      BY <2>4, <2>6, Fills
    <3>2. history'[op.slot] # op.track /\ \A u \in Open : history'[u] = history[u]
      <4>1. CASE AddCommit
        BY <4>1, <2>4, Apart DEF AddCommit, ClearReservedSlot, Typed, TrackMaps, Open
      <4>2. CASE RecreateCommit BY <4>2, <2>5 DEF RecreateCommit
      <4> QED BY <1>5, <4>1, <4>2
    <3>3. ASSUME Timely', NEW s \in Open', history'[s] = slots'[s]
          PROVE  s \in Open /\ history[s] = slots[s] /\ slots'[s] = slots[s]
      BY <3>1, <3>2, <3>3
    <3> HIDE DEF Timely, Compacting
    <3> QED BY <2>1, <2>2, <2>3, <3>3 DEF Carried
  <2>7. CASE UNCHANGED slots /\ lost' = lost \cup {op.track.id}
    BY <2>7, CarriedElsewhere DEF Timely
  <2> QED BY <1>5, <2>6, <2>7 DEF AddCommit, RecreateCommit
<1>6. CASE (\E s \in Slots : RemoveDetach(s)) \/ RemoveMove \/ RemoveClear
  <2>1. Compacting'
    <3>1. CASE RemoveMove \/ RemoveClear
      <4>1. op \in Removing BY <3>1, Shapes DEF Typed, RemoveMove, RemoveClear
      <4> QED BY <3>1, <4>1 DEF Compacting, RemoveMove, RemoveClear, Removing
    <3> QED BY <1>6, <3>1 DEF Compacting, RemoveDetach
  <2> QED BY <2>1, CarriedElsewhere
<1>7. CASE RemoveFinish
  <2>1. UNCHANGED lpc /\ LateDecision("removal") \subseteq late' BY <1>7 DEF RemoveFinish
  <2>2. lpc = "idle" \/ "removal" \in late' BY <2>1 DEF LateDecision
  <2> QED BY <2>1, <2>2, CarriedElsewhere DEF Timely
<1>8. CASE RecreateDetach
  <2> DEFINE s == Min(op.todo)
  <2>1. s \in Open BY <1>8, Spots DEF RecreateDetach, Rest
  <2>2. /\ slots' = [slots EXCEPT ![s] = NoTrack] /\ history' = [history EXCEPT ![s] = NoTrack]
        /\ UNCHANGED <<decision, lpc, lost>> /\ late \subseteq late'
    BY <1>8 DEF RecreateDetach, LateLayout
  <2>3. ~Compacting BY <1>8 DEF RecreateDetach, Compacting
  <2>4. Timely' => Timely BY <2>2 DEF Timely
  <2> HIDE DEF s
  <2>5. Open' = Open \ {s} /\ \A u \in Open' : slots'[u] = slots[u]
    BY <2>1, <2>2, Empties DEF Rest
  <2>6. \A u \in Open' : history'[u] = history[u] BY <2>2, <2>5 DEF Typed, TrackMaps, Open
  <2> HIDE DEF Timely, Compacting
  <2> QED BY <2>2, <2>3, <2>4, <2>5, <2>6 DEF Carried
<1>9. CASE RecreateFails
  <2>1. lost' # {} BY <1>9 DEF RecreateFails
  <2> QED BY <2>1, CarriedElsewhere DEF Timely
<1>10. CASE SeekFinish
  <2>1. /\ UNCHANGED <<slots, decision, lost, late>> /\ lpc' \in {"idle", lpc}
        /\ history' \in {history, Nothing}
    BY <1>10 DEF SeekFinish
  <2>2. ~Compacting BY <1>10 DEF SeekFinish, Compacting
  <2>3. CASE history' = history BY <2>1, <2>2, <2>3, CarriedStands
  <2>4. CASE history' = Nothing
    <3>1. \A u \in Open' : history'[u] # slots'[u] BY <2>4 DEF Nothing, Open
    <3> QED BY <3>1 DEF Carried
  <2> QED BY <2>1, <2>3, <2>4
<1> QED BY <1>1, <1>2, <1>3, <1>4, <1>5, <1>6, <1>7, <1>8, <1>9, <1>10 DEF ApiStep, Quiet

(* When the last track has moved, nothing is above the hole: compacting    *)
(* the history brings every frame to its track.                            *)
LEMMA RemovalKeepsAnchors ==
  ASSUME Typed, Rest, Shifted, RemoveFinish, lost = {}
  PROVE  op.anchored \subseteq Anchors'
<1>1. op \in Removing BY Shapes DEF Typed, RemoveFinish
<1>2. /\ op.pc = "moving" /\ UNCHANGED slots
      /\ history' = CompactHistory(history, op.slot)
      /\ op.at < MaxTracks => slots[op.at + 1] = NoTrack
  BY DEF RemoveFinish, MoreToMove
<1>3. Emptied = op.at /\ Hole = {op.at} BY <1>2 DEF Emptied, Hole
<1>4. op.at \in Slots \ Open /\ op.slot \in Slots BY <1>2, Spots DEF Rest
<1>5. \A k \in Open : k < op.at
  <2>1. PICK n \in 0 .. MaxTracks : Open \union {op.at} = 1 .. n
    BY <1>2, <1>3 DEF Rest, Gapless
  <2>2. op.at + 1 \notin Open BY <1>2, <1>4, Apart DEF Open, Slots
  <2>3. op.at = n BY <2>1, <2>2, <1>4, Apart DEF Slots
  <2> QED BY <2>1, <2>3, <1>4, Apart
<1>6. ASSUME NEW t \in op.anchored PROVE \E k \in Open : slots[k] = t /\ history'[k] = t
  <2>1. PICK k \in Open : slots[k] = t /\ FrameOf(k) = t
    BY <1>2 DEF Shifted, Compacting
  <2>2. k \in Slots /\ k < op.at /\ k # MaxTracks BY <1>4, <1>5, Apart DEF Open, Slots
  <2>3. history'[k] = FrameOf(k)
    BY <2>2, <1>2, <1>3, <1>4, Apart DEF FrameOf, CompactHistory, Slots
  <2> QED BY <2>1, <2>3
<1>7. UNCHANGED Open BY <1>2 DEF Open
<1> QED BY <1>2, <1>6, <1>7 DEF Anchors

LEMMA LoopKeepsAnchors ==
  ASSUME Carried, Timely, ~Compacting, LoopStep
  PROVE  Anchors \subseteq Anchors'
<1>1. UNCHANGED slots
  BY DEF LoopStep, LoopTick, LoopFilter, LoopCarry, LoopPresent, LoopCommit, LoopSettle,
     LoopConsume, LoopPreview, LoopPreviewSet
<1>2. UNCHANGED Open BY <1>1 DEF Open
<1>3. ASSUME NEW s \in Open, history[s] = slots[s] PROVE history'[s] = slots[s]
  <2>1. s \in Slots /\ slots[s] # NoTrack BY DEF Open
  <2>2. CASE LoopCommit
    <3>1. decision[s] = slots[s] BY <1>3, <2>2 DEF LoopCommit, Carried
    <3>2. Filter(decision)[s] = slots[s] BY <2>1, <3>1 DEF Filter, Matches
    <3> QED BY <1>3, <2>2, <3>2 DEF LoopCommit
  <2>3. CASE LoopPreviewSet BY <1>3, <2>3 DEF LoopPreviewSet, Carried
  <2>4. CASE UNCHANGED history BY <1>3, <2>4
  <2> QED BY <2>2, <2>3, <2>4
       DEF LoopStep, LoopTick, LoopFilter, LoopCarry, LoopPresent, LoopSettle, LoopConsume,
           LoopPreview
<1> QED BY <1>1, <1>2, <1>3 DEF Anchors

(* A slot that is written or emptied had no anchor, or loses its track.    *)
LEMMA CallKeepsAnchors ==
  ASSUME Typed, Rest, ApiStep, ~Compacting, ~Compacting', ~SeekFinish,
         NEW t \in Anchors, NEW u \in Slots, slots'[u] = t
  PROVE  t \in Anchors'
<1> USE DEF history_, layout, registry
<1>1. PICK s \in Open : slots[s] = t /\ history[s] = t BY DEF Anchors
<1>2. SUFFICES ASSUME UNCHANGED <<slots, history>> \/ AddCommit \/ RecreateCommit \/ RecreateDetach
               PROVE  t \in Anchors'
  <2>1. CASE \/ \E id \in FileIds \cup {AutoId} : AddReserve(id)
             \/ \E r \in SUBSET Slots, byLoop \in BOOLEAN : SeekCall(r, byLoop)
    BY <2>1, <1>2 DEF AddReserve, SeekCall
  <2>2. CASE AddStart \/ AddFails \/ AddDiscard \/ RecreateFails \/ RecreateStart
             \/ Play \/ Pause \/ ApplyLayout
    BY <2>2, <1>2 DEF AddStart, AddFails, AddDiscard, RecreateFails, RecreateStart, Play, Pause,
       ApplyLayout
  <2>3. CASE RemoveMove \/ RemoveClear \/ RemoveFinish \/ \E r \in Slots : RemoveDetach(r)
    BY <2>3 DEF Compacting, RemoveMove, RemoveClear, RemoveFinish, RemoveDetach
  <2> QED BY <1>2, <2>1, <2>2, <2>3 DEF ApiStep
<1>3. CASE UNCHANGED <<slots, history>> BY <1>1, <1>3 DEF Anchors, Open
<1>4. CASE AddCommit \/ RecreateCommit
  <2>1. op.slot \in Slots \ Open /\ op.track \in Tracks
    BY <1>4, Spots DEF Rest, HasNew, AddCommit, RecreateCommit
  <2>2. slots' = [slots EXCEPT ![op.slot] = op.track] \/ UNCHANGED slots
    BY <1>4 DEF AddCommit, RecreateCommit
  <2>3. s \in Open' /\ slots'[s] = t
    BY <1>1, <2>1, <2>2, Fills DEF Open
  <2>4. history'[s] = t
    BY <1>1, <1>4, <2>1 DEF AddCommit, RecreateCommit, ClearReservedSlot, Typed, TrackMaps, Open
  <2> QED BY <2>3, <2>4 DEF Anchors
<1>5. CASE RecreateDetach
  <2> DEFINE r == Min(op.todo)
  <2>1. r \in Open BY <1>5, Spots DEF RecreateDetach, Rest
  <2>2. slots' = [slots EXCEPT ![r] = NoTrack] /\ history' = [history EXCEPT ![r] = NoTrack]
    BY <1>5 DEF RecreateDetach
  <2> HIDE DEF r
  <2>3. Open' = Open \ {r} /\ \A v \in Open' : slots'[v] = slots[v]
    BY <2>1, <2>2, Empties DEF Rest
  <2>4. u \in Open'
    BY <1>1, <2>2, OpenTracks, Apart DEF Open, Typed, TrackMaps
  <2>5. u = s BY <1>1, <2>3, <2>4 DEF Rest, OneId
  <2>6. history'[s] = t BY <1>1, <2>2, <2>3, <2>4, <2>5 DEF Typed, TrackMaps, Open
  <2> QED BY <1>1, <2>3, <2>4, <2>5, <2>6 DEF Anchors
<1> QED BY <1>2, <1>3, <1>4, <1>5

LEMMA CallInRemoval ==
  ASSUME op \in Ops
  PROVE  "anchored" \in DOMAIN op <=> Compacting
<1>1. op \in Removing => "anchored" \in DOMAIN op BY DEF Removing
<1>2. op \in Adding \union Seeking \union Recreating => "anchored" \notin DOMAIN op
  BY DEF Adding, Seeking, Recreating
<1>3. "anchored" \notin DOMAIN NoOp BY DEF NoOp
<1> HIDE DEF NoOp
<1> QED BY <1>1, <1>2, <1>3, Shapes DEF Ops, Compacting

(* A track that is open keeps the frame it can be carried with, for any    *)
(* number of slots and any order of calls beside the loop: through the     *)
(* filtering, carrying and commit of a decision, and through the two       *)
(* compactions of a removal, that of the slots one by one and that of the  *)
(* history at the end.                                                     *)
THEOREM AnchorsCorrect == Spec => AnchorsKept
<1>1. Init => Anchored
  BY DEF Init, NoOp, Anchored, Carried, Shifted, Compacting
<1>2. IInv /\ Anchored /\ [Next]_vars => Anchored'
  <2> SUFFICES ASSUME Typed, Rest, OneGeneration, Carried, Shifted, [Next]_vars
               PROVE  Carried' /\ Shifted'
    BY DEF IInv, Anchored
  <2>1. CASE Next
    <3>1. ApiStep \/ Quiet BY <2>1 DEF Next, Quiet
    <3> QED BY <3>1, CarriedStep, ShiftedStep
  <2>2. CASE UNCHANGED vars
    <3>1. UNCHANGED <<slots, history, decision, op, lpc, lost, late>>
      BY <2>2 DEF vars, loop, history_
    <3>2. UNCHANGED <<Open, Compacting, Timely, Emptied>>
      BY <3>1 DEF Open, Compacting, Timely, Emptied
    <3>3. Carried' BY <3>1, <3>2 DEF Carried
    <3>4. Shifted' BY <3>1, <3>2 DEF Shifted, FrameOf
    <3> QED BY <3>3, <3>4
  <2> QED BY <2>1, <2>2
<1> DEFINE Step ==
      \/ SeekFinish \/ HostRedraw \/ lost # {} \/ {"removal", "redraw"} \cap late # {}
      \/ "anchored" \in DOMAIN op'
      \/ IF "anchored" \in DOMAIN op THEN op.anchored \subseteq Anchors'
         ELSE \A t \in Anchors : (\E s \in Slots : slots'[s] = t) => t \in Anchors'
<1>3. IInv /\ IInv' /\ Anchored /\ [Next]_vars => [Step]_vars
  <2> SUFFICES ASSUME Typed, Typed', Rest, OneGeneration, Carried, Shifted, Next, Timely,
                      ~SeekFinish, ~HostRedraw, "anchored" \notin DOMAIN op'
               PROVE  IF "anchored" \in DOMAIN op THEN op.anchored \subseteq Anchors'
                      ELSE \A t \in Anchors : (\E s \in Slots : slots'[s] = t) => t \in Anchors'
    BY DEF IInv, Anchored, Timely
  <2>1. ~Compacting'
    <3>1. \A o \in Ops : "anchored" \notin DOMAIN o => o.pc \notin {"moving", "clearing"}
      BY DEF Ops, Removing, Adding, Seeking, Recreating, NoOp
    <3> QED BY <3>1 DEF Typed, Compacting
  <2>2. "anchored" \in DOMAIN op <=> Compacting BY CallInRemoval DEF Typed
  <2>3. CASE Compacting
    <3>1. RemoveFinish
      <4>1. ~Quiet BY <2>1, <2>3, QuietKeeps DEF Compacting
      <4>2. op # NoOp BY <2>3 DEF Compacting, NoOp
      <4>3. op \in Removing BY <2>3, Shapes DEF Typed, Compacting
      <4>4. ~RemoveMove /\ ~RemoveClear
        BY <2>1, <4>3 DEF Compacting, RemoveMove, RemoveClear, Removing
      <4> QED BY <2>3, <4>1, <4>2, <4>4 DEF Compacting, Next, Quiet, ApiStep, AddReserve, AddStart,
           AddFails, AddCommit, AddDiscard, RemoveDetach, SeekCall, RecreateDetach, RecreateFails,
           RecreateStart, RecreateCommit, SeekFinish, Call
    <3> QED BY <2>2, <2>3, <3>1, RemovalKeepsAnchors DEF Timely
  <2>4. CASE ~Compacting
    <3>1. CASE LoopStep BY <2>2, <2>4, <3>1, LoopKeepsAnchors
    <3>2. CASE ApiStep BY <2>1, <2>2, <2>4, <3>2, CallKeepsAnchors
    <3>3. CASE DeviceLost
      <4>1. UNCHANGED <<slots, history>> BY <3>3 DEF DeviceLost
      <4>2. UNCHANGED Anchors BY <4>1 DEF Anchors, Open
      <4> QED BY <4>2, <2>2, <2>4
    <3> QED BY <3>1, <3>2, <3>3 DEF Next
  <2> QED BY <2>3, <2>4
<1>4. Spec => [][Step]_vars BY <1>1, <1>2, <1>3, Inductive, PTL DEF Spec
<1> QED BY <1>4 DEF AnchorsKept
-----------------------------------------------------------------------------
(* Lists of ids. *)

LEMMA Removes ==
  ASSUME NEW s \in Seq(Nat), NEW k \in 1 .. Len(s)
  PROVE  /\ RemoveAt(s, k) \in Seq(Nat) /\ Len(RemoveAt(s, k)) = Len(s) - 1
         /\ \A i \in 1 .. Len(s) - 1 :
              RemoveAt(s, k)[i] = IF i < k THEN s[i] ELSE s[i + 1]
<1> DEFINE n == Len(s)
           u == SubSeq(s, 1, k - 1)
           v == SubSeq(s, k + 1, n)
<1>1. n \in Nat /\ k \in 1 .. n /\ \A i \in 1 .. n : s[i] \in Nat OBVIOUS
<1>2. RemoveAt(s, k) = u \o v BY DEF RemoveAt
<1> HIDE DEF n
<1>3. u \in Seq(Nat) /\ Len(u) = k - 1 /\ \A i \in 1 .. k - 1 : u[i] = s[i]
  <2>1. /\ 1 \in Int /\ k - 1 \in Int /\ \A i \in 1 .. k - 1 : s[i] \in Nat
        /\ (IF 1 <= k - 1 THEN k - 1 - 1 + 1 ELSE 0) = k - 1 /\ k - 1 - 1 + 1 = k - 1
    BY <1>1
  <2>2. /\ u \in Seq(Nat) /\ Len(u) = IF 1 <= k - 1 THEN k - 1 - 1 + 1 ELSE 0
        /\ \A i \in 1 .. k - 1 - 1 + 1 : u[i] = s[1 + i - 1]
    BY <2>1, SubSeqProperties
  <2>3. \A i \in 1 .. k - 1 : 1 + i - 1 = i BY <1>1
  <2> HIDE DEF u
  <2> QED BY <2>1, <2>2, <2>3
<1>4. v \in Seq(Nat) /\ Len(v) = n - k /\ \A i \in 1 .. n - k : v[i] = s[k + i]
  <2>1. /\ k + 1 \in Int /\ n \in Int /\ \A i \in k + 1 .. n : s[i] \in Nat
        /\ (IF k + 1 <= n THEN n - (k + 1) + 1 ELSE 0) = n - k /\ n - (k + 1) + 1 = n - k
    BY <1>1
  <2>2. /\ v \in Seq(Nat) /\ Len(v) = IF k + 1 <= n THEN n - (k + 1) + 1 ELSE 0
        /\ \A i \in 1 .. n - (k + 1) + 1 : v[i] = s[k + 1 + i - 1]
    BY <2>1, SubSeqProperties
  <2>3. \A i \in 1 .. n - k : k + 1 + i - 1 = k + i BY <1>1
  <2> HIDE DEF v
  <2> QED BY <2>1, <2>2, <2>3
<1> HIDE DEF u, v
<1>5. /\ u \o v \in Seq(Nat) /\ Len(u \o v) = Len(u) + Len(v)
      /\ \A i \in 1 .. Len(u) + Len(v) :
           (u \o v)[i] = IF i <= Len(u) THEN u[i] ELSE v[i - Len(u)]
  BY <1>3, <1>4, ConcatProperties
<1>6. Len(u) + Len(v) = n - 1 BY <1>1, <1>3, <1>4
<1>7. ASSUME NEW i \in 1 .. n - 1
      PROVE  (u \o v)[i] = IF i < k THEN s[i] ELSE s[i + 1]
  <2>1. (u \o v)[i] = IF i <= k - 1 THEN u[i] ELSE v[i - (k - 1)] BY <1>3, <1>5, <1>6
  <2>2. CASE i < k
    <3>1. i <= k - 1 /\ i \in 1 .. k - 1 BY <1>1, <2>2
    <3> QED BY <1>3, <2>1, <2>2, <3>1
  <2>3. CASE ~(i < k)
    <3>1. ~(i <= k - 1) /\ i - (k - 1) \in 1 .. n - k /\ k + (i - (k - 1)) = i + 1
      BY <1>1, <2>3
    <3>2. v[i - (k - 1)] = s[k + (i - (k - 1))] BY <1>4, <3>1
    <3> QED BY <2>1, <2>3, <3>1, <3>2
  <2> QED BY <2>2, <2>3
<1> QED BY <1>2, <1>5, <1>6, <1>7 DEF n

LEMMA WithoutLists ==
  ASSUME NEW s, NEW ids, NEW x \in ids, Lists(s, ids)
  PROVE  Lists(Without(s, x), ids \ {x})
<1> DEFINE n == Len(s)
           at == {i \in DOMAIN s : s[i] = x}
           k == Min(at)
           r == RemoveAt(s, k)
<1>1. /\ s \in Seq(Nat) /\ n \in Nat /\ DOMAIN s = 1 .. n
      /\ \A i, j \in 1 .. n : s[i] = s[j] => i = j
      /\ \A i \in 1 .. n : s[i] \in ids
      /\ \A id \in ids : \E i \in 1 .. n : s[i] = id
  BY DEF Lists
<1>2. at # {} /\ at \in SUBSET Nat BY <1>1
<1>3. Without(s, x) = r BY <1>2 DEF Without
<1>4. k \in at
  <2> HIDE DEF at
  <2> QED BY <1>2, Least
<1>5. k \in 1 .. n /\ s[k] = x BY <1>1, <1>4
<1> HIDE DEF k, at
<1>6. /\ r \in Seq(Nat) /\ Len(r) = n - 1
      /\ \A i \in 1 .. n - 1 : r[i] = IF i < k THEN s[i] ELSE s[i + 1]
  BY <1>1, <1>5, Removes
<1> HIDE DEF r, n
<1>7. \A i \in 1 .. n - 1 : /\ i < k => i \in 1 .. n /\ i # k
                            /\ ~(i < k) => i + 1 \in 1 .. n /\ i + 1 # k
  BY <1>1, <1>5
<1>8. ASSUME NEW i \in 1 .. n - 1, NEW j \in 1 .. n - 1, r[i] = r[j] PROVE i = j
  <2>1. /\ i < k => r[i] = s[i] /\ i \in 1 .. n
        /\ ~(i < k) => r[i] = s[i + 1] /\ i + 1 \in 1 .. n
        /\ j < k => r[j] = s[j] /\ j \in 1 .. n
        /\ ~(j < k) => r[j] = s[j + 1] /\ j + 1 \in 1 .. n
    BY <1>6, <1>7
  <2>2. CASE i < k /\ j < k BY <1>1, <1>8, <2>1, <2>2
  <2>3. CASE i < k /\ ~(j < k)
    <3>1. i = j + 1 BY <1>1, <1>8, <2>1, <2>3
    <3> QED BY <1>1, <1>5, <2>3, <3>1
  <2>4. CASE ~(i < k) /\ j < k
    <3>1. j = i + 1 BY <1>1, <1>8, <2>1, <2>4
    <3> QED BY <1>1, <1>5, <2>4, <3>1
  <2>5. CASE ~(i < k) /\ ~(j < k)
    <3>1. i + 1 = j + 1 BY <1>1, <1>8, <2>1, <2>5
    <3> QED BY <3>1
  <2> QED BY <2>2, <2>3, <2>4, <2>5
<1>9. ASSUME NEW i \in 1 .. n - 1 PROVE r[i] \in ids \ {x}
  <2>1. \A j \in 1 .. n : j # k => s[j] \in ids \ {x} BY <1>1, <1>5
  <2> QED BY <1>6, <1>7, <2>1
<1>10. ASSUME NEW id \in ids \ {x} PROVE \E i \in 1 .. n - 1 : r[i] = id
  <2>1. PICK j \in 1 .. n : s[j] = id BY <1>1
  <2>2. j # k BY <1>5, <2>1
  <2>3. CASE j < k
    <3>1. j \in 1 .. n - 1 BY <1>1, <1>5, <2>3
    <3>2. r[j] = s[j] BY <1>6, <2>3, <3>1
    <3> QED BY <2>1, <3>1, <3>2
  <2>4. CASE ~(j < k)
    <3>1. j - 1 \in 1 .. n - 1 /\ ~(j - 1 < k) /\ j - 1 + 1 = j BY <1>1, <1>5, <2>2, <2>4
    <3>2. r[j - 1] = s[j - 1 + 1] BY <1>6, <3>1
    <3> QED BY <2>1, <3>1, <3>2
  <2> QED BY <2>3, <2>4
<1> QED BY <1>3, <1>6, <1>8, <1>9, <1>10 DEF Lists

LEMMA AppendLists ==
  ASSUME NEW s, NEW ids, NEW x \in Nat \ ids, Lists(s, ids)
  PROVE  Lists(Append(s, x), ids \union {x})
<1> DEFINE n == Len(s)
           r == Append(s, x)
<1>1. /\ s \in Seq(Nat) /\ n \in Nat
      /\ \A i, j \in 1 .. n : s[i] = s[j] => i = j
      /\ \A i \in 1 .. n : s[i] \in ids
      /\ \A id \in ids : \E i \in 1 .. n : s[i] = id
  BY DEF Lists
<1>2. /\ r \in Seq(Nat) /\ Len(r) = n + 1 /\ r[n + 1] = x
      /\ \A i \in 1 .. n : r[i] = s[i]
  BY <1>1, AppendProperties
<1> HIDE DEF n, r
<1>3. \A i \in 1 .. n + 1 : i \in 1 .. n \/ i = n + 1 BY <1>1
<1>4. \A i \in 1 .. n : i \in 1 .. n + 1 /\ i # n + 1 BY <1>1
<1>5. n + 1 \in 1 .. n + 1 BY <1>1
<1>6. \A i, j \in 1 .. n + 1 : r[i] = r[j] => i = j BY <1>1, <1>2, <1>3
<1>7. \A i \in 1 .. n + 1 : r[i] \in ids \union {x} BY <1>1, <1>2, <1>3
<1>8. \A id \in ids \union {x} : \E i \in 1 .. n + 1 : r[i] = id BY <1>1, <1>2, <1>4, <1>5
<1> QED BY <1>2, <1>6, <1>7, <1>8 DEF Lists, r

(* The slots, and with them the ids, are finite in number. *)
LEMMA FiniteIds ==
  ASSUME Typed
  PROVE  /\ IsFiniteSet(Slots) /\ Cardinality(Slots) = MaxTracks
         /\ IsFiniteSet(OpenIds) /\ OpenIds \subseteq Nat
<1>1. IsFiniteSet(Slots) /\ Cardinality(Slots) = MaxTracks
  BY Apart, FS_Interval DEF Slots
<1>2. IsFiniteSet(Open) BY <1>1, FS_Subset DEF Open
<1>3. OpenIds \subseteq Nat BY OpenTracks DEF OpenIds, Tracks
<1>4. IsFiniteSet(OpenIds)
  <2> DEFINE f == [s \in Open |-> slots[s].id]
  <2> HIDE DEF Open
  <2>1. f \in Surjection(Open, OpenIds) BY DEF Surjection, OpenIds
  <2> QED BY <1>2, <2>1, FS_Surjection
<1> QED BY <1>1, <1>3, <1>4

(* The orders apply_layout may be given. *)
LEMMA LayoutLists ==
  ASSUME Typed, NEW ids \in SetToSeqs(OpenIds)
  PROVE  Lists(ids, OpenIds)
<1> DEFINE n == Cardinality(OpenIds)
           D == 1 .. n
<1>1. n \in Nat /\ IsFiniteSet(OpenIds) /\ OpenIds \subseteq Nat
  BY FiniteIds, FS_CardinalityType
<1>2. ids \in [D -> OpenIds] /\ \A i, j \in D : i # j => ids[i] # ids[j] BY DEF SetToSeqs
<1> HIDE DEF n
<1>3. IsFiniteSet(D) /\ Cardinality(D) = n BY <1>1, FS_Interval
<1>4. ids \in Injection(D, OpenIds) BY <1>2 DEF Injection, IsInjective
<1>5. ids \in Surjection(D, OpenIds) BY <1>1, <1>3, <1>4, FS_Injection DEF n
<1>6. \A id \in OpenIds : \E i \in D : ids[i] = id BY <1>5 DEF Surjection
<1>7. ids \in Seq(Nat) /\ Len(ids) = n
  <2>1. ids \in [1 .. n -> Nat] BY <1>1, <1>2
  <2> HIDE DEF D
  <2> QED BY <1>1, <2>1
<1> QED BY <1>2, <1>6, <1>7 DEF Lists

(* A list of the open tracks is drawn from their slots. *)
LEMMA DrawsOpen ==
  ASSUME Typed, NEW s, Lists(s, OpenIds)
  PROVE  LET d == SlotsOf(slots, s)
         IN  /\ d \in Seq(Slots) /\ Len(d) = Len(s)
             /\ \A i \in 1 .. Len(s) : d[i] \in Open /\ slots[d[i]].id = s[i]
<1> DEFINE n == Len(s)
           at(i) == {t \in Slots : slots[t] # NoTrack /\ slots[t].id = s[i]}
           d == SlotsOf(slots, s)
<1>1. n \in Nat /\ DOMAIN s = 1 .. n /\ \A i \in 1 .. n : s[i] \in OpenIds BY DEF Lists
<1>2. d = [i \in 1 .. n |-> IF at(i) = {} THEN 1 ELSE Min(at(i))] BY <1>1 DEF SlotsOf
<1>3. ASSUME NEW i \in 1 .. n PROVE at(i) # {} /\ at(i) \subseteq Open
  BY <1>1 DEF OpenIds, Open
<1>4. ASSUME NEW i \in 1 .. n PROVE d[i] \in Open /\ slots[d[i]].id = s[i]
  <2>1. Min(at(i)) \in at(i) BY <1>3, Least, Apart DEF Open
  <2>2. d[i] = Min(at(i)) BY <1>2, <1>3
  <2> QED BY <1>3, <2>1, <2>2
<1>5. \A i \in 1 .. n : d[i] \in Slots BY <1>4 DEF Open
<1>6. d \in [1 .. n -> Slots] BY <1>2, <1>5
<1> HIDE DEF n, d
<1>7. d \in Seq(Slots) /\ Len(d) = n BY <1>1, <1>6
<1> QED BY <1>4, <1>7 DEF n, d

(* As long as there is an empty slot, the order has room for one more. *)
LEMMA OrderHasRoom ==
  ASSUME Typed, Lists(order, OpenIds), drawn \in Seq(Slots), Len(drawn) = Len(order),
         \A i \in 1 .. Len(order) : drawn[i] \in Open /\ slots[drawn[i]].id = order[i],
         NEW s \in Slots \ Open
  PROVE  Len(order) < MaxTracks
<1> DEFINE n == Len(order)
           D == 1 .. n
           T == Slots \ {s}
<1>1. n \in Nat /\ \A i, j \in D : order[i] = order[j] => i = j BY DEF Lists
<1>2. drawn \in [D -> T]
  <2>1. drawn \in [1 .. Len(drawn) -> Slots] BY LenProperties
  <2>2. \A i \in D : drawn[i] \in T BY DEF Open
  <2> QED BY <2>1, <2>2
<1>3. \A i, j \in D : drawn[i] = drawn[j] => i = j BY <1>1
<1> HIDE DEF n
<1>4. drawn \in Injection(D, T) BY <1>2, <1>3 DEF Injection, IsInjective
<1>5. IsFiniteSet(Slots) /\ Cardinality(Slots) = MaxTracks /\ s \in Slots BY FiniteIds
<1>6. IsFiniteSet(T) /\ Cardinality(T) = MaxTracks - 1 BY <1>5, FS_RemoveElement
<1>7. Cardinality(D) <= Cardinality(T) BY <1>4, <1>6, FS_Injection
<1>8. Cardinality(D) = n BY <1>1, FS_Interval
<1> QED BY <1>6, <1>7, <1>8, Apart DEF n
-----------------------------------------------------------------------------
(* The display order follows the tracks. *)

LEMMA LayoutStays ==
  ASSUME Ordered, UNCHANGED <<slots, lost, layout>>,
         "order" \in late => "order" \in late', "pending" \in late => "pending" \in late',
         Compacting' <=> Compacting, Compacting => op'.id = op.id,
         Replacing' <=> Replacing,
         Replacing => op'.slot = op.slot /\ op'.track.id = op.track.id
  PROVE  Ordered'
<1>1. UNCHANGED <<slots, lost, order, drawn, pending>> BY DEF layout
<1>2. Open' = Open /\ OpenIds' = OpenIds BY <1>1, Same
<1>3. Listed' = Listed BY <1>2 DEF Listed
<1>4. \A s, id : DrawnFrom(s, id) => DrawnFrom(s, id)' BY <1>1, <1>2 DEF DrawnFrom
<1>5. OrderFollows' BY <1>1, <1>3, <1>4 DEF Ordered, OrderFollows
<1>6. PendingFollows' BY <1>1, <1>2 DEF Ordered, PendingFollows
<1>7. RemovedClosed' BY <1>2 DEF Ordered, RemovedClosed
<1> QED BY <1>5, <1>6, <1>7 DEF Ordered

(* An order and its slots set anew between calls. *)
LEMMA LayoutSet ==
  ASSUME Typed, UNCHANGED <<slots, op>>, ~Compacting, ~Replacing,
         Lists(order', OpenIds), drawn' = SlotsOf(slots, order')
  PROVE  OrderFollows'
<1>1. Open' = Open /\ OpenIds' = OpenIds BY Same
<1>2. ~Compacting' /\ ~Replacing' BY DEF Compacting, Replacing
<1>3. Listed' = OpenIds BY <1>1, <1>2 DEF Listed
<1>4. /\ drawn' \in Seq(Slots) /\ Len(drawn') = Len(order')
      /\ \A i \in 1 .. Len(order') : drawn'[i] \in Open /\ slots[drawn'[i]].id = order'[i]
  BY DrawsOpen
<1>5. \A i \in 1 .. Len(order') : DrawnFrom(drawn[i], order[i])'
  BY <1>1, <1>4 DEF DrawnFrom
<1> QED BY <1>3, <1>4, <1>5 DEF OrderFollows

LEMMA LayoutConsumed ==
  ASSUME Typed, Ordered, ~Compacting, NEW extra, Consume(extra), UNCHANGED <<slots, op, lost>>
  PROVE  Ordered'
<1>1. /\ Compacting' <=> Compacting
      /\ Replacing' <=> Replacing
  BY DEF Compacting, Replacing
<1>2. CASE pending = <<>>
  <2>1. late' = late \cup extra /\ UNCHANGED layout BY <1>2 DEF Consume
  <2> QED BY <1>1, <2>1, LayoutStays
<1>3. CASE pending # <<>>
  <2>1. /\ order' = pending /\ drawn' = SlotsOf(slots, pending) /\ pending' = <<>>
        /\ late' = (late \ {"order", "pending"}) \cup extra \cup
                   (IF "pending" \in late THEN {"order"} ELSE {})
    BY <1>3 DEF Consume
  <2>2. ASSUME lost' = {}, "order" \notin late' PROVE OrderFollows'
    <3>1. lost = {} /\ "pending" \notin late BY <2>1, <2>2
    <3>2. ~Replacing /\ Lists(pending, OpenIds)
      BY <1>3, <3>1 DEF Ordered, PendingFollows
    <3> QED BY <2>1, <3>2, LayoutSet
  <2>3. OrderFollows' BY <2>2 DEF OrderFollows
  <2>4. PendingFollows' BY <2>1 DEF PendingFollows
  <2>5. RemovedClosed' BY <1>1 DEF RemovedClosed
  <2> QED BY <2>3, <2>4, <2>5 DEF Ordered
<1> QED BY <1>2, <1>3

LEMMA OrderedQuiet ==
  ASSUME Typed, Ordered, Quiet
  PROVE  Ordered'
<1>1. UNCHANGED <<slots, op, lost>> BY QuietKeeps
<1>2. /\ Compacting' <=> Compacting
      /\ Replacing' <=> Replacing
  BY <1>1 DEF Compacting, Replacing
<1>3. StateFree => ~Compacting BY DEF StateFree, Compacting
<1>4. ASSUME UNCHANGED layout,
             late' = late \/ late' = late \ {"removal", "redraw"}
      PROVE  Ordered'
  <2>1. /\ "order" \in late => "order" \in late'
        /\ "pending" \in late => "pending" \in late'
    BY <1>4
  <2> QED BY <1>1, <1>2, <1>4, <2>1, LayoutStays
<1>5. CASE LoopTick BY <1>4, <1>5 DEF LoopTick
<1>6. CASE LoopFilter \/ LoopCarry \/ LoopCommit \/ LoopSettle
  BY <1>4, <1>6 DEF LoopFilter, LoopCarry, LoopCommit, LoopSettle, history_
<1>7. CASE LoopPresent
  <2>1. StateFree /\ (Consume({}) \/ UNCHANGED <<layout, late>>)
    BY <1>7 DEF LoopPresent, ConsumePending
  <2> QED BY <1>1, <1>3, <1>4, <2>1, LayoutConsumed
<1>8. CASE LoopConsume
  <2>1. StateFree /\ Consume({}) BY <1>8 DEF LoopConsume, ConsumePending
  <2> QED BY <1>1, <1>3, <2>1, LayoutConsumed
<1>9. CASE LoopPreview BY <1>4, <1>9 DEF LoopPreview
<1>10. CASE LoopPreviewSet BY <1>4, <1>10 DEF LoopPreviewSet, history_
<1>11. CASE HostRedraw
  <2>1. StateFree /\ Consume(LateDecision("redraw")) BY <1>11 DEF HostRedraw
  <2> QED BY <1>1, <1>3, <2>1, LayoutConsumed
<1>12. CASE Play \/ Pause \/ DeviceLost
  BY <1>4, <1>12 DEF Play, Pause, DeviceLost, history_
<1>13. CASE ApplyLayout
  <2>1. op = NoOp BY <1>13 DEF ApplyLayout, Call
  <2>2. ~Compacting /\ ~Replacing BY <2>1 DEF NoOp, Compacting, Replacing
  <2>3. PICK ids \in SetToSeqs(OpenIds) :
          \/ pending' = ids /\ late' = late \ {"pending"} /\ UNCHANGED <<order, drawn>>
          \/ /\ order' = ids /\ drawn' = SlotsOf(slots, ids) /\ pending' = <<>>
             /\ late' = late \ {"pending", "order"}
    BY <1>13 DEF ApplyLayout
  <2>4. Lists(ids, OpenIds) BY LayoutLists
  <2>5. Open' = Open /\ OpenIds' = OpenIds BY <1>1, Same
  <2>6. RemovedClosed' BY <1>2, <2>2 DEF RemovedClosed
  <2>7. CASE pending' = ids /\ late' = late \ {"pending"} /\ UNCHANGED <<order, drawn>>
    <3>1. "order" \in late => "order" \in late' BY <2>7
    <3>2. Listed' = Listed BY <1>2, <2>2, <2>5 DEF Listed
    <3>3. \A s, id : DrawnFrom(s, id) => DrawnFrom(s, id)'
      BY <1>1, <2>5, <2>2 DEF DrawnFrom
    <3>4. OrderFollows' BY <1>1, <1>2, <2>7, <3>1, <3>2, <3>3 DEF Ordered, OrderFollows
    <3>5. PendingFollows' BY <1>2, <2>2, <2>4, <2>5, <2>7 DEF PendingFollows
    <3> QED BY <2>6, <3>4, <3>5 DEF Ordered
  <2>8. CASE /\ order' = ids /\ drawn' = SlotsOf(slots, ids) /\ pending' = <<>>
             /\ late' = late \ {"pending", "order"}
    <3>1. OrderFollows' BY <1>1, <2>2, <2>4, <2>8, LayoutSet
    <3>2. PendingFollows' BY <2>8 DEF PendingFollows
    <3> QED BY <2>6, <3>1, <3>2 DEF Ordered
  <2> QED BY <2>3, <2>7, <2>8
<1> QED BY <1>5, <1>6, <1>7, <1>8, <1>9, <1>10, <1>11, <1>12, <1>13 DEF Quiet, LoopStep

LEMMA OrderedAddCommit ==
  ASSUME Typed, Rest, Ordered, AddCommit
  PROVE  Ordered'
<1>1. /\ op.pc = "starting" /\ op' = NoOp /\ slots' = [slots EXCEPT ![op.slot] = op.track]
      /\ UNCHANGED <<pending, lost>> /\ late' = LateLayout
  BY DEF AddCommit
<1>2. op'.pc = "none" BY <1>1 DEF NoOp
<1>3. /\ ~Compacting /\ ~Compacting' /\ ~Replacing /\ ~Replacing' /\ HasNew
  BY <1>1, <1>2 DEF Compacting, Replacing, HasNew
<1>4. op.slot \in Slots \ Open /\ op.track \in Tracks BY <1>3, Spots DEF Rest
<1>5. /\ Open' = Open \union {op.slot}
      /\ slots'[op.slot] = op.track /\ \A u \in Open : slots'[u] = slots[u]
      /\ OpenIds' = OpenIds \union {op.track.id}
  BY <1>1, <1>4, Fills
<1>6. op.track.id \in Nat \ OpenIds BY <1>3, <1>4 DEF Rest, OneId, Tracks
<1>7. Listed = OpenIds /\ Listed' = OpenIds' BY <1>3 DEF Listed
<1>8. late \subseteq late' /\ (pending # <<>> => "pending" \in late')
  BY <1>1 DEF LateLayout
<1>9. ASSUME lost = {}, "order" \notin late PROVE OrderFollows'
  <2>1. /\ Lists(order, OpenIds) /\ drawn \in Seq(Slots) /\ Len(drawn) = Len(order)
        /\ \A i \in 1 .. Len(order) : drawn[i] \in Open /\ slots[drawn[i]].id = order[i]
    BY <1>3, <1>7, <1>9 DEF Ordered, OrderFollows, DrawnFrom
  <2>2. Len(order) < MaxTracks BY <1>4, <2>1, OrderHasRoom
  <2>3. order' = Append(order, op.track.id) /\ drawn' = Append(drawn, op.slot)
    BY <2>2 DEF AddCommit
  <2>4. Lists(order', OpenIds') BY <1>5, <1>6, <2>1, <2>3, AppendLists
  <2> DEFINE n == Len(order)
  <2>5. order \in Seq(Nat) /\ n \in Nat BY <2>1 DEF Lists
  <2>6. /\ drawn' \in Seq(Slots) /\ Len(drawn') = n + 1 /\ drawn'[n + 1] = op.slot
        /\ \A i \in 1 .. n : drawn'[i] = drawn[i]
    BY <1>4, <2>1, <2>3, AppendProperties
  <2>7. /\ Len(order') = n + 1 /\ order'[n + 1] = op.track.id
        /\ \A i \in 1 .. n : order'[i] = order[i]
    BY <1>6, <2>3, <2>5, AppendProperties
  <2>8. \A i \in 1 .. n : drawn[i] \in Open /\ slots[drawn[i]].id = order[i] BY <2>1
  <2> HIDE DEF n
  <2>9. ASSUME NEW i \in 1 .. n + 1 PROVE DrawnFrom(drawn[i], order[i])'
    <3>1. CASE i \in 1 .. n
      <4>1. drawn'[i] \in Open /\ slots'[drawn'[i]].id = order'[i]
        BY <1>5, <2>6, <2>7, <2>8, <3>1
      <4> QED BY <1>5, <4>1 DEF DrawnFrom
    <3>2. CASE i = n + 1
      <4>1. drawn'[i] = op.slot /\ order'[i] = op.track.id BY <2>6, <2>7, <3>2
      <4> QED BY <1>5, <4>1 DEF DrawnFrom
    <3> QED BY <2>5, <3>1, <3>2
  <2> QED BY <1>7, <2>4, <2>6, <2>7, <2>9 DEF OrderFollows
<1>10. OrderFollows' BY <1>1, <1>8, <1>9 DEF OrderFollows
<1>11. PendingFollows' BY <1>1, <1>8 DEF PendingFollows
<1>12. RemovedClosed' BY <1>3 DEF RemovedClosed
<1> QED BY <1>10, <1>11, <1>12 DEF Ordered

LEMMA OrderedRemoveDetach ==
  ASSUME Typed, Rest, Ordered, NEW s \in Slots, RemoveDetach(s)
  PROVE  Ordered'
<1>1. /\ op = NoOp /\ s \in Open /\ op'.pc = "moving" /\ op'.id = slots[s].id
      /\ slots' = [slots EXCEPT ![s] = NoTrack]
      /\ UNCHANGED <<order, drawn, pending, lost, late>>
  BY DEF RemoveDetach, Call, layout
<1>2. op.pc = "none" BY <1>1 DEF NoOp
<1>3. Compacting' /\ ~Replacing' /\ ~Compacting /\ ~Replacing
  BY <1>1, <1>2 DEF Compacting, Replacing
<1>4. OpenIds' = OpenIds \ {slots[s].id} BY <1>1, Empties DEF Rest
<1>5. slots[s].id \in OpenIds BY <1>1 DEF OpenIds
<1>6. Listed' = Listed BY <1>1, <1>3, <1>4, <1>5 DEF Listed
<1>7. OrderFollows' BY <1>1, <1>3, <1>6 DEF Ordered, OrderFollows
<1>8. PendingFollows' BY <1>1, <1>3 DEF Ordered, PendingFollows
<1>9. RemovedClosed' BY <1>1, <1>4 DEF RemovedClosed
<1> QED BY <1>7, <1>8, <1>9 DEF Ordered

LEMMA OrderedRemoveMove ==
  ASSUME Typed, Rest, Ordered, RemoveMove
  PROVE  Ordered'
<1> DEFINE at == op.at
<1>1. op \in Removing BY Shapes DEF Typed, RemoveMove
<1>2. /\ op.pc = "moving" /\ op'.pc = "clearing" /\ op'.id = op.id
      /\ slots' = [slots EXCEPT ![at] = slots[at + 1], ![at + 1] = NoTrack]
      /\ UNCHANGED <<order, drawn, pending, lost, late>>
  BY <1>1 DEF RemoveMove, Removing, layout, history_
<1>3. at \in Slots \ Open BY <1>2, Spots DEF Rest
<1>4. at + 1 \in Open BY <1>3, Apart DEF RemoveMove, MoreToMove, Open, Slots
<1>5. OpenIds' = OpenIds BY <1>2, <1>3, <1>4, Moves
<1>6. Compacting /\ Compacting' /\ ~Replacing /\ ~Replacing'
  BY <1>2 DEF Compacting, Replacing
<1>7. Listed' = Listed BY <1>2, <1>5, <1>6 DEF Listed
<1>8. OrderFollows' BY <1>2, <1>6, <1>7 DEF Ordered, OrderFollows
<1>9. PendingFollows' BY <1>2, <1>6 DEF Ordered, PendingFollows
<1>10. RemovedClosed' BY <1>2, <1>5, <1>6 DEF Ordered, RemovedClosed
<1> QED BY <1>8, <1>9, <1>10 DEF Ordered

LEMMA OrderedRemoveFinish ==
  ASSUME Typed, Ordered, RemoveFinish
  PROVE  Ordered'
<1>1. /\ op.pc = "moving" /\ op' = NoOp
      /\ order' = Without(order, op.id) /\ drawn' = SlotsOf(slots, order')
      /\ UNCHANGED <<slots, pending, lost>>
      /\ late \subseteq late' /\ (pending # <<>> => "pending" \in late')
  BY DEF RemoveFinish, LateLayout
<1>2. op'.pc = "none" BY <1>1 DEF NoOp
<1>3. Compacting /\ ~Compacting' /\ ~Replacing' BY <1>1, <1>2 DEF Compacting, Replacing
<1>4. Open' = Open /\ OpenIds' = OpenIds BY <1>1, Same
<1>5. Listed = OpenIds \union {op.id} /\ op.id \notin OpenIds
  BY <1>3 DEF Listed, Ordered, RemovedClosed
<1>6. Listed' = OpenIds BY <1>3, <1>4 DEF Listed
<1>7. ASSUME lost = {}, "order" \notin late PROVE OrderFollows'
  <2>1. Lists(order, Listed) BY <1>7 DEF Ordered, OrderFollows
  <2>2. Lists(order', Listed \ {op.id}) BY <1>1, <1>5, <2>1, WithoutLists
  <2>3. Lists(order', OpenIds)
    <3>1. Listed \ {op.id} = OpenIds BY <1>5
    <3> QED BY <2>2, <3>1
  <2>4. /\ drawn' \in Seq(Slots) /\ Len(drawn') = Len(order')
        /\ \A i \in 1 .. Len(order') : drawn'[i] \in Open /\ slots[drawn'[i]].id = order'[i]
    BY <1>1, <2>3, DrawsOpen
  <2>5. \A i \in 1 .. Len(order') : DrawnFrom(drawn[i], order[i])'
    BY <1>1, <1>4, <2>4 DEF DrawnFrom
  <2> QED BY <1>6, <2>3, <2>4, <2>5 DEF OrderFollows
<1>8. OrderFollows' BY <1>1, <1>7 DEF OrderFollows
<1>9. PendingFollows' BY <1>1 DEF PendingFollows
<1>10. RemovedClosed' BY <1>3 DEF RemovedClosed
<1> QED BY <1>8, <1>9, <1>10 DEF Ordered

LEMMA OrderedRecreateDetach ==
  ASSUME Typed, Rest, Ordered, RecreateDetach
  PROVE  Ordered'
<1> DEFINE s == Min(op.todo)
<1>1. /\ op.pc = "seeking" /\ op'.pc = "recreating" /\ op'.slot = s
      /\ op'.track.id = slots[s].id
      /\ slots' = [slots EXCEPT ![s] = NoTrack]
      /\ UNCHANGED <<order, drawn, pending, lost>>
      /\ late \subseteq late' /\ (pending # <<>> => "pending" \in late')
  BY DEF RecreateDetach, Track, layout, LateLayout
<1>2. s \in Open BY Spots DEF RecreateDetach, Rest
<1> HIDE DEF s
<1>3. ~Compacting /\ ~Compacting' /\ ~Replacing /\ Replacing'
  BY <1>1 DEF Compacting, Replacing
<1>4. /\ Open' = Open \ {s} /\ \A u \in Open' : slots'[u] = slots[u]
      /\ OpenIds' = OpenIds \ {slots[s].id}
  BY <1>1, <1>2, Empties DEF Rest
<1>5. slots[s].id \in OpenIds BY <1>2 DEF OpenIds
<1>6. Listed' = Listed BY <1>1, <1>3, <1>4, <1>5 DEF Listed
<1>7. \A t, id : DrawnFrom(t, id) => DrawnFrom(t, id)'
  BY <1>1, <1>3, <1>4 DEF DrawnFrom
<1>8. OrderFollows' BY <1>1, <1>3, <1>6, <1>7 DEF Ordered, OrderFollows
<1>9. PendingFollows' BY <1>1 DEF PendingFollows
<1>10. RemovedClosed' BY <1>3 DEF RemovedClosed
<1> QED BY <1>8, <1>9, <1>10 DEF Ordered

(* A track that is lost stays in the order, which then claims nothing. *)
LEMMA OrderedRecreated ==
  ASSUME Typed, Rest, Ordered, RecreateCommit \/ RecreateFails
  PROVE  Ordered'
<1>1. op'.pc = "seeking" BY DEF RecreateCommit, RecreateFails, SeekGoesOn
<1>2. ~Compacting' /\ ~Replacing' BY <1>1 DEF Compacting, Replacing
<1>3. RemovedClosed' BY <1>2 DEF RemovedClosed
<1>4. CASE lost' # {} BY <1>3, <1>4 DEF Ordered, OrderFollows, PendingFollows
<1>5. CASE lost' = {}
  <2>1. /\ op.pc = "restarting" /\ slots' = [slots EXCEPT ![op.slot] = op.track]
        /\ UNCHANGED <<order, drawn, pending, lost, late>>
    BY <1>5 DEF RecreateCommit, RecreateFails, layout
  <2>2. HasNew /\ Replacing /\ ~Compacting BY <2>1 DEF HasNew, Replacing, Compacting
  <2>3. op.slot \in Slots \ Open /\ op.track \in Tracks BY <2>2, Spots DEF Rest
  <2>4. /\ Open' = Open \union {op.slot}
        /\ slots'[op.slot] = op.track /\ \A u \in Open : slots'[u] = slots[u]
        /\ OpenIds' = OpenIds \union {op.track.id}
    BY <2>1, <2>3, Fills
  <2>5. Listed' = Listed BY <1>2, <2>2, <2>4 DEF Listed
  <2>6. \A t, id : DrawnFrom(t, id) => DrawnFrom(t, id)' BY <2>4 DEF DrawnFrom
  <2>7. OrderFollows' BY <2>1, <2>2, <2>5, <2>6 DEF Ordered, OrderFollows
  <2>8. PendingFollows' BY <2>1, <2>2 DEF Ordered, PendingFollows
  <2> QED BY <1>3, <2>7, <2>8 DEF Ordered
<1> QED BY <1>4, <1>5

LEMMA OrderedStep ==
  ASSUME Typed, Rest, Ordered, ApiStep \/ Quiet
  PROVE  Ordered'
<1> USE DEF layout, history_
<1>1. CASE Quiet BY <1>1, OrderedQuiet
<1>2. CASE AddCommit BY <1>2, OrderedAddCommit
<1>3. CASE \E s \in Slots : RemoveDetach(s) BY <1>3, OrderedRemoveDetach
<1>4. CASE RemoveMove BY <1>4, OrderedRemoveMove
<1>5. CASE RemoveFinish BY <1>5, OrderedRemoveFinish
<1>6. CASE RecreateDetach BY <1>6, OrderedRecreateDetach
<1>7. CASE RecreateCommit \/ RecreateFails BY <1>7, OrderedRecreated
<1>8. CASE RemoveClear
  <2>1. op \in Removing BY <1>8, Shapes DEF Typed, RemoveClear
  <2>2. /\ op.pc = "clearing" /\ op'.pc = "moving" /\ op'.id = op.id
        /\ UNCHANGED <<slots, lost, layout, late>>
    BY <1>8, <2>1 DEF RemoveClear, Removing
  <2>3. Compacting /\ Compacting' /\ ~Replacing /\ ~Replacing'
    BY <2>2 DEF Compacting, Replacing
  <2> QED BY <2>2, <2>3, LayoutStays
<1>9. CASE RecreateStart
  <2>1. op \in Recreating BY <1>9, Shapes DEF Typed, RecreateStart
  <2>2. /\ op.pc = "recreating" /\ op'.pc = "restarting" /\ op'.slot = op.slot
        /\ op'.track.id = op.track.id
        /\ UNCHANGED <<slots, lost, layout, late>>
    BY <1>9, <2>1 DEF RecreateStart, Recreating, Tracks
  <2>3. ~Compacting /\ ~Compacting' /\ Replacing /\ Replacing'
    BY <2>2 DEF Compacting, Replacing
  <2> QED BY <2>2, <2>3, LayoutStays
<1>10. CASE \/ \E id \in FileIds \cup {AutoId} : AddReserve(id)
            \/ AddStart \/ AddFails \/ AddDiscard \/ SeekFinish
            \/ \E r \in SUBSET Slots, byLoop \in BOOLEAN : SeekCall(r, byLoop)
  <2>1. /\ op.pc \in {"none", "opening", "starting", "seeking"}
        /\ op'.pc \in {"none", "opening", "starting", "seeking"}
        /\ UNCHANGED <<slots, lost, layout, late>>
    <3>1. CASE \E id \in FileIds \cup {AutoId} : AddReserve(id)
      BY <3>1 DEF AddReserve, Call, NoOp
    <3>2. CASE AddStart
      <4>1. op \in Adding BY <3>2, Shapes DEF Typed, AddStart
      <4> QED BY <3>2, <4>1 DEF AddStart, Adding
    <3>3. CASE AddFails \/ AddDiscard \/ SeekFinish
      BY <3>3 DEF AddFails, AddDiscard, SeekFinish, NoOp
    <3>4. CASE \E r \in SUBSET Slots, byLoop \in BOOLEAN : SeekCall(r, byLoop)
      BY <3>4 DEF SeekCall, Call, NoOp
    <3> QED BY <1>10, <3>1, <3>2, <3>3, <3>4
  <2>2. ~Compacting /\ ~Compacting' /\ ~Replacing /\ ~Replacing'
    BY <2>1 DEF Compacting, Replacing
  <2> QED BY <2>1, <2>2, LayoutStays
<1>11. CASE Play \/ Pause \/ ApplyLayout BY <1>11, OrderedQuiet DEF Quiet
<1> QED BY <1>1, <1>2, <1>3, <1>4, <1>5, <1>6, <1>7, <1>8, <1>9, <1>10, <1>11 DEF ApiStep

LEMMA OrderedBegin == Init => Ordered
<1> SUFFICES ASSUME Init PROVE Ordered OBVIOUS
<1>1. op.pc = "none" /\ pending = <<>> BY DEF Init, NoOp
<1>2. ~Compacting /\ ~Replacing BY <1>1 DEF Compacting, Replacing
<1>3. /\ Typed /\ InitialTracks \in Nat /\ InitialTracks <= MaxTracks
  BY Begin, TrackAssumption
<1>4. \A s \in Slots : slots[s] = IF s <= InitialTracks THEN Track(s, s, s) ELSE NoTrack
  BY DEF Init
<1>5. \A s \in 1 .. InitialTracks : s \in Slots /\ slots[s] = Track(s, s, s)
  BY <1>3, <1>4, Apart DEF Slots
<1>6. \A s \in 1 .. InitialTracks : s \in Open /\ slots[s].id = s
  <2>1. \A s \in 1 .. InitialTracks : Track(s, s, s) \in Tracks /\ Track(s, s, s).id = s
    BY <1>3 DEF Track, Tracks
  <2>2. \A s \in 1 .. InitialTracks : slots[s] # NoTrack /\ slots[s].id = s
    BY <1>5, <2>1, Apart
  <2> QED BY <1>5, <2>2 DEF Open
<1>7. \A s \in Open : s \in 1 .. InitialTracks BY <1>3, <1>4, Apart DEF Open, Slots
<1>8. OpenIds = 1 .. InitialTracks
  <2> HIDE DEF Open
  <2> QED BY <1>6, <1>7 DEF OpenIds
<1>9. /\ order = [i \in 1 .. InitialTracks |-> i] /\ drawn = order BY DEF Init
<1>10. /\ order \in Seq(Nat) /\ drawn \in Seq(Slots) /\ Len(order) = InitialTracks
       /\ \A i \in 1 .. InitialTracks : order[i] = i /\ drawn[i] = i
  <2>1. [i \in 1 .. InitialTracks |-> i] \in [1 .. InitialTracks -> Nat] BY <1>3
  <2>2. [i \in 1 .. InitialTracks |-> i] \in [1 .. InitialTracks -> Slots] BY <1>5
  <2> QED BY <1>3, <1>9, <2>1, <2>2
<1>11. Lists(order, OpenIds) BY <1>8, <1>10 DEF Lists
<1>12. OrderFollows
  <2>1. \A i \in 1 .. Len(order) : DrawnFrom(drawn[i], order[i])
    BY <1>6, <1>10 DEF DrawnFrom
  <2>2. Listed = OpenIds BY <1>2 DEF Listed
  <2> QED BY <1>9, <1>10, <1>11, <2>1, <2>2 DEF OrderFollows
<1> QED BY <1>1, <1>2, <1>12 DEF Ordered, PendingFollows, RemovedClosed

(* Between calls the display order lists the open tracks, each once and    *)
(* drawn from its slot, for any number of slots, any ids and any calls:    *)
(* through add_track's append, the slots a removal renumbers, a track that *)
(* is replaced, and layouts applied at once or by the render loop, unless  *)
(* the one applied last had waited while the tracks changed.               *)
THEOREM LayoutCorrect == Spec => []LayoutInSync
<1>1. Init => Ordered BY OrderedBegin
<1>2. IInv /\ Ordered /\ [Next]_vars => Ordered'
  <2> SUFFICES ASSUME Typed, Rest, Ordered, [Next]_vars
               PROVE  Ordered'
    BY DEF IInv
  <2>1. CASE Next
    <3>1. ApiStep \/ Quiet BY <2>1 DEF Next, Quiet
    <3> QED BY <3>1, OrderedStep
  <2>2. CASE UNCHANGED vars
    <3>1. UNCHANGED <<slots, lost, layout, op, late>> BY <2>2 DEF vars, history_
    <3>2. UNCHANGED <<Compacting, Replacing>> BY <3>1 DEF Compacting, Replacing
    <3> QED BY <3>1, <3>2, LayoutStays
  <2> QED BY <2>1, <2>2
<1>3. IInv /\ Ordered => LayoutInSync
  <2> SUFFICES ASSUME Typed, Ordered, op = NoOp, lost = {}, "order" \notin late
               PROVE  /\ IsInjective(order) /\ ToSet(order) = OpenIds
                      /\ \A i \in DOMAIN order :
                           slots[drawn[i]] # NoTrack /\ slots[drawn[i]].id = order[i]
    BY DEF IInv, LayoutInSync
  <2>1. op.pc = "none" BY DEF NoOp
  <2>2. ~Compacting /\ ~Replacing BY <2>1 DEF Compacting, Replacing
  <2>3. Lists(order, OpenIds) BY <2>2 DEF Ordered, OrderFollows, Listed
  <2>4. \A i \in 1 .. Len(order) : drawn[i] \in Open /\ slots[drawn[i]].id = order[i]
    BY <2>2 DEF Ordered, OrderFollows, DrawnFrom
  <2>5. DOMAIN order = 1 .. Len(order) BY <2>3 DEF Lists
  <2>6. IsInjective(order) /\ ToSet(order) = OpenIds
    BY <2>3, <2>5 DEF Lists, IsInjective, ToSet
  <2> QED BY <2>4, <2>5, <2>6 DEF Open
<1> QED BY <1>1, <1>2, <1>3, Inductive, PTL DEF Spec
=============================================================================

--------------------------- MODULE TrackTopology ---------------------------
(***************************************************************************)
(* Which tracks are open, and every copy the renderer keeps of that fact:  *)
(* the registry's slots, the slots of the RenderSink, the presented        *)
(* history that missing frames are carried from, the audio registrations   *)
(* and the display order.                                                  *)
(*                                                                         *)
(* The API thread adds, removes and seeks under lifecycle_mutex_ (op is    *)
(* not NoOp) and takes state_mutex_ for parts of it only; the render loop  *)
(* and the host's refresh queue take state_mutex_ for short sections and   *)
(* keep a decision between them.  A frame is the track it was decoded for. *)
(***************************************************************************)
EXTENDS FiniteSetsExt, SequencesExt

CONSTANTS NoTrack,
          MaxTracks,      (* kMaxTracks *)
          InitialTracks,  (* the tracks initialize opened *)
          FileIds,        (* the ids add_track_with_file_id is called with *)
          AutoId,         (* add_track: the id is the registry's *)
          MaxPipes,       (* bound: pipelines made *)
          MaxCalls        (* bound: API calls but play and pause, and loop seeks *)

Tracks == [id : Nat, gen : Nat, pipe : Nat]

(* A negative file id is refused before anything is changed. *)
ASSUME TrackAssumption ==
  /\ MaxTracks \in Nat /\ InitialTracks \in 1 .. MaxTracks
  /\ FileIds \subseteq Nat /\ AutoId \notin FileIds
  /\ NoTrack \notin Tracks

VARIABLES
  slots,         (* RendererTrackRegistry::tracks_ *)
  sink,          (* RenderSink::tracks_ with their ids and generations *)
  history,       (* RendererPresentHistory::decision_ *)
  audio,         (* the file ids the audio coordinator has a decoder for *)
  order, drawn,  (* file_id_order_, and layout_.order: the slot of each *)
  pending,       (* a layout to be taken by the render loop, or <<>> *)
  nextId, nextGen, (* the registry's counters *)
  playing,       (* timeline_.playing() *)
  initialized,   (* initialized_ *)
  op,            (* the call or loop seek that holds lifecycle_mutex_ *)
  lpc, decision, (* where the render loop is, and what it wants to present *)
  pipes, calls,  (* history: pipelines made, calls made *)
  lost,          (* history: ids of tracks whose replacement failed *)
  late           (* history: "pending" and "order" when that layout predates a change
                    of the tracks, "removal" and "redraw" when the decision does one *)

registry == <<nextId, nextGen>>
layout == <<order, drawn, pending>>
loop == <<lpc, decision>>
history_ == <<pipes, calls, lost, late>>

vars == <<slots, sink, history, audio, layout, registry, playing, initialized, op,
          loop, history_>>

Slots == 1 .. MaxTracks
Open == {s \in Slots : slots[s] # NoTrack}
OpenIds == {slots[s].id : s \in Open}
Nothing == [s \in Slots |-> NoTrack]
NoOp == [pc |-> "none"]

Track(id, gen, pipe) == [id |-> id, gen |-> gen, pipe |-> pipe]

(* state_mutex_ is free: a removal holds it throughout, a seek except while *)
(* it replaces a pipeline.                                                  *)
StateFree == op.pc \notin {"moving", "clearing", "seeking"}

Init ==
  /\ slots = [s \in Slots |-> IF s <= InitialTracks THEN Track(s, s, s) ELSE NoTrack]
  /\ sink = slots
  /\ history = Nothing
  /\ audio = 1 .. InitialTracks
  /\ order = [i \in 1 .. InitialTracks |-> i] /\ drawn = order
  /\ pending = <<>>
  /\ nextId = InitialTracks + 1 /\ nextGen = InitialTracks + 1
  /\ playing = FALSE /\ initialized = TRUE
  /\ op = NoOp
  /\ lpc = "idle" /\ decision = Nothing
  /\ pipes = InitialTracks /\ calls = 0 /\ lost = {} /\ late = {}
-----------------------------------------------------------------------------
(* The display order and the decisions. *)

(* Mutant: the slots are not looked up again. *)
SlotsAsDrawn(tracks, ids) ==
  [i \in DOMAIN ids |-> IF i \in DOMAIN drawn THEN drawn[i] ELSE 1]

(* rebuild_slot_order: an id that is not open falls back to the first slot. *)
SlotsOf(tracks, ids) ==
  [i \in DOMAIN ids |->
     LET at == {s \in Slots : tracks[s] # NoTrack /\ tracks[s].id = ids[i]}
     IN  IF at = {} THEN 1 ELSE Min(at)]

Matches(frame, track) ==
  /\ frame # NoTrack /\ track # NoTrack
  /\ frame.id = track.id /\ frame.gen = track.gen

Filter(frames) ==
  [s \in Slots |-> IF Matches(frames[s], slots[s]) THEN frames[s] ELSE NoTrack]

HasFrame(frames) == \E s \in Slots : frames[s] # NoTrack

(* The frames at the head of the buffers of some of the tracks. *)
Heads(tracks, ready) == [s \in Slots |-> IF s \in ready THEN tracks[s] ELSE NoTrack]

Fill(frames, others) == [s \in Slots |-> IF frames[s] # NoTrack THEN frames[s] ELSE others[s]]

CarryForward(frames) == Fill(frames, Filter(history))

(* consume_pending_if_newer.  A pending layout is always newer: one that is *)
(* applied directly clears it.                                              *)
Consume(extra) ==
  IF pending = <<>> THEN late' = late \cup extra /\ UNCHANGED layout
  ELSE /\ order' = pending
       /\ drawn' = SlotsOf(slots, pending)
       /\ pending' = <<>>
       /\ late' = (late \ {"order", "pending"}) \cup extra \cup
                  (IF "pending" \in late THEN {"order"} ELSE {})

ConsumePending == Consume({})

(* What a change of the tracks makes late: a layout that waits, and when    *)
(* slots are renumbered the decisions in flight.                            *)
LateLayout == late \cup (IF pending = <<>> THEN {} ELSE {"pending"})

LateDecision(change) == IF lpc = "idle" THEN {} ELSE {change}

(* The tracks whose frame in the history can be carried. *)
Anchors == {slots[s] : s \in {t \in Open : history[t] = slots[t]}}

Call == op = NoOp /\ calls < MaxCalls /\ calls' = calls + 1
-----------------------------------------------------------------------------
(* add_track *)

PauseForMutation == playing' = FALSE

FirstEmpty == Min(Slots \ Open)

AddReserve(requested) ==
  /\ Call
  /\ initialized /\ Open # Slots /\ requested \notin OpenIds
  /\ LET id == IF requested = AutoId THEN nextId ELSE requested
     IN  /\ op' = [pc |-> "opening", slot |-> FirstEmpty, resume |-> playing,
                   track |-> Track(id, nextGen, 0)]
         /\ nextId' = IF id >= nextId THEN id + 1 ELSE nextId
  /\ nextGen' = nextGen + 1
  /\ PauseForMutation
  /\ UNCHANGED <<slots, sink, history, audio, layout, initialized, loop, pipes,
                 lost, late>>

(* The pipeline is made and started, which registers its audio. *)
AddStart ==
  /\ op.pc = "opening" /\ pipes < MaxPipes
  /\ pipes' = pipes + 1
  /\ op' = [op EXCEPT !.pc = "starting", !.track.pipe = pipes + 1]
  /\ audio' = audio \cup {op.track.id}
  /\ UNCHANGED <<slots, sink, history, layout, registry, playing, initialized, loop,
                 calls, lost, late>>

Resume == playing' = (playing \/ op.resume)

(* The file does not open, or its demuxer does not start and the audio is *)
(* unregistered again.                                                     *)
AddFails ==
  /\ op.pc = "opening"
  /\ op' = NoOp
  /\ Resume
  /\ UNCHANGED <<slots, sink, history, audio, layout, registry, initialized, loop,
                 history_>>

ClearReservedSlot == history' = [history EXCEPT ![op.slot] = NoTrack]

(* Playback is left paused. *)
AddCommit ==
  /\ op.pc = "starting"
  /\ initialized /\ slots[op.slot] = NoTrack
  /\ slots' = [slots EXCEPT ![op.slot] = op.track]
  /\ sink' = [sink EXCEPT ![op.slot] = op.track]
  /\ ClearReservedSlot
  /\ IF Len(order) < MaxTracks
     THEN order' = Append(order, op.track.id) /\ drawn' = Append(drawn, op.slot)
     ELSE UNCHANGED <<order, drawn>>
  /\ late' = LateLayout
  /\ op' = NoOp
  /\ UNCHANGED <<audio, pending, registry, playing, initialized, loop, pipes, calls,
                 lost>>

(* The device was lost meanwhile.  The pipeline is dropped, its audio stays. *)
AddDiscard ==
  /\ op.pc = "starting"
  /\ ~(initialized /\ slots[op.slot] = NoTrack)
  /\ op' = NoOp
  /\ Resume
  /\ UNCHANGED <<slots, sink, history, audio, layout, registry, initialized, loop,
                 history_>>
-----------------------------------------------------------------------------
(* remove_track.  The sink has its own mutex: the render loop looks at it   *)
(* between the moves.                                                      *)

(* Mutant: the audio decoder of a removed track is kept. *)
KeepAudio(id) == UNCHANGED audio

Unregister(id) == audio' = audio \ {id}

RemoveDetach(s) ==
  /\ Call
  /\ s \in Open
  /\ op' = [pc |-> "moving", slot |-> s, at |-> s, id |-> slots[s].id, resume |-> playing,
            anchored |-> Anchors \ {slots[s]}]
  /\ PauseForMutation
  /\ Unregister(slots[s].id)
  /\ slots' = [slots EXCEPT ![s] = NoTrack]
  /\ sink' = [sink EXCEPT ![s] = NoTrack]
  /\ UNCHANGED <<history, layout, registry, initialized, loop, pipes, lost, late>>

(* compact_from stops at the first empty slot. *)
MoreToMove == op.at < MaxTracks /\ slots[op.at + 1] # NoTrack

RemoveMove ==
  /\ op.pc = "moving" /\ MoreToMove
  /\ slots' = [slots EXCEPT ![op.at] = slots[op.at + 1], ![op.at + 1] = NoTrack]
  /\ sink' = [sink EXCEPT ![op.at] = slots[op.at + 1]]
  /\ op' = [op EXCEPT !.pc = "clearing"]
  /\ UNCHANGED <<history, audio, layout, registry, playing, initialized, loop,
                 history_>>

(* Mutant: the slot a track has moved from keeps it. *)
RemoveKeepFrom ==
  /\ op.pc = "clearing"
  /\ op' = [op EXCEPT !.pc = "moving", !.at = @ + 1]
  /\ UNCHANGED <<slots, sink, history, audio, layout, registry, playing, initialized,
                 loop, history_>>

RemoveClear ==
  /\ op.pc = "clearing"
  /\ sink' = [sink EXCEPT ![op.at + 1] = NoTrack]
  /\ op' = [op EXCEPT !.pc = "moving", !.at = @ + 1]
  /\ UNCHANGED <<slots, history, audio, layout, registry, playing, initialized, loop,
                 history_>>

(* Mutant: the history is only emptied at the removed slot. *)
ClearHistorySlot(frames, from) == [frames EXCEPT ![from] = NoTrack]

CompactHistory(frames, from) ==
  [s \in Slots |-> IF s < from THEN frames[s]
                   ELSE IF s = MaxTracks THEN NoTrack ELSE frames[s + 1]]

(* The first one is dropped, should a late layout have listed it twice. *)
Without(ids, id) ==
  LET at == {i \in DOMAIN ids : ids[i] = id}
  IN  IF at = {} THEN ids ELSE RemoveAt(ids, Min(at))

(* Then the threads of the removed track are stopped, without state_mutex_. *)
RemoveFinish ==
  /\ op.pc = "moving" /\ ~MoreToMove
  /\ history' = CompactHistory(history, op.slot)
  /\ order' = Without(order, op.id)
  /\ drawn' = SlotsOf(slots, order')
  /\ playing' = (playing \/ (op.resume /\ Open # {}))
  /\ late' = LateLayout \cup LateDecision("removal")
  /\ op' = NoOp
  /\ UNCHANGED <<slots, sink, audio, pending, registry, initialized, loop, pipes,
                 calls, lost>>
-----------------------------------------------------------------------------
(* A seek of all tracks, called or made by the render loop (a deferred seek, *)
(* the end of the loop range).  Some tracks are sought in place, a hardware   *)
(* HEVC track may be given a new pipeline.                                    *)

SeekCall(recreate, byLoop) ==
  /\ Call
  /\ Open # {} /\ recreate \subseteq Open
  /\ IF byLoop THEN lpc = "idle" /\ lpc' = "seeking" ELSE UNCHANGED lpc
  /\ op' = [pc |-> "seeking", todo |-> recreate, applied |-> recreate # Open,
            byLoop |-> byLoop]
  /\ UNCHANGED <<slots, sink, history, audio, layout, registry, playing, initialized,
                 decision, pipes, lost, late>>

(* Mutant: the replacement has the generation of what it replaces. *)
SameGeneration(track) == track.gen

ReplacementGeneration(track) == nextGen

RecreateDetach ==
  /\ op.pc = "seeking" /\ op.todo # {}
  /\ LET s == Min(op.todo)
     IN  /\ op' = [pc |-> "recreating", todo |-> op.todo \ {s}, applied |-> op.applied,
                   byLoop |-> op.byLoop, slot |-> s,
                   track |-> Track(slots[s].id, ReplacementGeneration(slots[s]), 0)]
         /\ audio' = audio \ {slots[s].id}
         /\ slots' = [slots EXCEPT ![s] = NoTrack]
         /\ sink' = [sink EXCEPT ![s] = NoTrack]
         /\ history' = [history EXCEPT ![s] = NoTrack]
  /\ nextGen' = nextGen + 1
  /\ late' = LateLayout
  /\ UNCHANGED <<layout, nextId, playing, initialized, loop, pipes, calls, lost>>

SeekGoesOn(applied) ==
  op' = [pc |-> "seeking", todo |-> op.todo, applied |-> op.applied \/ applied,
         byLoop |-> op.byLoop]

(* The track is lost: its slot stays empty, its id stays in the display order. *)
RecreateFails ==
  /\ op.pc = "recreating"
  /\ lost' = lost \cup {op.track.id}
  /\ SeekGoesOn(FALSE)
  /\ UNCHANGED <<slots, sink, history, audio, layout, registry, playing, initialized,
                 loop, pipes, calls, late>>

RecreateStart ==
  /\ op.pc = "recreating" /\ pipes < MaxPipes
  /\ pipes' = pipes + 1
  /\ op' = [op EXCEPT !.pc = "restarting", !.track.pipe = pipes + 1]
  /\ audio' = audio \cup {op.track.id}
  /\ UNCHANGED <<slots, sink, history, layout, registry, playing, initialized, loop,
                 calls, lost, late>>

RecreateCommit ==
  /\ op.pc = "restarting"
  /\ \/ /\ initialized /\ slots[op.slot] = NoTrack
        /\ slots' = [slots EXCEPT ![op.slot] = op.track]
        /\ sink' = [sink EXCEPT ![op.slot] = op.track]
        /\ SeekGoesOn(TRUE)
        /\ UNCHANGED lost
     \/ /\ ~(initialized /\ slots[op.slot] = NoTrack)
        /\ lost' = lost \cup {op.track.id}
        /\ SeekGoesOn(FALSE)
        /\ UNCHANGED <<slots, sink>>
  /\ UNCHANGED <<history, audio, layout, registry, playing, initialized, loop, pipes,
                 calls, late>>

SeekFinish ==
  /\ op.pc = "seeking" /\ op.todo = {}
  /\ history' = IF op.applied THEN Nothing ELSE history
  /\ lpc' = IF op.byLoop THEN "idle" ELSE lpc
  /\ op' = NoOp
  /\ UNCHANGED <<slots, sink, audio, layout, registry, playing, initialized, decision,
                 history_>>
-----------------------------------------------------------------------------
(* The other calls. *)

Play ==
  /\ op = NoOp /\ initialized /\ ~playing
  /\ playing' = TRUE
  /\ UNCHANGED <<slots, sink, history, audio, layout, registry, initialized, op, loop,
                 history_>>

Pause ==
  /\ op = NoOp /\ playing
  /\ playing' = FALSE
  /\ UNCHANGED <<slots, sink, history, audio, layout, registry, initialized, op, loop,
                 history_>>

(* apply_layout with the open tracks in some order: at once, or when the    *)
(* clock runs left to the render loop.                                      *)
ApplyLayout ==
  /\ Call /\ Open # {}
  /\ \E ids \in SetToSeqs(OpenIds) :
       \/ /\ playing
          /\ pending' = ids
          /\ late' = late \ {"pending"}
          /\ UNCHANGED <<order, drawn>>
       \/ /\ order' = ids
          /\ drawn' = SlotsOf(slots, ids)
          /\ pending' = <<>>
          /\ late' = late \ {"pending", "order"}
  /\ UNCHANGED <<slots, sink, history, audio, registry, playing, initialized, op, loop,
                 pipes, lost>>

(* enter_terminal_device_lost_locked.  The loop ends after its iteration. *)
DeviceLost ==
  /\ StateFree /\ initialized
  /\ initialized' = FALSE
  /\ playing' = FALSE
  /\ UNCHANGED <<slots, sink, history, audio, layout, registry, op, loop, history_>>
-----------------------------------------------------------------------------
(* The render loop. *)

(* Playing: tick_presentation evaluates the sink without state_mutex_. *)
LoopTick ==
  /\ lpc = "idle" /\ initialized /\ playing
  /\ \E ready \in SUBSET Slots :
       /\ HasFrame(Heads(sink, ready))
       /\ decision' = Heads(sink, ready)
  /\ lpc' = "ticked"
  /\ late' = late \ {"removal", "redraw"}
  /\ UNCHANGED <<slots, sink, history, audio, layout, registry, playing, initialized,
                 op, pipes, calls, lost>>

(* The frames of tracks that are gone or elsewhere are dropped, the others   *)
(* carried: two sections, between which a decision without frames ends.      *)
LoopFilter ==
  /\ lpc = "ticked" /\ StateFree
  /\ decision' = Filter(decision)
  /\ lpc' = IF HasFrame(Filter(decision)) THEN "filtered" ELSE "idle"
  /\ UNCHANGED <<slots, sink, history, audio, layout, registry, playing, initialized,
                 op, history_>>

LoopCarry ==
  /\ lpc = "filtered" /\ StateFree
  /\ decision' = CarryForward(decision)
  /\ lpc' = "presenting"
  /\ UNCHANGED <<slots, sink, history, audio, layout, registry, playing, initialized,
                 op, history_>>

LoopEnds == lpc' = "idle" /\ decision' = Nothing

(* present_frame, unless the host's interaction lane presents; the backend  *)
(* takes the frame or not.                                                  *)
LoopPresent ==
  /\ lpc = "presenting" /\ StateFree
  /\ ConsumePending \/ UNCHANGED <<layout, late>>
  /\ \/ lpc' = "accepted" /\ UNCHANGED decision
     \/ LoopEnds
  /\ UNCHANGED <<slots, sink, history, audio, registry, playing, initialized, op,
                 pipes, calls, lost>>

(* commit_presented, where the sink and the history advance. *)
LoopCommit ==
  /\ lpc = "accepted" /\ StateFree
  /\ history' = IF HasFrame(Filter(decision)) THEN Filter(decision) ELSE history
  /\ LoopEnds
  /\ UNCHANGED <<slots, sink, audio, layout, registry, playing, initialized, op,
                 history_>>

(* The end of the file: settle_eof_locked. *)
LoopSettle ==
  /\ lpc = "idle" /\ StateFree /\ playing
  /\ playing' = FALSE
  /\ UNCHANGED <<slots, sink, history, audio, layout, registry, initialized, op, loop,
                 history_>>

(* Paused, or the clock held: a preview is drawn when one was asked for. *)
LoopConsume ==
  /\ lpc = "idle" /\ StateFree /\ initialized
  /\ ConsumePending
  /\ lpc' = "paused"
  /\ UNCHANGED <<slots, sink, history, audio, registry, playing, initialized, op,
                 decision, pipes, calls, lost>>

(* paused_cached_decision, or when nothing is cached paused_preview_snapshot *)
(* once every track is ready.                                                *)
Cached(ready) == Fill(Filter(history), Heads(slots, ready))

LoopPreview ==
  /\ lpc = "paused" /\ StateFree
  /\ \/ \E ready \in SUBSET Open :
          /\ HasFrame(Filter(history))
          /\ decision' = Cached(ready)
          /\ lpc' = "previewing"
     \/ /\ ~HasFrame(Filter(history)) /\ Open # {}
        /\ decision' = slots
        /\ lpc' = "previewing"
     \/ /\ ~HasFrame(Filter(history))
        /\ lpc' = "idle"
        /\ UNCHANGED decision
  /\ late' = late \ {"removal", "redraw"}
  /\ UNCHANGED <<slots, sink, history, audio, layout, registry, playing, initialized,
                 op, pipes, calls, lost>>

(* Presented, and recorded as it was made. *)
LoopPreviewSet ==
  /\ lpc = "previewing" /\ StateFree
  /\ history' = decision
  /\ LoopEnds
  /\ UNCHANGED <<slots, sink, audio, layout, registry, playing, initialized, op,
                 history_>>
-----------------------------------------------------------------------------
(* The host's refresh queue: redraw_layout. *)

HostRedraw ==
  /\ StateFree
  /\ \/ \E ready \in SUBSET Open :
          /\ HasFrame(Filter(history))
          /\ history' = IF \A s \in Open : Cached(ready)[s] # NoTrack
                        THEN Cached(ready) ELSE slots
     \/ UNCHANGED history
  /\ Consume(LateDecision("redraw"))
  /\ UNCHANGED <<slots, sink, audio, registry, playing, initialized, op, loop, pipes,
                 calls, lost>>
-----------------------------------------------------------------------------
LoopStep ==
  \/ LoopTick \/ LoopFilter \/ LoopCarry \/ LoopPresent \/ LoopCommit \/ LoopSettle
  \/ LoopConsume \/ LoopPreview \/ LoopPreviewSet

ApiStep ==
  \/ \E id \in FileIds \cup {AutoId} : AddReserve(id)
  \/ AddStart \/ AddFails \/ AddCommit \/ AddDiscard
  \/ \E s \in Slots : RemoveDetach(s)
  \/ RemoveMove \/ RemoveClear \/ RemoveFinish
  \/ \E recreate \in SUBSET Slots, byLoop \in BOOLEAN : SeekCall(recreate, byLoop)
  \/ RecreateDetach \/ RecreateFails \/ RecreateStart \/ RecreateCommit \/ SeekFinish
  \/ Play \/ Pause \/ ApplyLayout

Next == LoopStep \/ HostRedraw \/ ApiStep \/ DeviceLost

Spec == Init /\ [][Next]_vars
-----------------------------------------------------------------------------
(* A decision may be kept while tracks come, go, move and are replaced: a    *)
(* frame that passes the filter was decoded by the very pipeline that is in  *)
(* its slot, though file ids are used again                                  *)
(* (track_present_policy.cpp filter_present_decision_against_tracks).        *)
RightPipeline ==
  \A s \in Slots : \A frame \in {history[s], decision[s]} :
    Matches(frame, slots[s]) => frame.pipe = slots[s].pipe

(* Whenever state_mutex_ is free the sink has the tracks of the registry,    *)
(* each at its slot, and the slots have no hole unless a replacement failed  *)
(* (find_empty_slot and compact_from rely on it).                            *)
(* Between calls exactly the open tracks have an audio decoder, which reads  *)
(* the packet queue of its track's pipeline: a decoder that stays would read *)
(* a queue that is gone.  Not so once the device is lost                     *)
(* (renderer_tracks.cpp:205).                                                *)
SinkAndAudioInSync ==
  /\ StateFree =>
       /\ sink = slots
       /\ lost = {} /\ op.pc \in {"none", "opening", "starting"} =>
            Open = 1 .. Cardinality(Open)
  /\ op = NoOp /\ initialized => audio = OpenIds

(* Between calls the display order lists the open tracks once each, and      *)
(* draws each from its slot, unless a layout that waited for the render loop *)
(* while the tracks changed has been applied since.                          *)
LayoutInSync ==
  op = NoOp /\ lost = {} /\ "order" \notin late =>
    /\ IsInjective(order) /\ ToSet(order) = OpenIds
    /\ \A i \in DOMAIN order : LET track == slots[drawn[i]]
         IN  track # NoTrack /\ track.id = order[i]

(* renderer_render_loop_command.cpp:304 "each track always shows a frame       *)
(* (new or carried over)": a track that has a frame to be carried keeps one as  *)
(* long as it is open, over the removal of others too.  Only a seek gives it up, *)
(* the host's refreshes, and a decision older than one or than a removal.       *)
AnchorsKept ==
  [][ \/ SeekFinish \/ HostRedraw \/ lost # {} \/ {"removal", "redraw"} \cap late # {}
      \/ "anchored" \in DOMAIN op' \* the call in the middle of a removal
      \/ IF "anchored" \in DOMAIN op THEN op.anchored \subseteq Anchors'
         ELSE \A t \in Anchors : (\E s \in Slots : slots'[s] = t) => t \in Anchors'
    ]_vars

(* renderer_render_loop_command.cpp:329 "a stale pre-topology decision cannot   *)
(* overwrite the compacted per-track anchor".                                   *)
CommitKeepsAnchors == [][LoopCommit /\ "redraw" \notin late => Anchors \subseteq Anchors']_vars
=============================================================================

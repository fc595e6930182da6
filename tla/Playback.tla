------------------------------ MODULE Playback ------------------------------
(***************************************************************************)
(* Transport of the renderer: play, pause and seek, the clock, the hold of *)
(* the pacing controller, deferred seeks, the loop range, and the render   *)
(* loop that previews, presents and stops at the end, over several tracks  *)
(* of frames.  API calls hold state_mutex_ to their end.  The render loop  *)
(* takes it section by section and presents without it; each section is a  *)
(* step.  How a seek gets from the API to the first frame of a track is    *)
(* VideoPipeline's: here a sought track is Flushing until SeekLands.       *)
(* Time is counted in frames.                                              *)
(***************************************************************************)
EXTENDS Integers, FiniteSets

CONSTANTS
  Tracks,
  Frames,             \* frames of each track
  Offset,             \* offset_us of each track
  Declared,           \* the demuxer knows how long the tracks are
  Depth,              \* TrackBuffer::max_count
  Hold, Queued,       \* packets in the codec whose frames are not out; in the queue
  Targets, SeekTypes, \* seeks the user may ask for
  KeyFrames,          \* frames a keyframe seek can land on
  HevcHw,             \* has_hevc_hw_track_locked
  Loops, NoLoop,      \* loop ranges: [start, end]
  MaxCalls,           \* bound: calls of the user between two passes of the render loop,
                      \* and one in the middle of a pass, the last
  None                \* no frame, no deferred seek: a number no frame has

ASSUME PlaybackAssumption ==
  /\ IsFiniteSet(Tracks) /\ Tracks # {}
  /\ Frames \in [Tracks -> Nat \ {0}] /\ Offset \in [Tracks -> Nat]
  /\ Depth \in Nat \ {0} /\ Hold \in Nat /\ Queued \in Nat /\ Targets \subseteq Nat
  /\ SeekTypes \subseteq {"Exact", "Keyframe"} /\ 0 \in KeyFrames /\ KeyFrames \subseteq Nat
  /\ {Declared, HevcHw} \subseteq BOOLEAN
  /\ None \notin Nat /\ MaxCalls \in Nat
  /\ \A l \in Loops \ {NoLoop} : 0 <= l.start /\ l.start < l.end

VARIABLES
  playing,         \* RendererTimelineController::playing_
  clock,           \* Clock: where it is, and paused_
  held, output,    \* PlaybackController::pacing_held_; its audio output plays
  pacing,          \* PlaybackPacingController::state_
  coord,           \* SeekCoordinator
  loop,            \* loop_range_
  track,           \* per track: state, first frame buffered, frames buffered, flags
  preview,         \* RendererPreviewState: drawn_ and pending_
  history,         \* RendererPresentHistory: the frame of each track
  signature,       \* PresentationScheduler::last_presented_signature_
  rl,              \* the render loop: where it is, its snapshots
  asked, agree,    \* history: the target a paused player was given last; since
                   \* the tracks were sought the clock has not run ahead of them
  calls

transport == <<playing, clock, held, output>>
screen    == <<preview, history, signature>>
vars == <<transport, pacing, coord, loop, track, screen, rl, asked, agree, calls>>

Biggest(S) == CHOOSE x \in S : \A y \in S : y <= x
Nothing == [t \in Tracks |-> None]
HasFrame(decision) == decision # Nothing

Loop0 == [at |-> "top", playing |-> FALSE, kind |-> "none", decision |-> Nothing]
Coord0 == [deferred |-> None, inFlight |-> FALSE, settling |-> FALSE, settled |-> FALSE]
NewTrack == [state |-> "Buffering", head |-> 0, count |-> 0, goal |-> 0, paused |-> FALSE,
             after |-> TRUE]

(* A renderer opened paused at 0.                                          *)
Init ==
  /\ playing = FALSE /\ clock = [pts |-> 0, paused |-> TRUE]
  /\ held = FALSE /\ output = FALSE /\ pacing = "Idle" /\ coord = Coord0
  /\ loop \in Loops
  /\ track = [t \in Tracks |-> NewTrack]
  /\ preview = [drawn |-> FALSE, pending |-> FALSE]
  /\ history = Nothing /\ signature = Nothing /\ rl = Loop0
  /\ asked = 0 /\ agree = TRUE /\ calls = 0

-----------------------------------------------------------------------------
(* The end of the file.                                                    *)

NextFrame(t) == track[t].head + track[t].count

(* All packets of the track are read; all are read and taken.              *)
ReadEof(t)   == NextFrame(t) + Hold + Queued >= Frames[t]
PacketEof(t) == NextFrame(t) + Hold >= Frames[t]
DeclaredEnd(t) == Frames[t] + Offset[t]
End == Biggest({DeclaredEnd(t) : t \in Tracks})

(* compute_playback_eof_boundary: the declared end, else that of the frame *)
(* presented last, else that of the frames buffered; 0 for none of them.   *)
EndOf(t) ==
  CASE Declared            -> DeclaredEnd(t)
    [] history[t] # None   -> history[t] + 1 + Offset[t]
    [] track[t].count > 0  -> NextFrame(t) + Offset[t]
    [] OTHER               -> 0

Bounded == Declared \/ \A t \in Tracks : ReadEof(t)

(* Mutant: the shortest track ends playback.                               *)
ShortestEnd == CHOOSE e \in {EndOf(t) : t \in Tracks} : \A t \in Tracks : e <= EndOf(t)

Boundary == Biggest({EndOf(t) : t \in Tracks})

-----------------------------------------------------------------------------
(* PlaybackPacingController::evaluate and the snapshot it looks at.        *)

Blocked == \E t \in Tracks : track[t].state # "Ready"
AllEof == \A t \in Tracks : PacketEof(t)
Starving == ~AllEof /\ \E t \in Tracks : track[t].count = 0 /\ ~PacketEof(t)

TargetAhead == IF Depth <= 2 THEN 1 ELSE 2
TargetBuffered == IF Depth < TargetAhead + 1 THEN Depth ELSE TargetAhead + 1

(* A track that cannot hold the clock back: not begun, all read, or with   *)
(* one frame, which must be shown before there can be another.             *)
ResumeReady ==
  \/ AllEof
  \/ \A t \in Tracks :
       \/ PacketEof(t)
       \/ /\ track[t].count > 0
          /\ \/ clock.pts < track[t].head + Offset[t]
             \/ track[t].count = 1
             \/ track[t].count >= TargetBuffered

(* Mutant: a hold whose controller a seek has reset is left alone.         *)
RecoversOwnHold == pacing \in {"Preroll", "Rebuffering"}

Recovering == pacing \in {"Preroll", "Rebuffering"} \/ (pacing = "Idle" /\ held)

(* The controller's next state, and what it has the loop do.               *)
Evaluation ==
  CASE ~playing -> [state |-> IF held THEN pacing ELSE "Idle", do |-> "nothing"]
    [] playing /\ Blocked -> [state |-> "Preroll", do |-> "hold"]
    [] playing /\ ~Blocked /\ Recovering /\ ~ResumeReady ->
         [state |-> IF pacing = "Idle" THEN "Rebuffering" ELSE pacing, do |-> "hold"]
    [] playing /\ ~Blocked /\ Recovering /\ ResumeReady ->
         [state |-> "Running", do |-> "resume"]
    [] playing /\ ~Blocked /\ ~Recovering /\ Starving ->
         [state |-> "Rebuffering", do |-> "hold"]
    [] OTHER -> [state |-> "Running", do |-> "nothing"]

HoldForPacing ==
  IF held THEN UNCHANGED <<held, output, clock>>
  ELSE held' = TRUE /\ output' = FALSE /\ clock' = [clock EXCEPT !.paused = TRUE]

ReleaseHold ==
  IF ~held THEN UNCHANGED <<held, output, clock>>
  ELSE held' = FALSE /\ output' = TRUE /\ clock' = [clock EXCEPT !.paused = FALSE]

-----------------------------------------------------------------------------
(* A track: its decoder, and what the API does to all of them.             *)

SetDecodePaused(tracks, paused) == [t \in Tracks |-> [tracks[t] EXCEPT !.paused = paused]]

PlaybackDecodeState(active) ==
  [t \in Tracks |-> [track[t] EXCEPT !.paused = ~active, !.after = ~active]]

(* The frame an exact seek shows, and a keyframe seek begins with.         *)
Landing(t, seek) ==
  LET last  == Frames[t] - 1
      local == IF seek.target < Offset[t] THEN 0
               ELSE IF seek.target - Offset[t] > last THEN last ELSE seek.target - Offset[t]
  IN  IF seek.type = "Exact" THEN local ELSE Biggest({k \in KeyFrames : k <= local})

(* Mutant: the decoders of a playing player stop after the preroll too.    *)
SeekTracksPaused(seek) ==
  [t \in Tracks |->
     [track[t] EXCEPT !.state = "Flushing", !.paused = TRUE, !.after = TRUE,
                      !.head = NextFrame(t), !.count = 0, !.goal = Landing(t, seek)]]

(* prepare_track_seek_transition and submit_track_seek_after_recreate.     *)
SeekTracks(seek) ==
  [t \in Tracks |->
     [track[t] EXCEPT !.state = "Flushing", !.paused = TRUE, !.after = ~playing,
                      !.head = NextFrame(t), !.count = 0, !.goal = Landing(t, seek)]]

(* The demuxer has sought and begin_seek_epoch opens the gate again.       *)
SeekLands(t) ==
  /\ track[t].state = "Flushing"
  /\ track' = [track EXCEPT ![t] = [@ EXCEPT !.state = "Buffering", !.paused = FALSE,
                                             !.head = track[t].goal]]
  /\ UNCHANGED <<transport, pacing, coord, loop, screen, rl, asked, agree, calls>>

MayDecode(t) ==
  /\ track[t].state # "Flushing" /\ ~track[t].paused
  /\ track[t].count < Depth /\ NextFrame(t) < Frames[t]

(* A frame is decoded; the first one completes the preroll.                *)
Decode(t) ==
  LET prerolled == track[t].state = "Buffering"
  IN  /\ MayDecode(t)
      /\ track' = [track EXCEPT ![t] =
                     [@ EXCEPT !.count = @ + 1, !.state = "Ready",
                               !.paused = prerolled /\ track[t].after]]
      /\ UNCHANGED <<transport, pacing, coord, loop, screen, rl, asked, agree, calls>>

(* Time passes.                                                            *)
Due(t) == track[t].count > 0 /\ track[t].head + Offset[t] <= clock.pts

Tick ==
  /\ ~clock.paused /\ clock.pts <= End
  /\ clock' = [clock EXCEPT !.pts = @ + 1]
  /\ agree' = (agree /\ Evaluation.do # "hold" /\ \A t \in Tracks : ~Due(t))
  /\ UNCHANGED <<playing, held, output, pacing, coord, loop, track, screen, rl, asked, calls>>

-----------------------------------------------------------------------------
(* SeekCoordinator.                                                        *)

(* should_defer_paused_hevc_seek: the first paused exact seek goes         *)
(* through, and until its preview has settled the others wait, the last    *)
(* replacing the one before.                                               *)
Defers(seek) == ~playing /\ HevcHw /\ seek.type = "Exact"
Waits == coord.inFlight \/ coord.settling

(* Mutant: the first of the seeks that wait is kept.                       *)
CoordKeepsFirst(seek) ==
  IF ~Defers(seek) \/ (Waits /\ coord.deferred # None) THEN coord
  ELSE IF Waits THEN [coord EXCEPT !.deferred = seek.target]
  ELSE [coord EXCEPT !.deferred = None, !.inFlight = TRUE]

CoordAfterSeek(seek) ==
  IF ~Defers(seek) THEN coord
  ELSE IF Waits THEN [coord EXCEPT !.deferred = seek.target]
  ELSE [coord EXCEPT !.deferred = None, !.inFlight = TRUE]

(* mark_paused_hevc_preview_drawn.                                         *)
CoordAfterPreview ==
  IF ~HevcHw \/ (~coord.inFlight /\ coord.settled) THEN coord
  ELSE IF coord.inFlight THEN [coord EXCEPT !.inFlight = FALSE, !.settling = TRUE]
  ELSE [coord EXCEPT !.settled = TRUE, !.settling = TRUE]

SettleOver ==
  /\ coord.settling
  /\ coord' = [coord EXCEPT !.settling = FALSE]
  /\ UNCHANGED <<transport, pacing, loop, track, screen, rl, asked, agree, calls>>

(* The preview did not come in time: the next seek need not wait for it.   *)
InFlightTimeout ==
  /\ coord.inFlight
  /\ coord' = [coord EXCEPT !.inFlight = FALSE]
  /\ UNCHANGED <<transport, pacing, loop, track, screen, rl, asked, agree, calls>>

-----------------------------------------------------------------------------
(* SeekCommandProcessor::seek.                                             *)

Clamped(target) == IF target > End THEN End ELSE target

ApplySeek(seek) ==
  /\ track' = SeekTracks(seek)
  /\ agree' = TRUE
  /\ preview' = [preview EXCEPT !.drawn = FALSE]
  /\ history' = Nothing /\ signature' = Nothing /\ pacing' = "Idle"

(* The clock moves even when the tracks are left for later.                *)
SeekCommand(seek, mayDefer) ==
  /\ clock' = [clock EXCEPT !.pts = seek.target]
  /\ coord' = IF mayDefer THEN CoordAfterSeek(seek) ELSE coord
  /\ IF mayDefer /\ Defers(seek) /\ Waits
       THEN UNCHANGED <<track, agree, screen, pacing>>
       ELSE ApplySeek(seek)

MidPass == rl.at \notin {"top", "pacing"}
Raced   == calls > MaxCalls

Calling ==
  /\ calls <= MaxCalls
  /\ calls' = IF MidPass THEN MaxCalls + 1 ELSE calls + 1
  /\ MidPass \/ calls < MaxCalls

(* Mutant: play starts the clock although pacing holds it.                 *)
StartClockHeld == output' = TRUE /\ clock' = [clock EXCEPT !.paused = FALSE]

(* PlaybackController::play.                                               *)
StartClock ==
  IF held THEN UNCHANGED <<output, clock>>
  ELSE output' = TRUE /\ clock' = [clock EXCEPT !.paused = FALSE]

Play ==
  /\ Calling /\ ~playing
  /\ coord' = Coord0
  /\ track' = PlaybackDecodeState(TRUE)
  /\ StartClock
  /\ playing' = TRUE /\ asked' = None
  /\ agree' = (agree /\ coord.deferred = None)   \* a deferred seek is forgotten
  /\ UNCHANGED <<held, pacing, loop, screen, rl>>

Pause ==
  /\ Calling
  /\ track' = PlaybackDecodeState(FALSE)
  /\ output' = FALSE /\ clock' = [clock EXCEPT !.paused = TRUE]
  /\ playing' = FALSE /\ asked' = None
  /\ UNCHANGED <<held, pacing, coord, loop, screen, rl, agree>>

Seek(target, type) ==
  /\ Calling
  /\ asked' = IF playing \/ type = "Keyframe" THEN None ELSE Clamped(target)
  /\ SeekCommand([target |-> Clamped(target), type |-> type], TRUE)
  /\ UNCHANGED <<playing, held, output, loop, rl>>

-----------------------------------------------------------------------------
(* The render loop.                                                        *)

Deferrable == ~playing /\ coord.deferred # None /\ ~Waits
LoopOver == playing /\ loop # NoLoop /\ ~clock.paused /\ clock.pts >= loop.end

(* apply_deferred_paused_hevc_seek_locked.                                 *)
RenderDeferredSeek ==
  /\ rl.at = "top" /\ Deferrable
  /\ clock' = [clock EXCEPT !.pts = coord.deferred]
  /\ ApplySeek([target |-> coord.deferred, type |-> "Exact"])
  /\ coord' = [coord EXCEPT !.deferred = None, !.inFlight = TRUE]
  /\ UNCHANGED <<playing, held, output, loop, rl, asked, calls>>

RenderLoopSeek ==
  /\ rl.at = "top" /\ ~Deferrable /\ LoopOver
  /\ SeekCommand([target |-> Clamped(loop.start), type |-> "Exact"], TRUE)
  /\ UNCHANGED <<playing, held, output, loop, rl, asked, calls>>

RenderTop ==
  /\ rl.at = "top" /\ ~Deferrable /\ ~LoopOver
  /\ rl' = [rl EXCEPT !.at = "pacing"]
  /\ UNCHANGED <<transport, pacing, coord, loop, track, screen, asked, agree, calls>>

RenderPacing ==
  /\ rl.at = "pacing"
  /\ pacing' = Evaluation.state
  /\ CASE Evaluation.do = "hold"   -> HoldForPacing /\ UNCHANGED <<track, preview>>
       [] Evaluation.do = "resume" -> /\ ReleaseHold
                                      /\ track' = SetDecodePaused(track, FALSE)
                                      /\ preview' = [preview EXCEPT !.drawn = FALSE]
       [] OTHER -> UNCHANGED <<held, output, clock, track, preview>>
  /\ rl' = [rl EXCEPT !.playing = playing,
                      !.at = IF playing /\ ~clock'.paused THEN "tick" ELSE "preview"]
  /\ UNCHANGED <<playing, coord, loop, history, signature, asked, agree, calls>>

Heads == [t \in Tracks |-> IF track[t].count > 0 THEN track[t].head ELSE None]

(* paused_cached_decision: what was presented, other tracks filled in from *)
(* their buffers; and paused_preview_snapshot: every track, or none.       *)
CachedDecision ==
  IF ~HasFrame(history) THEN Nothing
  ELSE [t \in Tracks |-> IF history[t] # None THEN history[t] ELSE Heads[t]]

PreviewDecision ==
  IF \A t \in Tracks : track[t].state = "Ready" /\ track[t].count > 0 THEN Heads ELSE Nothing

(* While paused or held, the frame on the screen is drawn if it is not.    *)
RenderPreview ==
  LET cached   == HasFrame(CachedDecision)
      decision == IF cached THEN CachedDecision ELSE PreviewDecision
      begins   == ~preview.drawn /\ ~preview.pending /\ HasFrame(decision)
  IN  /\ rl.at = "preview"
      /\ rl' = IF begins THEN [rl EXCEPT !.at = "presenting", !.decision = decision,
                                         !.kind = IF cached THEN "cached" ELSE "preview"]
               ELSE Loop0
      /\ preview' = IF begins THEN [preview EXCEPT !.pending = TRUE] ELSE preview
      /\ UNCHANGED <<transport, pacing, coord, loop, track, history, signature, asked, agree,
                     calls>>

(* finish_presented_draw.                                                  *)
RenderPresented ==
  /\ rl.at = "presenting"
  /\ preview' = [drawn |-> TRUE, pending |-> FALSE]
  /\ rl' = [rl EXCEPT !.at = "commit"]
  /\ UNCHANGED <<transport, pacing, coord, loop, track, history, signature, asked, agree,
                 calls>>

RenderCommitCached ==
  /\ rl.at = "commit" /\ rl.kind = "cached"
  /\ history' = rl.decision
  /\ rl' = Loop0
  /\ UNCHANGED <<transport, pacing, coord, loop, track, preview, signature, asked, agree,
                 calls>>

(* The snapshot taken at pacing decides, not what playing is by now.       *)
RenderCommitPreview ==
  /\ rl.at = "commit" /\ rl.kind = "preview"
  /\ history' = rl.decision
  /\ IF rl.playing
       THEN rl' = [rl EXCEPT !.at = "clock"] /\ UNCHANGED <<track, coord>>
       ELSE /\ track' = SetDecodePaused(track, TRUE)
            /\ coord' = CoordAfterPreview
            /\ rl' = Loop0
  /\ UNCHANGED <<transport, pacing, loop, preview, signature, asked, agree, calls>>

(* The clock of a held player goes to the previewed frame of the reference *)
(* track, by now without the lock.                                         *)
Reference == CHOOSE t \in Tracks : TRUE

RenderPreviewClock ==
  /\ rl.at = "clock"
  /\ clock' = [clock EXCEPT !.pts = rl.decision[Reference] + Offset[Reference]]
  /\ rl' = Loop0
  /\ UNCHANGED <<playing, held, output, pacing, coord, loop, track, screen, asked, agree,
                 calls>>

(* RenderSink::evaluate: the earliest due head, and the heads at its time. *)
DueHeads ==
  LET due   == {track[t].head + Offset[t] : t \in {u \in Tracks : Due(u)}}
      first == CHOOSE x \in due : \A y \in due : x <= y
  IN  IF due = {} THEN Nothing
      ELSE [t \in Tracks |->
              IF Due(t) /\ track[t].head + Offset[t] = first THEN track[t].head ELSE None]

CarriedForward(decision) ==
  [t \in Tracks |-> IF decision[t] = None /\ clock.pts >= Offset[t] THEN history[t]
                    ELSE decision[t]]

RenderTick ==
  /\ rl.at = "tick"
  /\ rl' = IF HasFrame(DueHeads) /\ DueHeads # signature
             THEN [rl EXCEPT !.at = "presenting", !.kind = "play",
                             !.decision = CarriedForward(DueHeads)]
             ELSE [rl EXCEPT !.at = "eof"]
  /\ UNCHANGED <<transport, pacing, coord, loop, track, screen, asked, agree, calls>>

(* commit_presented takes a frame from a buffer only if it is its head.    *)
RenderCommitPlay ==
  /\ rl.at = "commit" /\ rl.kind = "play"
  /\ track' = [t \in Tracks |->
                 IF track[t].count > 0 /\ track[t].head = rl.decision[t]
                 THEN [track[t] EXCEPT !.head = @ + 1, !.count = @ - 1] ELSE track[t]]
  /\ history' = rl.decision /\ signature' = rl.decision
  /\ rl' = [rl EXCEPT !.at = "eof"]
  /\ UNCHANGED <<transport, pacing, coord, loop, preview, asked, agree, calls>>

(* The boundary clamps the clock, and settle_eof_locked stops there.       *)
AtEnd   == Bounded /\ Boundary > 0 /\ clock.pts >= Boundary
Settles == playing /\ AtEnd

RenderEof ==
  /\ rl.at = "eof" /\ ~Settles
  /\ clock' = [clock EXCEPT !.pts = IF AtEnd THEN Boundary ELSE @]
  /\ rl' = Loop0
  /\ UNCHANGED <<playing, held, output, pacing, coord, loop, track, screen, asked, agree,
                 calls>>

RenderSettle ==
  /\ rl.at = "eof" /\ Settles
  /\ track' = SetDecodePaused(track, TRUE)
  /\ clock' = [pts |-> Boundary, paused |-> TRUE]
  /\ playing' = FALSE
  /\ preview' = [drawn |-> TRUE, pending |-> FALSE]
  /\ rl' = Loop0
  /\ UNCHANGED <<held, output, pacing, coord, loop, history, signature, asked, agree, calls>>

-----------------------------------------------------------------------------
Calls ==
  \/ Play \/ Pause
  \/ \E target \in Targets, type \in SeekTypes : Seek(target, type)

Render ==
  \/ RenderDeferredSeek \/ RenderLoopSeek \/ RenderTop \/ RenderPacing \/ RenderPreview
  \/ RenderPresented \/ RenderCommitCached \/ RenderCommitPreview \/ RenderPreviewClock
  \/ RenderTick \/ RenderCommitPlay \/ RenderEof \/ RenderSettle

Pipeline == \E t \in Tracks : SeekLands(t) \/ Decode(t)

Timers == Tick \/ SettleOver \/ InFlightTimeout

Next == Calls \/ Render \/ Pipeline \/ Timers

Spec == Init /\ [][Next]_vars

(* Threads run and time passes, that of the timeout included: it is over   *)
(* only if the preview stays out.                                          *)
FairSpec ==
  /\ Spec
  /\ WF_vars(Render) /\ WF_vars(Tick) /\ WF_vars(SettleOver)
  /\ WF_vars(InFlightTimeout)
  /\ \A t \in Tracks : WF_vars(SeekLands(t)) /\ WF_vars(Decode(t))

-----------------------------------------------------------------------------
(* Clock and audio output run together: both while playing and not held,   *)
(* whatever order plays, pauses, holds, seeks and the end come in; a       *)
(* paused player's clock stands still.                                     *)
OneTransport ==
  /\ playing => clock.paused = held /\ output = ~held
  /\ ~playing => clock.paused
  /\ held => ~output

(* Playback comes to its end: no hold of the pacing controller is for ever *)
(* and nothing waits for a frame that cannot come, unless it loops.        *)
PlaysOut == (playing /\ loop = NoLoop) ~> (~playing \/ Raced)

(* A looping player returns to the start of its range again and again.     *)
LoopComesRound == (playing /\ loop # NoLoop) ~> (~playing \/ clock.pts = loop.start \/ Raced)

Shown(target) == history = [t \in Tracks |-> Landing(t, [target |-> target, type |-> "Exact"])]

(* A paused player ends up showing the frame last asked for, whatever was  *)
(* on the screen, deferred, or being drawn when it was asked for.          *)
PausedShowsTarget == asked # None ~> (asked = None \/ Shown(asked) \/ Raced)

(* The end of the file stops a player only when the last frame of every    *)
(* track has been presented.                                               *)
EndShowsLastFrame ==
  [][RenderSettle /\ agree => history = [t \in Tracks |-> Frames[t] - 1]]_vars
=============================================================================

---------------------------- MODULE Presentation ----------------------------
(***************************************************************************)
(* Presentation on Windows once the first frame is up: the ring of targets *)
(* the renderer draws into, the interaction lanes of the runner and the    *)
(* render loop that draw at the same time, the compositor that shows a     *)
(* target, the queue that gives targets back, and the ring's replacement   *)
(* when the viewport changes its size.                                     *)
(*                                                                         *)
(* A target is <<generation of its ring, index>>.  A draw runs under the   *)
(* device mutex and is one step here, so InFlight is never seen; the       *)
(* runner never marks a target Displayed or Protected.  A picture is the   *)
(* revision of the layout it was drawn with.                               *)
(***************************************************************************)
EXTENDS Integers, Bags, FiniteSets

CONSTANTS Lanes,         (* threads_ of WindowsViewportPresentationController *)
          Loop,          (* the render loop's thread *)
          TargetCount,   (* targets of a ring *)
          Grace,         (* kRequiredSuccessfulComposites *)
          MaxCalls,      (* bound: layouts, plays, pauses, seeks and resizes *)
          MaxFrames,     (* bound: frames the loop finds due while it plays *)
          MaxFaults      (* bound: failed draws and composites, and waits given up *)

ASSUME PresentationAssumption ==
  /\ TargetCount \in Nat \ {0} /\ Grace \in Nat \ {0}
  /\ {MaxCalls, MaxFrames, MaxFaults} \subseteq Nat
  /\ Loop \notin Lanes

VARIABLES
  ring, slot,          (* the backend's target_ring_: its generation, its states *)
  error,               (* last_error_ says that the ring was full *)
  rev, pending,        (* layout revision_, and pending_revision_ or 0 *)
  redraw,              (* ~drawn_ of the preview state *)
  history,             (* present_history_ has a frame of every track *)
  playing,             (* playing, with the clock running *)
  backoff, hold,       (* the two deadlines of the metrics and of the interaction
                          presentation have not passed *)
  asked,               (* the layouts asked for so far: the newest's intent revision *)
  latest, submitted,   (* latest_intent_serial, submitted_intent_serial *)
  draw,                (* per drawing thread: where it is, and with what *)
  queue,               (* requests_ of the release queue, whose order is of no account *)
  api,                 (* where the platform thread's call is *)
  made, retired,       (* the compositor's video_targets_ and retired_video_targets_,
                          by generation *)
  grace,               (* successful_composites_remaining_, 0 when not armed *)
  shown, face,         (* video_target_, and the picture it holds *)
  signal, composite,   (* a composite is due, the one under way *)
  screen,              (* the picture of the last composite that was presented *)
  calls, faults, frames, (* history: bounds *)
  handed,              (* history: revision and ring of the last draw that was not stale *)
  gaveUp,              (* history: the newest intent was answered with a failure *)
  crossed,             (* history: a draw into a replaced ring ended as the preview *)
  overtaken,           (* history: the last picture published was not the newest *)
  abandoned            (* history: the last composite failed, and no draw waited for it *)

ringVars == <<ring, slot, error>>
layoutVars == <<rev, pending, redraw, history, playing>>
timerVars == <<backoff, hold>>
intentVars == <<asked, latest, submitted, api>>
compositorVars == <<made, retired, grace, shown, face, signal, composite, screen>>
ghosts == <<handed, gaveUp, crossed, overtaken, abandoned>>
bounds == <<calls, faults, frames>>

vars == <<ringVars, layoutVars, timerVars, intentVars, compositorVars, ghosts, bounds,
          draw, queue>>

Threads == Lanes \cup {Loop}
Indices == 1 .. TargetCount
NoTarget == <<0, 0>>
Torn == MaxCalls + 1  (* a picture left unfinished *)

Idle == [pc |-> "idle", rev |-> 0, target |-> NoTarget, serial |-> 0,
         play |-> FALSE]
NoComposite == [busy |-> FALSE, picture |-> 0, counts |-> FALSE]

At(t, pc) == draw[t].pc = pc
Goes(t, pc) == draw' = [draw EXCEPT ![t].pc = pc]
Ends(t) == draw' = [draw EXCEPT ![t] = Idle]
AllAvailable == [i \in Indices |-> "Available"]

-----------------------------------------------------------------------------
(* The target ring.                                                        *)

Available == {i \in Indices : slot[i] = "Available"}
FirstAvailable == CHOOSE i \in Available : \A j \in Available : i <= j

(* WindowsD3D11TargetRing::release: the state a slot is left in.           *)
ReleasedState(s) == IF s = "Completed" THEN "Available" ELSE s

(* Mutant: by its index alone, in whatever ring. *)
ReleasedIndex(target) == [slot EXCEPT ![target[2]] = ReleasedState(@)]

(* The ring after a target is given back: one of a replaced ring is a miss. *)
Released(target) ==
  IF target[1] = ring THEN [slot EXCEPT ![target[2]] = ReleasedState(@)] ELSE slot

-----------------------------------------------------------------------------
(* A draw, by a lane or the render loop.                                   *)

(* consume_pending_layout_locked: the lane that holds the presentation     *)
(* draws the layout, else the preview has to.                              *)
ConsumePendingLayout ==
  /\ pending' = 0
  /\ rev' = IF pending > rev THEN pending ELSE rev
  /\ redraw' = (redraw \/ (pending > rev /\ ~hold))

(* The snapshot of redraw_layout and of present_frame; a lane without a    *)
(* complete decision is not ready.                                         *)
TakeSnapshot(t) ==
  /\ At(t, "snapshot")
  /\ ConsumePendingLayout
  /\ draw' = IF t \in Lanes /\ ~history THEN [draw EXCEPT ![t].pc = "notready"]
             ELSE [draw EXCEPT ![t].pc = "draw", ![t].rev = rev']
  /\ UNCHANGED <<ringVars, history, playing, timerVars, intentVars, compositorVars,
                 ghosts, bounds, queue>>

DrawInto(t) ==
  LET target == <<ring, FirstAvailable>> IN
  /\ At(t, "draw") /\ Available # {}
  /\ slot' = [slot EXCEPT ![FirstAvailable] = "Completed"]
  /\ error' = FALSE
  /\ face' = IF target = shown THEN draw[t].rev ELSE face
  /\ draw' = [draw EXCEPT ![t].pc = "drawn", ![t].target = target]
  /\ UNCHANGED <<ring, layoutVars, timerVars, intentVars, made, retired, grace, shown,
                 signal, composite, screen, ghosts, bounds, queue>>

(* finish_presented_draw of a draw that failed: the loop keeps a preview   *)
(* whatever became of it, a played frame only if it was drawn.             *)
NotDrawn(t) ==
  /\ draw' = [draw EXCEPT ![t] = IF t = Loop THEN Idle
                                 ELSE [Idle EXCEPT !.pc = "refused", !.serial = draw[t].serial]]
  /\ history' = (history \/ (t = Loop /\ ~draw[t].play))

DrawBusy(t) ==
  /\ At(t, "draw") /\ Available = {}
  /\ error' = TRUE /\ backoff' = TRUE
  /\ NotDrawn(t)
  /\ UNCHANGED <<ring, slot, rev, pending, redraw, playing, hold, intentVars,
                 compositorVars, ghosts, bounds, queue>>

(* The view cannot be made, the draw fails, or its completion times out:   *)
(* the slot is available again, with what was drawn so far.                *)
DrawFails(t) ==
  /\ At(t, "draw") /\ Available # {} /\ faults < MaxFaults
  /\ faults' = faults + 1
  /\ error' = FALSE
  /\ face' \in (IF <<ring, FirstAvailable>> = shown THEN {face, Torn} ELSE {face})
  /\ NotDrawn(t)
  /\ UNCHANGED <<ring, slot, rev, pending, redraw, playing, timerVars, intentVars, made,
                 retired, grace, shown, signal, composite, screen, ghosts, calls, frames,
                 queue>>

(* Mutant: a stale draw counts as the preview. *)
StillDrawn(t) == FALSE

(* commit_presented_draw: is the layout newer than the one drawn?          *)
StaleLayout(t) == draw[t].rev # rev

(* The draw is over: what the loop drew is the history from now on.        *)
Returns(t) == Ends(t) /\ history' = (history \/ t = Loop)

(* finish_presented_draw of a draw that succeeded, and is of the layout.   *)
FinishDrawn(t) ==
  /\ At(t, "drawn") /\ ~StaleLayout(t)
  /\ redraw' = FALSE
  /\ draw' = [draw EXCEPT ![t] =
               [Idle EXCEPT !.pc = "publish", !.rev = draw[t].rev, !.target = draw[t].target]]
  /\ handed' = [rev |-> draw[t].rev, ring |-> draw[t].target[1]]
  /\ crossed' = (crossed \/ (draw[t].target[1] # ring /\ api # "force"))
  /\ UNCHANGED <<ringVars, rev, pending, history, playing, timerVars, intentVars,
                 compositorVars, gaveUp, overtaken, abandoned, bounds, queue>>

(* Mutant: a stale target is dropped. *)
Forget(t) == slot

(* release_discarded_target                                                *)
SlotsAfterDiscard(t) == Released(draw[t].target)

(* finish_presented_draw of one of an older layout: the preview is due.    *)
FinishStale(t) ==
  /\ At(t, "drawn") /\ StaleLayout(t)
  /\ redraw' = TRUE
  /\ slot' = SlotsAfterDiscard(t)
  /\ Returns(t)
  /\ UNCHANGED <<ring, error, rev, pending, playing, timerVars, intentVars,
                 compositorVars, ghosts, bounds, queue>>

-----------------------------------------------------------------------------
(* The frame callback: OnFrameAvailable shows the target and gives it back. *)

Known(target) == target[1] = made \/ target[1] \in retired \/ target = shown

(* PresentVideoTarget, up to the wait                                      *)
Publish(t) ==
  LET target == draw[t].target IN
  /\ At(t, "publish") /\ Known(target)
  /\ shown' = target /\ face' = draw[t].rev
  /\ overtaken' = (draw[t].rev < handed.rev)
  /\ grace' = IF retired # {} /\ target[1] = made /\ grace = 0 THEN Grace ELSE grace
  /\ signal' = TRUE
  /\ draw' = [draw EXCEPT ![t] = [Idle EXCEPT !.pc = "wait", !.target = target]]
  /\ UNCHANGED <<ringVars, layoutVars, timerVars, intentVars, made, retired, composite,
                 screen, handed, gaveUp, crossed, abandoned, bounds, queue>>

(* A target of a ring the compositor has let go of.                        *)
Rejected(t) ==
  /\ At(t, "publish") /\ ~Known(draw[t].target)
  /\ overtaken' = TRUE
  /\ queue' = queue (+) SetToBag({draw[t].target})
  /\ Returns(t)
  /\ UNCHANGED <<ringVars, rev, pending, redraw, playing, timerVars, intentVars,
                 compositorVars, handed, gaveUp, crossed, abandoned, bounds>>

WaitTimesOut(t) ==
  /\ draw[t].pc \in {"wait", "sampled"} /\ faults < MaxFaults
  /\ faults' = faults + 1
  /\ signal' = TRUE
  /\ queue' = queue (+) SetToBag({draw[t].target})
  /\ Returns(t)
  /\ UNCHANGED <<ringVars, rev, pending, redraw, playing, timerVars, intentVars, made,
                 retired, grace, shown, face, composite, screen, ghosts, calls, frames>>

(* WindowsTargetReleaseQueue::Run                                          *)
ReleaseNext ==
  \E target \in BagToSet(queue) :
    /\ slot' = Released(target)
    /\ queue' = queue (-) SetToBag({target})
    /\ UNCHANGED <<ring, error, layoutVars, timerVars, intentVars, compositorVars,
                   ghosts, bounds, draw>>

-----------------------------------------------------------------------------
(* WindowsViewportPresentationController::Run                              *)

(* The latest intent, and request_interaction_frame up to redraw_layout's  *)
(* look at the backoff.                                                    *)
LaneRequests(l) ==
  /\ At(l, "idle") /\ latest > submitted
  /\ submitted' = latest
  /\ hold' = TRUE
  /\ draw' = [draw EXCEPT ![l].pc = IF backoff THEN "refused" ELSE "snapshot",
                          ![l].serial = latest]
  /\ UNCHANGED <<ringVars, layoutVars, backoff, bounds, asked, latest, api,
                 compositorVars, ghosts, queue>>

(* A refused lane looks at presentation_error() to tell whether to retry.  *)
LaneGivesUp(l) ==
  /\ At(l, "refused") /\ ~error
  /\ gaveUp' = (gaveUp \/ draw[l].serial = latest)
  /\ Ends(l)
  /\ UNCHANGED <<ringVars, layoutVars, timerVars, intentVars, compositorVars, handed,
                 crossed, overtaken, abandoned, bounds, queue>>

(* Mutant: the intent counts as submitted. *)
NotTakenBack(l) == submitted

(* The intent is taken back, unless there is a newer one.                  *)
TakenBack(l) == IF latest = draw[l].serial /\ submitted = draw[l].serial
                THEN draw[l].serial - 1 ELSE submitted

LaneRetries(l) ==
  /\ At(l, "notready") \/ (At(l, "refused") /\ error)
  /\ submitted' = TakenBack(l)
  /\ Ends(l)
  /\ UNCHANGED <<ringVars, layoutVars, timerVars, asked, latest, api, compositorVars,
                 ghosts, bounds, queue>>

-----------------------------------------------------------------------------
(* The render loop.                                                        *)

(* Playing: a new frame is due.  A lane that holds the presentation shows  *)
(* it, else the loop presents it.                                          *)
LoopTicks ==
  /\ At(Loop, "idle") /\ playing /\ ~backoff
  /\ frames < MaxFrames /\ frames' = frames + 1
  /\ IF hold THEN history' = TRUE /\ UNCHANGED draw
             ELSE /\ draw' = [draw EXCEPT ![Loop].pc = "snapshot", ![Loop].play = TRUE]
                  /\ UNCHANGED history
  /\ UNCHANGED <<ringVars, rev, pending, redraw, playing, timerVars, intentVars,
                 compositorVars, ghosts, calls, faults, queue>>

(* Paused: not in the backoff, and not while a lane holds the presentation. *)
LoopLooks ==
  /\ At(Loop, "idle") /\ ~playing /\ ~backoff /\ ~hold
  /\ redraw \/ pending > 0
  /\ Goes(Loop, "begin")
  /\ UNCHANGED <<ringVars, layoutVars, timerVars, intentVars, compositorVars, ghosts,
                 bounds, queue>>

(* begin_preview, and the cached frame, or the decoded one once it is      *)
(* complete.                                                               *)
LoopBegins ==
  /\ At(Loop, "begin")
  /\ ConsumePendingLayout
  /\ \/ redraw' /\ Goes(Loop, "snapshot")
     \/ ~(redraw' /\ history) /\ Goes(Loop, "idle")
  /\ UNCHANGED <<ringVars, history, playing, timerVars, intentVars, compositorVars,
                 ghosts, bounds, queue>>

-----------------------------------------------------------------------------
(* The platform thread.                                                    *)

Calls == api = "idle" /\ calls < MaxCalls /\ calls' = calls + 1

(* applyLayout: apply_interaction_layout, then RequestLayoutFrame.         *)
ApplyLayout ==
  /\ Calls
  /\ asked' = asked + 1
  /\ IF playing THEN pending' = asked' /\ UNCHANGED rev
                ELSE pending' = 0 /\ rev' = asked'
  /\ api' = "request"
  /\ UNCHANGED <<ringVars, redraw, history, playing, timerVars, latest, submitted,
                 compositorVars, ghosts, faults, frames, draw, queue>>

RequestLayoutFrame ==
  /\ api = "request"
  /\ latest' = latest + 1
  /\ gaveUp' = FALSE
  /\ api' = "idle"
  /\ UNCHANGED <<ringVars, layoutVars, timerVars, asked, submitted, compositorVars,
                 handed, crossed, overtaken, abandoned, bounds, draw, queue>>

Pause ==
  /\ Calls /\ playing /\ playing' = FALSE
  /\ UNCHANGED <<ringVars, rev, pending, redraw, history, timerVars, intentVars,
                 compositorVars, ghosts, faults, frames, draw, queue>>

(* play, and pacing has let the clock run                                  *)
Play ==
  /\ Calls /\ ~playing /\ playing' = TRUE /\ redraw' = TRUE
  /\ UNCHANGED <<ringVars, rev, pending, history, timerVars, intentVars, compositorVars,
                 ghosts, faults, frames, draw, queue>>

Seek ==
  /\ Calls /\ history' = FALSE /\ redraw' = TRUE
  /\ UNCHANGED <<ringVars, rev, pending, playing, timerVars, intentVars, compositorVars,
                 ghosts, faults, frames, draw, queue>>

(* ResizeVideoTargets: CreateVideoTargetRing, then install_target_ring.    *)
CreateVideoTargetRing ==
  /\ Calls
  /\ made' = made + 1
  /\ retired' = retired \cup {made}
  /\ grace' = 0 /\ composite' = [composite EXCEPT !.counts = FALSE]
  /\ api' = "install"
  /\ UNCHANGED <<ringVars, layoutVars, timerVars, asked, latest, submitted, shown, face,
                 signal, screen, ghosts, faults, frames, draw, queue>>

InstallRing ==
  /\ api = "install"
  /\ ring' = made /\ slot' = AllAvailable
  /\ api' = "force"
  /\ UNCHANGED <<error, layoutVars, timerVars, asked, latest, submitted, compositorVars,
                 ghosts, bounds, draw, queue>>

(* Mutant: the preview of before will do. *)
NoForce == redraw

(* force_preview_redraw                                                    *)
Forced == TRUE

ForcePreviewRedraw ==
  /\ api = "force"
  /\ redraw' = Forced
  /\ api' = "idle"
  /\ UNCHANGED <<ringVars, rev, pending, history, playing, timerVars, asked, latest,
                 submitted, compositorVars, ghosts, bounds, draw, queue>>

-----------------------------------------------------------------------------
(* The compositor's thread; that Flutter's frames wake it too is left out. *)

CompositeSamples ==
  /\ signal /\ ~composite.busy
  /\ signal' = FALSE
  /\ composite' = [busy |-> TRUE, picture |-> face, counts |-> grace > 0]
  /\ draw' = [t \in Threads |-> IF At(t, "wait") THEN [draw[t] EXCEPT !.pc = "sampled"]
                                ELSE draw[t]]
  /\ UNCHANGED <<ringVars, layoutVars, timerVars, intentVars, made, retired, grace, shown,
                 face, screen, ghosts, bounds, queue>>

(* CompleteVideoPresentation: the waits for a target this composite covers *)
(* end, and their targets go to the release queue.                         *)
Completes ==
  LET answered == {t \in Threads : At(t, "sampled")} IN
  /\ composite.busy /\ composite' = NoComposite
  /\ draw' = [t \in Threads |-> IF t \in answered THEN Idle ELSE draw[t]]
  /\ queue' = queue (+) SetToBag({draw[t].target : t \in answered})
  /\ history' = (history \/ Loop \in answered)

(* The retired rings are let go of after so many composites.               *)
CompositePresents ==
  LET last == composite.counts /\ grace = 1 IN
  /\ Completes
  /\ screen' = composite.picture
  /\ grace' = IF composite.counts /\ grace > 0 THEN grace - 1 ELSE grace
  /\ retired' = IF last THEN {} ELSE retired
  /\ abandoned' = FALSE
  /\ UNCHANGED <<ringVars, rev, pending, redraw, playing, timerVars, intentVars, made,
                 shown, face, signal, handed, gaveUp, crossed, overtaken, bounds>>

(* Mutant: the next target will do. *)
NoRetry == signal

(* PresentVideoTarget schedules another composite for a wait that failed.  *)
Awaited == \E t \in Threads : At(t, "sampled")
Retry == signal \/ Awaited

CompositeFails ==
  /\ Completes
  /\ faults < MaxFaults /\ faults' = faults + 1
  /\ signal' = Retry
  /\ abandoned' = ~Awaited
  /\ UNCHANGED <<ringVars, rev, pending, redraw, playing, timerVars, intentVars, made,
                 retired, grace, shown, face, screen, handed, gaveUp, crossed, overtaken,
                 calls, frames>>

HoldExpires ==
  /\ hold /\ hold' = FALSE
  /\ UNCHANGED <<ringVars, layoutVars, backoff, intentVars, compositorVars, ghosts, bounds,
                 draw, queue>>

BackoffExpires ==
  /\ backoff /\ backoff' = FALSE
  /\ UNCHANGED <<ringVars, layoutVars, hold, intentVars, compositorVars, ghosts, bounds,
                 draw, queue>>

-----------------------------------------------------------------------------
Init ==
  /\ ring = 1 /\ slot = AllAvailable /\ error = FALSE
  /\ rev = 0 /\ pending = 0 /\ redraw = FALSE /\ history = TRUE
  /\ playing = FALSE
  /\ backoff = FALSE /\ hold = FALSE
  /\ asked = 0 /\ latest = 0 /\ submitted = 0 /\ api = "idle"
  /\ draw = [t \in Threads |-> Idle] /\ queue = EmptyBag
  /\ made = 1 /\ retired = {} /\ grace = 0
  /\ shown = <<1, 1>> /\ face = 0 /\ screen = 0
  /\ signal = FALSE /\ composite = NoComposite
  /\ calls = 0 /\ faults = 0 /\ frames = 0
  /\ handed = [rev |-> 0, ring |-> 1]
  /\ gaveUp = FALSE /\ crossed = FALSE /\ overtaken = FALSE /\ abandoned = FALSE

Drawing(t) ==
  \/ TakeSnapshot(t) \/ DrawBusy(t) \/ DrawInto(t) \/ DrawFails(t)
  \/ FinishDrawn(t) \/ FinishStale(t)
  \/ Publish(t) \/ Rejected(t) \/ WaitTimesOut(t)

Lane(l) == LaneRequests(l) \/ LaneGivesUp(l) \/ LaneRetries(l)

RenderLoop == LoopTicks \/ LoopLooks \/ LoopBegins

Platform ==
  \/ ApplyLayout \/ RequestLayoutFrame \/ Pause \/ Play \/ Seek
  \/ CreateVideoTargetRing \/ InstallRing \/ ForcePreviewRedraw

Compositor == CompositeSamples \/ CompositePresents \/ CompositeFails

Next ==
  \/ \E t \in Threads : Drawing(t)
  \/ \E l \in Lanes : Lane(l)
  \/ RenderLoop \/ Platform \/ Compositor \/ ReleaseNext
  \/ HoldExpires \/ BackoffExpires

Spec == Init /\ [][Next]_vars

-----------------------------------------------------------------------------
(* Paused, and nobody has anything left to do.                             *)
AtRest ==
  /\ ~playing /\ ~redraw /\ pending = 0
  /\ \A t \in Threads : At(t, "idle")
  /\ latest = submitted /\ api = "idle" /\ queue = EmptyBag
  /\ ~signal /\ ~composite.busy

Holders(target) == {t \in Threads : draw[t].target = target}
Copies(target) == IF BagIn(target, queue) THEN queue[target] ELSE 0

(* A target that is taken out of the installed ring is in one pair of      *)
(* hands, and one that is available in none: a draw that is stale, comes   *)
(* too late for its ring, is rejected or times out gives its target back   *)
(* once, and never that of a draw after it.                                *)
OneHolder ==
  \A i \in Indices :
    Cardinality(Holders(<<ring, i>>)) + Copies(<<ring, i>>) =
      IF slot[i] = "Available" THEN 0 ELSE 1

(* At rest the newest layout has been drawn, and into the ring that is     *)
(* installed, although intents are dropped, retried, refused by a full     *)
(* ring, left to the loop while it plays or overtaken while they draw:     *)
(* unless its lane was told of a failure, or a draw into the ring of       *)
(* before passed for the redraw of the new one.                            *)
LatestLayoutDrawn ==
  AtRest /\ ~gaveUp => /\ handed.rev = asked
                       /\ crossed \/ handed.ring = made

(* And at rest it is on the screen, unless the picture published last was  *)
(* not the newest, or came too late for the compositor, or the last        *)
(* composite failed with no draw left that waited for it                   *)
(* (windows_native_compositor.cpp:382 has only those ask for another).     *)
NewestLayoutShown ==
  AtRest /\ ~gaveUp /\ ~overtaken /\ ~abandoned /\ face # Torn => screen = asked

=============================================================================

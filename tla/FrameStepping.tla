--------------------------- MODULE FrameStepping ---------------------------
(***************************************************************************)
(* Renderer::step_forward and step_backward over several tracks: the fair  *)
(* choice of the next composition, the wait for frames still to be         *)
(* decoded, the exact seek when they do not come, the reconstruction of    *)
(* predecessors the buffers no longer hold, and the render loop that       *)
(* previews and presents beside them.                                      *)
(* A step holds lifecycle_mutex_ to its end, so that no other call comes   *)
(* between, but state_mutex_ only section by section; each section is an   *)
(* action.  A frame is its number in its track.                            *)
(***************************************************************************)
EXTENDS Integers, Sequences, FiniteSets

CONSTANTS
  Tracks,        \* occupied slots
  Pts,           \* per track the pts_us of its frames, in units of a millisecond
  Duration,      \* per track the duration_us of a frame
  Offset,        \* per track offset_us
  Depth,         \* TrackBuffer::max_count
  Targets,       \* seeks the user may ask for
  MaxSeeks,      \* bound: seeks after the first
  None           \* no frame, no time: a number no frame has

ASSUME SteppingAssumption ==
  /\ Tracks \subseteq Nat /\ IsFiniteSet(Tracks) /\ Tracks # {}
  /\ \A t \in Tracks :
       /\ Pts[t] \in Seq(Nat) \ {<<>>} /\ Duration[t] \in Nat \ {0} /\ Offset[t] \in Nat
       /\ \A f, g \in DOMAIN Pts[t] : f < g => Pts[t][f] < Pts[t][g]
  /\ Depth \in Nat \ {0} /\ Targets \subseteq Nat /\ MaxSeeks \in Nat
  /\ None \notin Nat

VARIABLES
  playing,       \* the timeline plays
  clock,         \* where the clock is
  track,         \* per track: state, the TrackBuffer, its decoder, the seek under way
  history,       \* RendererPresentHistory: the frame of each track
  preview,       \* RendererPreviewState: drawn, pending
  anchor,        \* step_forward_exact_seek_anchor_us_
  step,          \* the step under way: where it is and its locals
  rl,            \* the render loop: what it presents
  screen,        \* what was presented last
  late,          \* history: since the last seek the render loop was presenting when a
                 \* step looked or showed, or a step began before every track was
  blind,         \* history: since then a step was chosen without the next frame of a
                 \* track, or ended in an exact seek
  seeks          \* bound

renderer == <<history, preview, screen, rl>>
vars == <<playing, clock, track, anchor, step, late, blind, seeks, renderer>>

Lowest(S)  == CHOOSE x \in S : \A y \in S : x <= y
Highest(S) == CHOOSE x \in S : \A y \in S : x >= y
Lesser(x, y) == IF x < y THEN x ELSE y
Greater(x, y) == IF x > y THEN x ELSE y

Nothing == [t \in Tracks |-> None]
LastFrame(t) == Len(Pts[t])
Global(t, f) == Pts[t][f] + Offset[t]
End == Highest({Global(t, LastFrame(t)) + Duration[t] : t \in Tracks})

(* first_active_slot                                                       *)
Reference == Lowest(Tracks)

Idle == [at |-> "idle", decision |-> Nothing, kind |-> "none"]
NoStep == [at |-> "none", kind |-> "none", from |-> Nothing, decision |-> Nothing,
           kept |-> Nothing, clock |-> 0, target |-> 0, decode |-> 0]

-----------------------------------------------------------------------------
(* A track: its buffer and what a seek does to it.                         *)

Buffered(t) == track[t].head .. track[t].head + track[t].count - 1
First(t) == IF track[t].count > 0 THEN track[t].head ELSE None

(* What peek reaches: nothing at all in an empty ring.                     *)
Reachable(t) ==
  IF track[t].count = 0 THEN {}
  ELSE track[t].head - track[t].back .. track[t].head + track[t].count - 1

(* TrackBuffer::advance until the head is not before a time, as in         *)
(* discard_step_forward_consumed_frames, and retreat until it is not after *)
(* a frame; one frame is kept behind the cursor.                           *)
AdvancedTo(b, t, time) ==
  LET passed == {f \in b.head .. b.head + b.count - 1 : Pts[t][f] < time}
      n      == Cardinality(passed)
  IN  IF n = 0 THEN b ELSE [b EXCEPT !.head = @ + n, !.count = @ - n, !.back = 1]

RetreatedTo(b, f) ==
  IF b.count > 0 /\ b.head > f /\ b.back = 1
  THEN [b EXCEPT !.head = @ - 1, !.count = @ + 1, !.back = 0] ELSE b

(* The frame an exact seek shows; a step forward prefers one after.        *)
Landing(t, goal) ==
  LET local  == Greater(0, goal.target - Offset[t])
      before == {f \in DOMAIN Pts[t] : Pts[t][f] <= local}
      after  == {f \in DOMAIN Pts[t] : Pts[t][f] >= local}
  IN  IF goal.after /\ after # {} THEN Lowest(after)
      ELSE IF before # {} THEN Highest(before) ELSE 1

Sought(target, after) ==
  [state |-> "Flushing", head |-> 1, count |-> 0, back |-> 0, paused |-> TRUE,
   goal |-> [target |-> target, after |-> after]]

NoGoal == [target |-> 0, after |-> FALSE]

SetDecodePaused(tracks, paused) == [t \in Tracks |-> [tracks[t] EXCEPT !.paused = paused]]

Init ==
  \E target \in Targets :
    /\ playing \in BOOLEAN
    /\ clock = target
    /\ track = [t \in Tracks |-> Sought(target, FALSE)]
    /\ history = Nothing /\ screen = Nothing
    /\ preview = [drawn |-> FALSE, pending |-> FALSE]
    /\ anchor = None /\ step = NoStep /\ rl = Idle /\ seeks = 0
    /\ late = FALSE /\ blind = FALSE

byTracks == <<playing, clock, anchor, step, late, blind, seeks, renderer>>

(* begin_seek_epoch opens the gate.                                        *)
SeekBegins(t) ==
  /\ track[t].state = "Flushing"
  /\ track' = [track EXCEPT ![t].state = "Buffering", ![t].paused = FALSE]
  /\ UNCHANGED byTracks

(* The window of the seek is published, with a frame behind the cursor if  *)
(* there is room; how many follow depends on the codec.                    *)
SeekLands(t) ==
  LET first == Landing(t, track[t].goal)
      back  == IF first > 1 /\ Depth > 1 THEN 1 ELSE 0
      most  == Lesser(Lesser(4, Depth - back), LastFrame(t) - first + 1)
  IN  /\ track[t].state = "Buffering" /\ ~track[t].paused
      /\ \E count \in 1 .. most :
           track' = [track EXCEPT ![t] = [state |-> "Ready", head |-> first, back |-> back,
                       count |-> count, paused |-> ~playing, goal |-> NoGoal]]
      /\ UNCHANGED byTracks

Decode(t) ==
  /\ track[t].state = "Ready" /\ ~track[t].paused
  /\ track[t].count < Depth /\ track[t].head + track[t].count <= LastFrame(t)
  /\ track' = [track EXCEPT ![t].count = @ + 1]
  /\ UNCHANGED byTracks

(* SeekCommandProcessor::seek, when it is not deferred.                    *)
ApplySeek(targets, after) ==
  /\ track' = [t \in Tracks |-> Sought(targets[t], after)]
  /\ history' = Nothing
  /\ preview' = [preview EXCEPT !.drawn = FALSE]
  /\ UNCHANGED <<screen, rl>>

-----------------------------------------------------------------------------
(* The fair choice of a step forward: build_step_forward_decision_result.  *)

(* compute_min_current_frame_duration_us                                   *)
FrameDuration ==
  LET known == {Duration[t] : t \in {u \in Tracks : track[u].count > 0}}
  IN  IF known = {} \/ Lowest(known) > 100 THEN 33 ELSE Lowest(known)

MaxStepGap == FrameDuration + FrameDuration \div 2 + 2

(* Mutant: a step starts from the head of the buffer.                      *)
ShownIsHead(t) == First(t)

(* The frame a step starts from: of the history, else the head.            *)
Shown(t) == IF history[t] # None THEN history[t] ELSE First(t)
ShownPts(t) == IF Shown(t) = None THEN clock - Offset[t] ELSE Pts[t][Shown(t)]

Following(t) == {f \in Buffered(t) : Pts[t][f] > ShownPts(t)}
NextOf(t) == IF Following(t) = {} THEN None ELSE Lowest(Following(t))
AfterNext(t) ==
  LET rest == Following(t) \ {NextOf(t)} IN IF rest = {} THEN None ELSE Lowest(rest)

Reached(t, c) == NextOf(t) # None /\ c >= Global(t, NextOf(t))

(* Without a frame beyond the next one only the next itself proves that    *)
(* nothing is skipped.                                                     *)
LacksLookahead(t, c) ==
  /\ Reached(t, c) /\ Pts[t][NextOf(t)] - ShownPts(t) <= MaxStepGap
  /\ AfterNext(t) = None /\ c > Global(t, NextOf(t))

(* Mutant: what may follow the next frame is not asked.                    *)
AllowedUnseen(t, c) ==
  Reached(t, c) =>
    /\ Pts[t][NextOf(t)] - ShownPts(t) <= MaxStepGap
    /\ AfterNext(t) # None => c < Global(t, AfterNext(t))

Allowed(t, c) ==
  Reached(t, c) =>
    /\ Pts[t][NextOf(t)] - ShownPts(t) <= MaxStepGap
    /\ IF AfterNext(t) # None THEN c < Global(t, AfterNext(t)) ELSE c = Global(t, NextOf(t))

StepsAt(c) == {t \in Tracks : Reached(t, c)}

(* The most tracks that step, then the earliest time.                      *)
ForwardChoice ==
  LET candidates == {Global(t, NextOf(t)) : t \in {u \in Tracks : NextOf(u) # None}}
      valid      == {c \in candidates : \A t \in Tracks : Allowed(t, c)}
      most       == Highest({Cardinality(StepsAt(c)) : c \in valid})
      target     == Lowest({c \in valid : Cardinality(StepsAt(c)) = most})
      frames     == [t \in Tracks |-> IF Reached(t, target) THEN NextOf(t) ELSE Shown(t)]
      blocked(c) == LET bad == {t \in Tracks : ~Allowed(t, c)}
                    IN  bad # {} /\ LacksLookahead(Lowest(bad), c)
  IN  IF valid = {} \/ \E t \in Tracks : frames[t] = None
      THEN [found |-> FALSE, complete |-> FALSE, target |-> 0, frames |-> Nothing]
      ELSE [found |-> TRUE, complete |-> \A c \in candidates : ~blocked(c),
            target |-> target, frames |-> frames]

(* discard_step_forward_consumed_frames                                    *)
Discarded(tracks, frames) ==
  [t \in Tracks |->
     AdvancedTo(tracks[t], t, IF frames[t] # None THEN Pts[t][frames[t]]
                              ELSE IF history[t] # None THEN Pts[t][history[t]]
                              ELSE clock - Offset[t])]

-----------------------------------------------------------------------------
(* The fair choice of a step backward: build_step_backward_decision.       *)

(* Mutant: the earliest frame the buffer still has.                        *)
EarliestBefore(t, f) ==
  LET earlier == {g \in Reachable(t) : g < f}
  IN  IF earlier = {} THEN None ELSE Lowest(earlier)

Before(t, f) ==
  LET earlier == {g \in Reachable(t) : g < f}
  IN  IF earlier = {} THEN None ELSE Highest(earlier)

(* Mutant: how far the predecessors of the others reach is not asked.      *)
NotFurtherThanOwn(t, f, c) == c < Global(t, f) => Before(t, f) # None

NotFurtherThan(t, f, c) ==
  c < Global(t, f) => Before(t, f) # None /\ c >= Global(t, Before(t, f))

BackwardChoice(composition) ==
  LET now == [t \in Tracks |-> IF composition[t] # None THEN composition[t] ELSE First(t)]
      candidates == {Global(t, Before(t, now[t])) :
                       t \in {u \in Tracks : Before(u, now[u]) # None}}
      valid    == {c \in candidates : \A t \in Tracks : NotFurtherThan(t, now[t], c)}
      moved(c) == Cardinality({t \in Tracks : c < Global(t, now[t])})
      most     == Highest({moved(c) : c \in valid})
      target   == Highest({c \in valid : moved(c) = most})
  IN  IF (\E t \in Tracks : now[t] = None) \/ valid = {}
      THEN [found |-> FALSE, target |-> 0, frames |-> Nothing]
      ELSE [found |-> TRUE, target |-> target,
            frames |-> [t \in Tracks |-> IF target < Global(t, now[t])
                                         THEN Before(t, now[t]) ELSE now[t]]]

-----------------------------------------------------------------------------
(* A call comes when no other is under way.  Bound: after a step that is   *)
(* late the user seeks before the next.                                    *)

HasBuffering == \E t \in Tracks : track[t].state = "Buffering"

(* The render loop presents meanwhile, or has yet to show every track;     *)
(* a track's next frame is not there.                                      *)
Begins == late' = (late \/ rl.at # "idle" \/ \E t \in Tracks : history[t] = None)
Looks == late' = (late \/ rl.at # "idle")
Chooses ==
  blind' = (blind \/ \E t \in Tracks : NextOf(t) = None /\ Shown(t) < LastFrame(t))

Begun(kind, at) ==
  [NoStep EXCEPT !.at = at, !.kind = kind, !.from = history]

Seek(target) ==
  /\ seeks < MaxSeeks /\ seeks' = seeks + 1
  /\ step.at = "none" /\ step' = NoStep
  /\ ApplySeek([t \in Tracks |-> target], FALSE)
  /\ clock' = target /\ anchor' = None
  /\ late' = (rl.at # "idle") /\ blind' = FALSE
  /\ UNCHANGED playing

Pause ==
  /\ step.at = "none" /\ playing /\ playing' = FALSE
  /\ track' = SetDecodePaused(track, TRUE)
  /\ UNCHANGED <<clock, anchor, step, late, blind, seeks, renderer>>

(* apply_step_forward_decision, and the clock that goes with it.           *)
ApplyForward(tracks, choice) ==
  /\ track' = Discarded(tracks, choice.frames)
  /\ clock' = choice.target

(* step_forward, up to its first wait.                                     *)
StepForward ==
  LET choice == ForwardChoice
      begun  == Begun("forward", "waiting")
  IN  /\ step.at = "none" /\ ~late /\ ~HasBuffering
      /\ playing' = FALSE
      /\ IF choice.found /\ choice.complete
           THEN /\ ApplyForward(track, choice)
                /\ step' = [begun EXCEPT !.at = "present", !.decision = choice.frames]
           ELSE /\ track' = SetDecodePaused(Discarded(track, history), FALSE)
                /\ step' = IF choice.found
                           THEN [begun EXCEPT !.kept = choice.frames, !.target = choice.target]
                           ELSE begun
                /\ UNCHANGED clock
      /\ Begins /\ IF choice.found THEN Chooses ELSE UNCHANGED blind
      /\ UNCHANGED <<anchor, seeks, renderer>>

Presents(frames) ==
  [NoStep EXCEPT !.at = "present", !.kind = step.kind, !.from = step.from, !.decision = frames]

Waiting(kind) == step.at = "waiting" /\ step.kind = kind

(* A look while it waits: the whole choice is there, or a part of it.      *)
PollForward ==
  LET choice == ForwardChoice
  IN  /\ Waiting("forward") /\ choice.found
      /\ IF choice.complete
           THEN /\ ApplyForward(SetDecodePaused(track, TRUE), choice)
                /\ step' = Presents(choice.frames)
           ELSE /\ step' = [step EXCEPT !.kept = choice.frames, !.target = choice.target]
                /\ UNCHANGED <<track, clock>>
      /\ Looks /\ Chooses
      /\ UNCHANGED <<playing, anchor, seeks, renderer>>

(* The wait is over: what was found so far will do, else an exact seek.    *)
ForwardTimeout ==
  LET paused == SetDecodePaused(track, TRUE)
  IN  /\ Waiting("forward")
      /\ IF step.kept # Nothing
           THEN /\ ApplyForward(paused, [frames |-> step.kept, target |-> step.target])
                /\ step' = Presents(step.kept)
           ELSE /\ track' = paused
                /\ step' = [NoStep EXCEPT !.at = "fallback"]
                /\ UNCHANGED clock
      /\ UNCHANGED <<playing, anchor, late, blind, seeks, renderer>>

(* choose_step_forward_exact_seek_target: one frame beyond what the clock, *)
(* the frame shown, or the last such target says.                          *)
FallbackTarget ==
  LET anchored == anchor = clock
      trusted  == history[Reference] # None
      visible  == Shown(Reference)
      time     == Global(Reference, visible)
      slop     == Greater(2, FrameDuration \div 2)
      base     == IF anchored \/ visible = None THEN clock
                  ELSE IF trusted /\ time >= clock /\ time <= clock + 500 THEN time
                  ELSE IF time <= clock + slop THEN Greater(time, clock) ELSE clock
      target   == Lesser(base + FrameDuration + 1, End)
  IN  [target |-> target,
       decode |-> IF anchored /\ visible # None /\ time >= target THEN Lesser(time + 1, End)
                  ELSE target]

ForwardFallback ==
  /\ step.at = "fallback"
  /\ step' = [step EXCEPT !.at = "seek", !.target = FallbackTarget.target,
                          !.decode = FallbackTarget.decode]
  /\ UNCHANGED <<playing, clock, track, anchor, late, blind, seeks, renderer>>

ForwardSeek ==
  /\ step.at = "seek"
  /\ ApplySeek([t \in Tracks |-> step.decode], TRUE)
  /\ clock' = step.target /\ anchor' = step.target
  /\ step' = NoStep
  /\ late' = (rl.at # "idle") /\ blind' = TRUE
  /\ UNCHANGED <<playing, seeks>>

(* build_step_backward_reconstruction_plan: strictly before what each      *)
(* track shows, or before the reference's.                                 *)
ReferenceTarget ==
  LET time == Global(Reference, Shown(Reference))
      slop == Greater(2, FrameDuration + 2)
      base == IF Shown(Reference) = None THEN clock
              ELSE IF history[Reference] # None THEN time
              ELSE IF time >= Greater(0, clock - slop) /\ time <= clock + slop THEN time
              ELSE clock
  IN  IF base <= 0 THEN 0 ELSE base - 1

PredecessorTargets ==
  [t \in Tracks |->
     IF Shown(t) = None THEN Lesser(ReferenceTarget, End)
     ELSE Greater(0, Global(t, Shown(t)) - 1)]

(* step_backward, up to its wait.                                          *)
StepBackward ==
  LET choice == BackwardChoice(history)
      begun  == Begun("backward", "waiting")
  IN  /\ step.at = "none" /\ ~late /\ ~HasBuffering
      /\ playing' = FALSE /\ anchor' = None
      /\ IF choice.found
           THEN /\ track' = [t \in Tracks |-> RetreatedTo(track[t], choice.frames[t])]
                /\ clock' = choice.target
                /\ step' = [begun EXCEPT !.at = "present", !.decision = choice.frames]
                /\ UNCHANGED renderer
           ELSE /\ ApplySeek(PredecessorTargets, FALSE)
                /\ clock' = Lesser(ReferenceTarget, End)
                /\ step' = [begun EXCEPT !.kept = history, !.clock = clock]
      /\ Begins
      /\ UNCHANGED <<blind, seeks>>

PollBackward ==
  LET choice == BackwardChoice(step.kept)
  IN  /\ Waiting("backward") /\ ~HasBuffering /\ choice.found
      /\ track' = [t \in Tracks |-> RetreatedTo(track[t], choice.frames[t])]
      /\ clock' = choice.target
      /\ step' = Presents(choice.frames)
      /\ Looks
      /\ UNCHANGED <<playing, anchor, blind, seeks, renderer>>

(* No predecessor in time: the clock and the history of before are back.   *)
BackwardTimeout ==
  /\ Waiting("backward")
  /\ clock' = step.clock /\ history' = step.kept
  /\ step' = [NoStep EXCEPT !.kind = "failed"]
  /\ UNCHANGED <<playing, track, preview, anchor, rl, screen, late, blind, seeks>>

(* Both present what they found without the lock, then commit it.          *)
StepPresent ==
  /\ step.at = "present"
  /\ screen' = step.decision
  /\ preview' = [drawn |-> TRUE, pending |-> FALSE]
  /\ step' = [step EXCEPT !.at = "commit"]
  /\ Looks
  /\ UNCHANGED <<playing, clock, track, history, anchor, rl, blind, seeks>>

(* Mutant: the history keeps the frames of before the step.                *)
StepCommitKeepsHistory ==
  /\ step.at = "commit"
  /\ anchor' = IF step.kind = "forward" THEN None ELSE anchor
  /\ step' = NoStep
  /\ UNCHANGED <<playing, clock, track, history, preview, rl, screen, late, blind, seeks>>

StepCommit ==
  /\ step.at = "commit"
  /\ history' = step.decision
  /\ anchor' = IF step.kind = "forward" THEN None ELSE anchor
  /\ step' = NoStep
  /\ UNCHANGED <<playing, clock, track, preview, rl, screen, late, blind, seeks>>

-----------------------------------------------------------------------------
(* The render loop, as in Playback, without holds.                         *)

byRender == <<playing, anchor, step, late, blind, seeks>>

AllReady == \A t \in Tracks : track[t].state = "Ready"

CachedDecision == [t \in Tracks |-> IF history[t] # None THEN history[t] ELSE First(t)]

RenderPreview ==
  /\ rl.at = "idle" /\ ~playing /\ ~preview.drawn /\ ~preview.pending
  /\ \/ history # Nothing
     \/ AllReady /\ \A t \in Tracks : track[t].count > 0
  /\ rl' = [at |-> "presenting", decision |-> CachedDecision,
            kind |-> IF history # Nothing THEN "cached" ELSE "preview"]
  /\ preview' = [preview EXCEPT !.pending = TRUE]
  /\ UNCHANGED <<clock, track, history, screen, byRender>>

(* The clock of a playing player comes to the earliest frames buffered.    *)
RenderTick ==
  LET heads == {Global(t, First(t)) : t \in {u \in Tracks : First(u) # None}}
      now   == Greater(clock, Lowest(heads))
      due   == [t \in Tracks |-> IF First(t) # None /\ Global(t, First(t)) = Lowest(heads)
                                 THEN First(t)
                                 ELSE IF now >= Offset[t] THEN history[t] ELSE None]
  IN  /\ rl.at = "idle" /\ playing /\ AllReady
      /\ \A t \in Tracks : track[t].count > 0 \/ track[t].head > LastFrame(t)
      /\ heads # {}
      /\ clock' = now
      /\ rl' = [at |-> "presenting", decision |-> due, kind |-> "play"]
      /\ UNCHANGED <<track, history, preview, screen, byRender>>

RenderPresented ==
  /\ rl.at = "presenting"
  /\ screen' = rl.decision
  /\ preview' = [drawn |-> TRUE, pending |-> FALSE]
  /\ rl' = [rl EXCEPT !.at = "commit"]
  /\ UNCHANGED <<clock, track, history, byRender>>

RenderCommit ==
  /\ rl.at = "commit"
  /\ history' = rl.decision
  /\ track' =
       CASE rl.kind = "preview" -> SetDecodePaused(track, TRUE)
         [] rl.kind = "play" ->
              [t \in Tracks |-> IF First(t) # None /\ First(t) = rl.decision[t]
                                THEN AdvancedTo(track[t], t, Pts[t][First(t)] + 1)
                                ELSE track[t]]
         [] OTHER -> track
  /\ rl' = Idle
  /\ UNCHANGED <<clock, preview, screen, byRender>>

-----------------------------------------------------------------------------
Step == StepForward \/ StepBackward
Stepping ==
  \/ PollForward \/ ForwardTimeout \/ ForwardFallback \/ ForwardSeek
  \/ PollBackward \/ BackwardTimeout \/ StepPresent \/ StepCommit
Render == RenderPreview \/ RenderTick \/ RenderPresented \/ RenderCommit
Pipeline == \E t \in Tracks : SeekBegins(t) \/ SeekLands(t) \/ Decode(t)

Next ==
  \/ \E target \in Targets : Seek(target)
  \/ Pause \/ Step \/ Stepping \/ Render \/ Pipeline

Spec == Init /\ [][Next]_vars

-----------------------------------------------------------------------------
(* A step that presents shows of every track the frame of before or the    *)
(* one next to it, after it or before it as the step goes, and not only    *)
(* the same frames: also when they had to be decoded first.                *)
StepsByOne ==
  [][StepCommit /\ ~late =>
       LET by == IF step.kind = "forward" THEN 1 ELSE -1
       IN  /\ step.decision # step.from
           /\ \A t \in Tracks :
                step.decision[t] \in {step.from[t], step.from[t] + by}]_vars

(* The frame of a track to be seen at a time.                              *)
Playing(t, time) ==
  LET begun == {f \in DOMAIN Pts[t] : Global(t, f) <= time}
  IN  IF begun = {} THEN 1 ELSE Highest(begun)

ShowsWhatClockSays == \A t \in Tracks : step.decision[t] = Playing(t, clock)

(* What a step shows is what is to be seen at the time it leaves the clock *)
(* at, unless it was chosen without the next frame of a track: tracks of   *)
(* different rates stay together however one steps.                        *)
ClockMeansShown == [][StepCommit /\ ~late /\ ~blind => ShowsWhatClockSays]_vars

(* At rest the screen shows what the next step starts from, unless a step  *)
(* back gave up: then the last preview of its reconstruction may be there. *)
AtRest == ~late /\ step.at = "none" /\ rl.at = "idle" /\ preview.drawn
ScreenIsHistory == AtRest /\ step.kind # "failed" => screen = history
=============================================================================

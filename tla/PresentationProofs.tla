------------------------ MODULE PresentationProofs -------------------------
(***************************************************************************)
(* The safety of Presentation, for any number of lanes, any size of the    *)
(* ring, any number of calls and faults: who holds a target, and that at   *)
(* rest the newest layout has been drawn into the newest ring and is on    *)
(* the screen, but for the cases the properties name.                      *)
(***************************************************************************)
EXTENDS Presentation, FiniteSetTheorems, WellFoundedInduction, TLAPS

Steps == {"idle", "begin", "snapshot", "draw", "drawn", "publish", "wait", "sampled",
          "notready", "refused"}

Made == (1 .. ring) \X Indices

Draws == [pc : Steps, rev : Nat, target : (Nat \X Nat), serial : Nat, play : BOOLEAN]

Typed ==
  /\ ring \in Nat \ {0} /\ made \in Nat
  /\ slot \in [Indices -> {"Available", "Completed"}]
  /\ api \in {"idle", "request", "install", "force"}
  /\ rev \in Nat /\ pending \in Nat /\ asked \in Nat /\ latest \in Nat /\ submitted \in Int
  /\ draw \in [Threads -> Draws]
  /\ handed \in [rev : Nat, ring : Nat]
  /\ composite \in [busy : BOOLEAN, picture : Nat, counts : BOOLEAN]
  /\ face \in Nat

(* A ring is made, then installed.                                         *)
Rings == made = IF api = "install" THEN ring + 1 ELSE ring

(* A draw has a target from the moment it is drawn into until its wait is  *)
(* over; a target is with one draw, or once in the release queue, and it   *)
(* is available in its ring exactly when it is with neither.               *)
HasTarget(t) == draw[t].pc \in {"drawn", "publish", "wait", "sampled"}

Queued == BagToSet(queue)

Holding ==
  /\ \A t \in Threads : IF HasTarget(t) THEN draw[t].target \in Made
                        ELSE draw[t].target = NoTarget
  /\ \A t, u \in Threads : HasTarget(t) /\ draw[t].target = draw[u].target => t = u

Queueing ==
  /\ Queued \subseteq Made /\ \A x \in Queued : queue[x] = 1
  /\ \A t \in Threads : draw[t].target \notin Queued

Taken == Queued \union {draw[t].target : t \in Threads}

Slotted == \A i \in Indices : slot[i] = "Available" <=> <<ring, i>> \notin Taken

(* The layouts on their way: the one asked for last is in force or waits.  *)
Revisions ==
  /\ IF pending = 0 THEN rev = asked ELSE pending = asked /\ rev < asked
  /\ handed.rev <= rev /\ submitted <= latest
  /\ \A t \in Threads : /\ draw[t].rev <= rev /\ draw[t].serial <= latest
                        /\ At(t, "publish") => draw[t].rev <= handed.rev

(* A lane will still take a snapshot for the newest intent.                *)
Intended ==
  \/ api = "request" \/ submitted < latest
  \/ \E l \in Lanes : draw[l].serial = latest /\ draw[l].pc \in {"snapshot", "refused", "notready"}

(* A lane draws the newest layout for the newest intent.                   *)
Underway ==
  \E l \in Lanes : /\ draw[l].serial = latest /\ draw[l].rev = asked
                   /\ draw[l].pc \in {"draw", "drawn"}

Waiting == pending > 0 => gaveUp \/ Intended

(* What keeps the newest layout from being forgotten.                      *)
Promised == handed.rev = asked \/ gaveUp \/ redraw \/ Intended \/ Underway

RingPromised == handed.ring = made \/ crossed \/ redraw \/ api \in {"install", "force"}

(* The picture that is shown is about to be drawn over, or drawn anew.     *)
Changing == \/ overtaken \/ face = Torn \/ redraw
            \/ \E t \in Threads : At(t, "drawn") /\ draw[t].target = shown

FaceHanded ==
  Changing \/ face = handed.rev \/ \E t \in Threads : At(t, "publish") /\ draw[t].rev = handed.rev

ScreenFollows ==
  \/ Changing \/ signal \/ \E t \in Threads : At(t, "publish")
  \/ IF composite.busy THEN composite.picture = face ELSE screen = face \/ abandoned

Held == Rings /\ Holding /\ Queueing /\ Slotted
Kept == Revisions /\ Waiting /\ Promised /\ RingPromised
Seen == FaceHanded /\ ScreenFollows
-----------------------------------------------------------------------------
(* The release queue, in which every target is at most once. *)
LEMMA Enqueue ==
  ASSUME NEW q, NEW S, \A x \in BagToSet(q) : q[x] = 1, S \intersect BagToSet(q) = {}
  PROVE  /\ BagToSet(q (+) SetToBag(S)) = BagToSet(q) \union S
         /\ \A x \in BagToSet(q (+) SetToBag(S)) : (q (+) SetToBag(S))[x] = 1
<1>1. BagToSet(q (+) SetToBag(S)) = BagToSet(q) \union S BY DEF BagToSet, SetToBag, (+)
<1>2. ASSUME NEW x \in BagToSet(q) PROVE (q (+) SetToBag(S))[x] = q[x] + 0
  BY <1>2, x \notin S DEF BagToSet, SetToBag, (+)
<1>3. ASSUME NEW x \in S PROVE (q (+) SetToBag(S))[x] = 0 + 1
  BY <1>3, x \notin BagToSet(q) DEF BagToSet, SetToBag, (+)
<1> QED BY <1>1, <1>2, <1>3

LEMMA Dequeue ==
  ASSUME NEW q, NEW y \in BagToSet(q), \A x \in BagToSet(q) : q[x] = 1
  PROVE  /\ BagToSet(q (-) SetToBag({y})) = BagToSet(q) \ {y}
         /\ \A x \in BagToSet(q (-) SetToBag({y})) : (q (-) SetToBag({y}))[x] = 1
<1> DEFINE one == SetToBag({y})
           left == [x \in DOMAIN q |-> IF x \in DOMAIN one THEN q[x] - one[x] ELSE q[x]]
<1>1. DOMAIN one = {y} /\ one[y] = 1 BY DEF SetToBag
<1>2. \A x \in DOMAIN q : q[x] = 1 BY DEF BagToSet
<1>3. y \in DOMAIN q BY DEF BagToSet
<1> HIDE DEF one
<1>4. \A x \in DOMAIN q : left[x] = IF x = y THEN 0 ELSE 1 BY <1>1, <1>2, <1>3
<1>5. q (-) one = [x \in {d \in DOMAIN left : left[d] > 0} |-> left[x]] BY DEF (-)
<1> HIDE DEF left
<1>6. DOMAIN left = DOMAIN q BY DEF left
<1>7. {d \in DOMAIN left : left[d] > 0} = DOMAIN q \ {y} BY <1>4, <1>6
<1>8. /\ BagToSet(q (-) one) = BagToSet(q) \ {y}
      /\ \A x \in BagToSet(q (-) one) : (q (-) one)[x] = 1
  BY <1>4, <1>5, <1>7 DEF BagToSet
<1> QED BY <1>8 DEF one

LEMMA FirstOne ==
  ASSUME PresentationAssumption, Available # {}
  PROVE  FirstAvailable \in Available
<1> USE DEF PresentationAssumption
<1>1. Available \in SUBSET Nat BY DEF Available, Indices
<1>2. \E i \in Available : \A j \in Available : ~ (<<j, i>> \in OpToRel(<, Nat))
  BY <1>1, NatLessThanWellFounded, WFMin, Zenon
<1>3. \A i, j \in Available : <<j, i>> \in OpToRel(<, Nat) <=> j < i BY <1>1, Zenon DEF OpToRel
<1>4. \E i \in Available : \A j \in Available : ~ (j < i) BY <1>2, <1>3, Zenon
<1>5. \E i \in Available : \A j \in Available : i <= j BY <1>1, <1>4
<1> QED BY <1>5 DEF FirstAvailable
-----------------------------------------------------------------------------
Timers == HoldExpires \/ BackoffExpires

Steady == /\ UNCHANGED <<ring, made, slot, queue, api, rev, pending, asked, latest, submitted>>
          /\ UNCHANGED <<draw, handed, composite, face, shown, screen, signal, redraw>>
          /\ UNCHANGED <<gaveUp, crossed, overtaken, abandoned>>

LEMMA TimersSteady == Timers => Steady
  BY DEF Timers, Steady, HoldExpires, BackoffExpires, ringVars, layoutVars, intentVars,
         compositorVars, ghosts, bounds

LEMMA Numbers ==
  /\ TargetCount \in Nat \ {0} /\ MaxCalls \in Nat /\ Torn \in Nat
  /\ Indices \subseteq Nat \ {0} /\ Loop \in Threads /\ Lanes \subseteq Threads /\ Loop \notin Lanes
  BY PresentationAssumption DEF Torn, Indices, Threads

LEMMA DrawTyped ==
  ASSUME Typed, Next
  PROVE  draw' \in [Threads -> Draws]
<1> USE Numbers DEF intentVars, compositorVars, ghosts, bounds, Goes, Ends, Returns
<1>0. draw \in [Threads -> Draws] BY DEF Typed
<1>1. \A t \in Threads : draw[t] \in Draws BY <1>0
<1>2. NoTarget \in Nat \X Nat /\ Idle \in Draws BY DEF NoTarget, Idle, Draws, Steps
<1>3. \A d \in Draws, p \in Steps : [d EXCEPT !.pc = p] \in Draws BY DEF Draws
<1>4. \A d \in Draws : d.rev \in Nat /\ d.serial \in Nat /\ d.target \in Nat \X Nat BY DEF Draws
<1>5. \A d \in Draws, p \in Steps, r \in Nat : [d EXCEPT !.pc = p, !.rev = r] \in Draws BY DEF Draws
<1>6. \A d \in Draws, p \in Steps, x \in Nat \X Nat : [d EXCEPT !.pc = p, !.target = x] \in Draws
  BY DEF Draws
<1>7. \A d \in Draws, p \in Steps : [d EXCEPT !.pc = p, !.play = TRUE] \in Draws BY DEF Draws
<1>8. ASSUME NEW t \in Threads, Drawing(t) PROVE draw' \in [Threads -> Draws]
  <2>1. ASSUME NEW d \in Draws, draw' = [draw EXCEPT ![t] = d] PROVE draw' \in [Threads -> Draws]
    BY <1>0, <2>1
  <2>2. CASE TakeSnapshot(t)
    <3>1. rev' \in Nat BY <2>2 DEF TakeSnapshot, ConsumePendingLayout, Typed
    <3>2. [draw[t] EXCEPT !.pc = "draw", !.rev = rev'] \in Draws BY <3>1, <1>1, <1>5 DEF Steps
    <3>3. [draw[t] EXCEPT !.pc = "notready"] \in Draws BY <1>1, <1>3 DEF Steps
    <3>4. PICK d \in Draws : draw' = [draw EXCEPT ![t] = d]
      BY <2>2, <3>2, <3>3 DEF TakeSnapshot
    <3> QED BY <3>4, <2>1
  <2>3. CASE DrawBusy(t) \/ DrawFails(t)
    <3>1. [Idle EXCEPT !.pc = "refused", !.serial = draw[t].serial] \in Draws
      BY <1>1, <1>2 DEF Draws, Steps
    <3>2. PICK d \in Draws : draw' = [draw EXCEPT ![t] = d]
      BY <2>3, <3>1, <1>2 DEF DrawBusy, DrawFails, NotDrawn
    <3> QED BY <3>2, <2>1
  <2>4. CASE DrawInto(t)
    <3>0. Available # {} BY <2>4 DEF DrawInto
    <3>1. FirstAvailable \in Indices BY <3>0, FirstOne, PresentationAssumption DEF Available
    <3>2. <<ring, FirstAvailable>> \in Nat \X Nat BY <3>1 DEF Typed
    <3>3. [draw[t] EXCEPT !.pc = "drawn", !.target = <<ring, FirstAvailable>>] \in Draws
      BY <3>2, <1>1, <1>6 DEF Steps
    <3>4. PICK d \in Draws : draw' = [draw EXCEPT ![t] = d] BY <2>4, <3>3 DEF DrawInto
    <3> QED BY <3>4, <2>1
  <2>5. CASE FinishDrawn(t)
    <3>1. [Idle EXCEPT !.pc = "publish", !.rev = draw[t].rev, !.target = draw[t].target] \in Draws
      BY <1>1, <1>2, <1>4 DEF Draws, Steps
    <3> QED BY <2>5, <3>1, <2>1 DEF FinishDrawn
  <2>6. CASE Publish(t)
    <3>1. [Idle EXCEPT !.pc = "wait", !.target = draw[t].target] \in Draws
      BY <1>1, <1>2, <1>4 DEF Draws, Steps
    <3> QED BY <2>6, <3>1, <2>1 DEF Publish
  <2>7. CASE FinishStale(t) \/ Rejected(t) \/ WaitTimesOut(t)
    BY <2>7, <1>2, <2>1 DEF FinishStale, Rejected, WaitTimesOut
  <2> QED BY <1>8, <2>2, <2>3, <2>4, <2>5, <2>6, <2>7 DEF Drawing
<1>9. ASSUME NEW l \in Lanes, Lane(l) PROVE draw' \in [Threads -> Draws]
  <2>1. CASE LaneRequests(l)
    <3>4. latest \in Nat BY DEF Typed
    <3>5. draw[l] \in Draws BY <1>1
    <3>1. \A p \in Steps : [draw[l] EXCEPT !.pc = p, !.serial = latest] \in Draws
      BY <3>4, <3>5 DEF Draws
    <3>2. (IF backoff THEN "refused" ELSE "snapshot") \in Steps BY DEF Steps
    <3>3. draw' = [draw EXCEPT ![l] = [draw[l] EXCEPT !.pc = IF backoff THEN "refused"
                                                            ELSE "snapshot", !.serial = latest]]
      BY <2>1 DEF LaneRequests
    <3> QED BY <1>0, <3>1, <3>2, <3>3
  <2>2. CASE LaneGivesUp(l) \/ LaneRetries(l)
    BY <2>2, <1>0, <1>2 DEF LaneGivesUp, LaneRetries
  <2> QED BY <1>9, <2>1, <2>2 DEF Lane
<1>10. CASE RenderLoop
  <2>1. CASE LoopTicks
    <3>1. [draw[Loop] EXCEPT !.pc = "snapshot", !.play = TRUE] \in Draws
      BY <1>1, <1>7 DEF Steps
    <3>2. draw' = draw \/ draw' = [draw EXCEPT ![Loop] = [draw[Loop] EXCEPT !.pc = "snapshot",
                                                                          !.play = TRUE]]
      BY <2>1 DEF LoopTicks
    <3> QED BY <3>1, <3>2, <1>0
  <2>2. CASE LoopLooks \/ LoopBegins
    <3>1. PICK p \in Steps : draw' = [draw EXCEPT ![Loop] = [draw[Loop] EXCEPT !.pc = p]]
      BY <2>2 DEF LoopLooks, LoopBegins, Steps
    <3> QED BY <3>1, <1>0, <1>1, <1>3
  <2> QED BY <1>10, <2>1, <2>2 DEF RenderLoop
<1>11. CASE Platform
  BY <1>11, <1>0 DEF Platform, ApplyLayout, RequestLayoutFrame, Pause, Play, Seek,
     CreateVideoTargetRing, InstallRing, ForcePreviewRedraw
<1>12. CASE CompositeSamples
  BY <1>12, <1>0, <1>1, <1>3 DEF CompositeSamples, Steps
<1>13. CASE CompositePresents \/ CompositeFails
  BY <1>13, <1>1, <1>2 DEF CompositePresents, CompositeFails, Completes
<1>14. CASE ReleaseNext BY <1>14, <1>0 DEF ReleaseNext
<1>15. CASE Timers BY <1>15, <1>0, TimersSteady DEF Steady
<1> QED BY <1>8, <1>9, <1>10, <1>11, <1>12, <1>13, <1>14, <1>15 DEF Next, Compositor, Timers

LEMMA RingTyped ==
  ASSUME Typed, Rings, Holding, Queueing, Next
  PROVE  /\ ring' \in Nat \ {0} /\ made' \in Nat
         /\ slot' \in [Indices -> {"Available", "Completed"}]
         /\ api' \in {"idle", "request", "install", "force"}
         /\ Rings'
<1> USE Numbers DEF ringVars, layoutVars, timerVars, intentVars, compositorVars, ghosts, bounds
<1>0. /\ ring \in Nat \ {0} /\ made \in Nat /\ Rings
      /\ slot \in [Indices -> {"Available", "Completed"}]
      /\ api \in {"idle", "request", "install", "force"}
  BY DEF Typed
<1>1. \A x \in Made : Released(x) \in [Indices -> {"Available", "Completed"}]
  BY <1>0 DEF Released, ReleasedState, Made
<1>2. ASSUME NEW t \in Threads, Drawing(t)
      PROVE  /\ UNCHANGED <<ring, made, api>>
             /\ slot' \in [Indices -> {"Available", "Completed"}]
  <2>1. CASE DrawInto(t)
    BY <2>1, <1>0, FirstOne, PresentationAssumption DEF DrawInto, Available
  <2>2. CASE FinishStale(t)
    <3>1. draw[t].target \in Made BY <2>2 DEF FinishStale, At, Holding, HasTarget
    <3> QED BY <2>2, <3>1, <1>1 DEF FinishStale, SlotsAfterDiscard
  <2>3. CASE TakeSnapshot(t) \/ DrawBusy(t) \/ DrawFails(t)
    BY <2>3, <1>0 DEF TakeSnapshot, DrawBusy, DrawFails
  <2>4. CASE FinishDrawn(t) \/ Publish(t) \/ Rejected(t) \/ WaitTimesOut(t)
    BY <2>4, <1>0 DEF FinishDrawn, Publish, Rejected, WaitTimesOut
  <2> QED BY <1>2, <2>1, <2>2, <2>3, <2>4 DEF Drawing
<1>3. ASSUME NEW l \in Lanes, Lane(l) PROVE UNCHANGED <<ring, made, api, slot>>
  BY <1>3 DEF Lane, LaneRequests, LaneGivesUp, LaneRetries
<1>4. CASE RenderLoop BY <1>4, <1>0 DEF RenderLoop, LoopTicks, LoopLooks, LoopBegins, Rings
<1>5. CASE ApplyLayout \/ RequestLayoutFrame \/ Pause \/ Play \/ Seek \/ ForcePreviewRedraw
  BY <1>5, <1>0 DEF ApplyLayout, RequestLayoutFrame, Pause, Play, Seek, ForcePreviewRedraw,
     Calls, Rings
<1>6. CASE CreateVideoTargetRing BY <1>6, <1>0 DEF CreateVideoTargetRing, Calls, Rings
<1>7. CASE InstallRing BY <1>7, <1>0 DEF InstallRing, AllAvailable, Rings
<1>8. CASE Compositor
  BY <1>8, <1>0 DEF Compositor, CompositeSamples, CompositePresents, CompositeFails, Rings
<1>9. CASE ReleaseNext
  <2>1. PICK x \in Queued : slot' = Released(x) BY <1>9 DEF ReleaseNext, Queued
  <2>2. x \in Made BY DEF Queueing
  <2>3. UNCHANGED <<ring, made, api>> BY <1>9 DEF ReleaseNext
  <2> QED BY <2>1, <2>2, <2>3, <1>0, <1>1 DEF Rings
<1>10. CASE Timers BY <1>10, <1>0, TimersSteady DEF Steady, Rings
<1> QED BY <1>0, <1>2, <1>3, <1>4, <1>5, <1>6, <1>7, <1>8, <1>9, <1>10
     DEF Next, Platform, Timers, Rings

LEMMA NumbersTyped ==
  ASSUME Typed, Next
  PROVE  /\ rev' \in Nat /\ pending' \in Nat /\ asked' \in Nat /\ latest' \in Nat
         /\ submitted' \in Int
<1> USE DEF ringVars, layoutVars, timerVars, intentVars, compositorVars, ghosts, bounds
<1>0. rev \in Nat /\ pending \in Nat /\ asked \in Nat /\ latest \in Nat /\ submitted \in Int
  BY DEF Typed
<1>1. \A t \in Threads : draw[t].serial \in Nat BY DEF Typed, Draws
<1>2. ASSUME NEW t \in Threads, Drawing(t)
      PROVE  rev' \in Nat /\ pending' \in Nat /\ UNCHANGED <<asked, latest, submitted>>
  BY <1>0, <1>2 DEF Drawing, TakeSnapshot, DrawBusy, DrawFails, DrawInto, FinishDrawn, FinishStale,
     Publish, Rejected, WaitTimesOut, ConsumePendingLayout
<1>3. ASSUME NEW l \in Lanes, Lane(l)
      PROVE  UNCHANGED <<rev, pending, asked, latest>> /\ submitted' \in Int
  BY <1>0, <1>1, <1>3, Numbers DEF Lane, LaneRequests, LaneGivesUp, LaneRetries, TakenBack
<1>4. CASE RenderLoop
  BY <1>4, <1>0 DEF RenderLoop, LoopTicks, LoopLooks, LoopBegins, ConsumePendingLayout
<1>5. CASE Platform
  BY <1>5, <1>0 DEF Platform, ApplyLayout, RequestLayoutFrame, Pause, Play, Seek, ForcePreviewRedraw,
     CreateVideoTargetRing, InstallRing, Calls
<1>6. CASE Compositor
  BY <1>6, <1>0 DEF Compositor, CompositeSamples, CompositePresents, CompositeFails
<1>7. CASE ReleaseNext BY <1>7, <1>0 DEF ReleaseNext
<1>8. CASE Timers BY <1>8, <1>0, TimersSteady DEF Steady
<1> QED BY <1>0, <1>2, <1>3, <1>4, <1>5, <1>6, <1>7, <1>8 DEF Next, Timers

LEMMA PicturesTyped ==
  ASSUME Typed, Next
  PROVE  /\ handed' \in [rev : Nat, ring : Nat] /\ face' \in Nat
         /\ composite' \in [busy : BOOLEAN, picture : Nat, counts : BOOLEAN]
<1> USE Numbers DEF ringVars, layoutVars, timerVars, intentVars, compositorVars, ghosts, bounds
<1>0. /\ handed \in [rev : Nat, ring : Nat] /\ face \in Nat
      /\ composite \in [busy : BOOLEAN, picture : Nat, counts : BOOLEAN]
  BY DEF Typed
<1>1. \A t \in Threads : draw[t].rev \in Nat /\ draw[t].target[1] \in Nat BY DEF Typed, Draws
<1>2. ASSUME NEW t \in Threads, Drawing(t)
      PROVE  handed' \in [rev : Nat, ring : Nat] /\ face' \in Nat /\ UNCHANGED composite
  <2>1. CASE FinishDrawn(t) BY <2>1, <1>0, <1>1 DEF FinishDrawn
  <2>2. CASE DrawInto(t) \/ DrawFails(t) BY <2>2, <1>0, <1>1 DEF DrawInto, DrawFails
  <2>3. CASE Publish(t) BY <2>3, <1>0, <1>1 DEF Publish
  <2>4. CASE TakeSnapshot(t) \/ DrawBusy(t) \/ FinishStale(t) \/ Rejected(t) \/ WaitTimesOut(t)
    BY <2>4, <1>0 DEF TakeSnapshot, DrawBusy, FinishStale, Rejected, WaitTimesOut
  <2> QED BY <1>2, <2>1, <2>2, <2>3, <2>4 DEF Drawing
<1>3. ASSUME NEW l \in Lanes, Lane(l) PROVE UNCHANGED <<handed, face, composite>>
  BY <1>3 DEF Lane, LaneRequests, LaneGivesUp, LaneRetries
<1>4. CASE RenderLoop BY <1>4, <1>0 DEF RenderLoop, LoopTicks, LoopLooks, LoopBegins
<1>5. CASE ApplyLayout \/ RequestLayoutFrame \/ Pause \/ Play \/ Seek \/ ForcePreviewRedraw \/ InstallRing
  BY <1>5, <1>0 DEF ApplyLayout, RequestLayoutFrame, Pause, Play, Seek, ForcePreviewRedraw,
     InstallRing
<1>6. CASE CreateVideoTargetRing BY <1>6, <1>0 DEF CreateVideoTargetRing
<1>7. CASE CompositeSamples BY <1>7, <1>0 DEF CompositeSamples
<1>8. CASE CompositePresents \/ CompositeFails
  <2>1. composite' = NoComposite BY <1>8 DEF CompositePresents, CompositeFails, Completes
  <2>2. UNCHANGED <<handed, face>> BY <1>8 DEF CompositePresents, CompositeFails
  <2> QED BY <2>1, <2>2, <1>0 DEF NoComposite
<1>9. CASE ReleaseNext BY <1>9, <1>0 DEF ReleaseNext
<1>10. CASE Timers BY <1>10, <1>0, TimersSteady DEF Steady
<1> QED BY <1>0, <1>2, <1>3, <1>4, <1>5, <1>6, <1>7, <1>8, <1>9, <1>10
     DEF Next, Platform, Compositor, Timers

LEMMA TypedStep ==
  ASSUME Typed, Rings, Holding, Queueing, Next
  PROVE  Typed' /\ Rings'
<1> USE RingTyped, NumbersTyped, PicturesTyped, DrawTyped
<1>1. Typed' BY DEF Typed
<1> QED BY <1>1
-----------------------------------------------------------------------------
(* Who holds a target. *)

(* A step that moves no target. *)
LEMMA NoneMoves ==
  ASSUME Holding, Queueing, Slotted, UNCHANGED <<ring, slot, queue>>,
         \A t \in Threads : /\ HasTarget(t)' <=> HasTarget(t)
                            /\ draw'[t].target = draw[t].target
  PROVE  Holding' /\ Queueing' /\ Slotted'
<1> DEFINE tgt == [t \in Threads |-> draw[t].target]
<1>1. Made' = Made /\ Queued' = Queued BY DEF Made, Queued
<1>2. \A x : x \in Taken' <=> x \in Taken BY <1>1 DEF Taken
<1>3. Holding' BY <1>1 DEF Holding
<1>4. Queueing' BY <1>1 DEF Queueing
<1>5. Slotted' BY <1>2 DEF Slotted
<1> QED BY <1>3, <1>4, <1>5

(* The draws of some threads end, and their targets are queued.            *)
LEMMA Giving ==
  ASSUME Holding, Queueing, Slotted, UNCHANGED <<ring, slot>>,
         NEW G \in SUBSET Threads, \A t \in G : HasTarget(t),
         \A t \in G : draw'[t] = Idle, \A t \in Threads \ G : draw'[t] = draw[t],
         queue' = queue (+) SetToBag({draw[t].target : t \in G})
  PROVE  Holding' /\ Queueing' /\ Slotted'
<1> DEFINE S == {draw[t].target : t \in G}
<1>1. S \subseteq Made /\ S \intersect Queued = {} BY DEF Holding, Queueing
<1> HIDE DEF S
<1>2. Queued' = Queued \union S /\ \A x \in Queued' : queue'[x] = 1
  BY <1>1, Enqueue DEF Queueing, Queued, S
<1>3. Made' = Made BY DEF Made
<1>4. \A t \in G : ~HasTarget(t)' /\ draw'[t].target = NoTarget BY DEF Idle, HasTarget
<1>5. \A t \in Threads \ G : HasTarget(t)' <=> HasTarget(t) BY DEF HasTarget
<1>7. NoTarget \notin Made BY Numbers DEF Made, NoTarget
<1>6. Holding'
  <2>1. \A t \in Threads : IF HasTarget(t)' THEN draw'[t].target \in Made
                           ELSE draw'[t].target = NoTarget
    BY <1>4, <1>5 DEF Holding
  <2>2. ASSUME NEW t \in Threads, NEW u \in Threads, HasTarget(t)',
               draw'[t].target = draw'[u].target
        PROVE  t = u
    <3>1. t \notin G /\ HasTarget(t) BY <2>2, <1>4, <1>5
    <3>2. draw'[t].target \in Made BY <2>1, <2>2
    <3>3. u \notin G BY <2>2, <3>2, <1>4, <1>7
    <3> QED BY <3>1, <3>3, <2>2 DEF Holding
  <2> QED BY <1>3, <2>1, <2>2 DEF Holding
<1>8. \A t \in Threads \ G : draw[t].target \notin S
  BY DEF S, Holding
<1>9. Queueing'
  <2>1. \A t \in Threads : draw'[t].target \notin Queued'
    BY <1>1, <1>2, <1>4, <1>7, <1>8 DEF Queueing
  <2> QED BY <1>1, <1>2, <1>3, <2>1 DEF Queueing
<1>10. \A x \in Made : x \in Taken' <=> x \in Taken
  <2> SUFFICES ASSUME NEW x \in Made PROVE x \in Taken' <=> x \in Taken OBVIOUS
  <2>1. x \in Taken' <=> x \in Queued \/ x \in S \/ \E t \in Threads \ G : draw[t].target = x
    BY <1>2, <1>4, <1>7 DEF Taken
  <2>2. x \in S <=> \E t \in G : draw[t].target = x BY DEF S
  <2> QED BY <2>1, <2>2 DEF Taken
<1>11. Slotted'
  <2>1. \A i \in Indices : <<ring, i>> \in Taken' <=> <<ring, i>> \in Taken
    <3>1. ASSUME NEW i \in Indices, <<ring, i>> \in Taken \/ <<ring, i>> \in Taken'
          PROVE <<ring, i>> \in Made
      <4>1. <<ring, i>> \in Queued \union Queued' \/ \E t \in Threads :
              draw[t].target = <<ring, i>> \/ draw'[t].target = <<ring, i>>
        BY <3>1 DEF Taken
      <4>2. <<ring, i>> # NoTarget BY Numbers DEF NoTarget
      <4> QED BY <4>1, <4>2, <1>1, <1>2, <1>4 DEF Holding, Queueing
    <3> QED BY <3>1, <1>10
  <2> QED BY <2>1 DEF Slotted
<1> QED BY <1>6, <1>9, <1>11

LEMMA TakingHeld ==
  ASSUME Typed, Holding, Queueing, Slotted, NEW t \in Threads, DrawInto(t)
  PROVE  Holding' /\ Queueing' /\ Slotted'
<1> DEFINE i == FirstAvailable
           x == <<ring, i>>
<1>1. i \in Available BY FirstOne, PresentationAssumption DEF DrawInto
<1>2. x \in Made /\ x \notin Taken
  BY <1>1 DEF Available, Slotted, Made, Typed
<1> HIDE DEF i
<1>3. /\ UNCHANGED <<ring, queue>> /\ slot' = [slot EXCEPT ![i] = "Completed"]
      /\ ~HasTarget(t) /\ HasTarget(t)' /\ draw'[t].target = x
      /\ \A u \in Threads \ {t} : draw'[u] = draw[u]
  BY DEF DrawInto, i, At, HasTarget, Typed, Draws
<1>4. Made' = Made /\ Queued' = Queued BY <1>3 DEF Made, Queued
<1>5. \A u \in Threads \ {t} : HasTarget(u)' <=> HasTarget(u) BY <1>3 DEF HasTarget
<1>6. \A u \in Threads : draw[u].target # x BY <1>2 DEF Taken
<1>7. Holding'
  <2>1. \A u \in Threads : IF HasTarget(u)' THEN draw'[u].target \in Made
                           ELSE draw'[u].target = NoTarget
    BY <1>2, <1>3, <1>5 DEF Holding
  <2>2. \A u, v \in Threads : HasTarget(u)' /\ draw'[u].target = draw'[v].target => u = v
    BY <1>3, <1>5, <1>6 DEF Holding
  <2> QED BY <1>4, <2>1, <2>2 DEF Holding
<1>8. Queueing' BY <1>2, <1>3, <1>4 DEF Queueing, Taken
<1>9. Slotted'
  <2> SUFFICES ASSUME NEW j \in Indices
               PROVE  slot'[j] = "Available" <=> <<ring, j>> \notin Taken'
    BY <1>3 DEF Slotted
  <2>1. CASE j = i
    <3>1. slot'[j] = "Completed"
      <4>1. slot \in [Indices -> {"Available", "Completed"}] BY DEF Typed
      <4> QED BY <4>1, <1>3, <2>1
    <3>2. x \in {draw'[u].target : u \in Threads} BY <1>3
    <3>4. x \in Taken' BY <1>3, <3>2 DEF Taken
    <3> QED BY <3>1, <3>4, <2>1, <1>3
  <2>2. CASE j # i
    <3>1. slot'[j] = slot[j] BY <1>3, <2>2 DEF Typed
    <3>2. <<ring, j>> # x BY <2>2
    <3>3. <<ring, j>> # NoTarget BY Numbers DEF NoTarget
    <3>4. draw[t].target = NoTarget BY <1>3 DEF Holding
    <3>5. <<ring, j>> \in Taken' <=> <<ring, j>> \in Taken
      BY <3>2, <3>3, <3>4, <1>3, <1>4 DEF Taken
    <3> QED BY <3>1, <3>5 DEF Slotted
  <2> QED BY <2>1, <2>2
<1> QED BY <1>7, <1>8, <1>9

(* A target given back, that of a stale draw or the next of the queue, is  *)
(* with nobody from then on and available if its ring is still installed.  *)
LEMMA Returning ==
  ASSUME Typed, Slotted, NEW x \in Made, slot' = Released(x), UNCHANGED ring,
         x \in Taken, x \notin Taken', \A y \in Made \ {x} : y \in Taken' <=> y \in Taken
  PROVE  Slotted'
<1> SUFFICES ASSUME NEW j \in Indices
             PROVE  slot'[j] = "Available" <=> <<ring, j>> \notin Taken'
  BY DEF Slotted
<1>1. <<ring, j>> \in Made BY DEF Made, Typed
<1>2. slot[j] \in {"Available", "Completed"} BY DEF Typed
<1>3. CASE <<ring, j>> = x
  <2>1. slot'[j] = ReleasedState(slot[j]) BY <1>3 DEF Released, Typed
  <2> QED BY <2>1, <1>2, <1>3 DEF ReleasedState
<1>4. CASE <<ring, j>> # x
  <2>1. x[1] = ring => x[2] # j BY <1>4 DEF Made
  <2>2. slot'[j] = slot[j] BY <2>1 DEF Released, Typed
  <2> QED BY <2>2, <1>1, <1>4 DEF Slotted
<1> QED BY <1>3, <1>4

LEMMA StaleHeld ==
  ASSUME Typed, Holding, Queueing, Slotted, NEW t \in Threads, FinishStale(t)
  PROVE  Holding' /\ Queueing' /\ Slotted'
<1> DEFINE x == draw[t].target
<1>1. HasTarget(t) /\ x \in Made BY DEF FinishStale, At, HasTarget, Holding
<1>2. /\ UNCHANGED <<ring, queue>> /\ slot' = Released(x) /\ draw'[t] = Idle
      /\ \A u \in Threads \ {t} : draw'[u] = draw[u]
  BY DEF FinishStale, SlotsAfterDiscard, Returns, Ends, Typed
<1>3. Made' = Made /\ Queued' = Queued BY <1>2 DEF Made, Queued
<1>4. ~HasTarget(t)' /\ draw'[t].target = NoTarget BY <1>2 DEF HasTarget, Idle
<1>5. \A u \in Threads \ {t} : HasTarget(u)' <=> HasTarget(u) BY <1>2 DEF HasTarget
<1>6. NoTarget \notin Made BY Numbers DEF Made, NoTarget
<1>7. Holding'
  <2>1. \A u \in Threads : IF HasTarget(u)' THEN draw'[u].target \in Made
                           ELSE draw'[u].target = NoTarget
    BY <1>2, <1>4, <1>5 DEF Holding
  <2>2. \A u, v \in Threads : HasTarget(u)' /\ draw'[u].target = draw'[v].target => u = v
    BY <2>1, <1>2, <1>4, <1>5, <1>6 DEF Holding
  <2> QED BY <1>3, <2>1, <2>2 DEF Holding
<1>8. Queueing' BY <1>2, <1>3, <1>4, <1>6 DEF Queueing
<1>9. x \in Taken BY DEF Taken
<1>10. \A u \in Threads \ {t} : draw[u].target # x BY <1>1 DEF Holding
<1>11. x \notin Taken' BY <1>1, <1>2, <1>3, <1>4, <1>6, <1>10 DEF Taken, Queueing
<1>12. \A y \in Made \ {x} : y \in Taken' <=> y \in Taken
  BY <1>2, <1>3, <1>4, <1>6 DEF Taken
<1> QED BY <1>1, <1>2, <1>7, <1>8, <1>9, <1>11, <1>12, Returning

LEMMA QueueHeld ==
  ASSUME Typed, Holding, Queueing, Slotted, ReleaseNext
  PROVE  Holding' /\ Queueing' /\ Slotted'
<1>1. PICK x \in Queued : /\ slot' = Released(x)
                          /\ queue' = queue (-) SetToBag({x})
                          /\ UNCHANGED <<ring, draw>>
  BY DEF ReleaseNext, Queued
<1>2. Queued' = Queued \ {x} /\ \A y \in Queued' : queue'[y] = 1
  BY <1>1, Dequeue DEF Queueing, Queued
<1>3. x \in Made /\ Made' = Made BY <1>1 DEF Queueing, Made
<1>4. \A t \in Threads : HasTarget(t)' <=> HasTarget(t) BY <1>1 DEF HasTarget
<1>5. Holding' BY <1>1, <1>3, <1>4 DEF Holding
<1>6. Queueing' BY <1>1, <1>2, <1>3 DEF Queueing
<1>7. x \in Taken /\ x \notin Taken' BY <1>1, <1>2 DEF Taken, Queueing
<1>8. \A y \in Made \ {x} : y \in Taken' <=> y \in Taken BY <1>1, <1>2 DEF Taken
<1> QED BY <1>1, <1>3, <1>5, <1>6, <1>7, <1>8, Returning

(* Nobody has a target of a ring that was not installed before.            *)
LEMMA InstallHeld ==
  ASSUME Typed, Rings, Holding, Queueing, InstallRing
  PROVE  Holding' /\ Queueing' /\ Slotted'
<1>1. /\ ring' = ring + 1 /\ slot' = AllAvailable /\ UNCHANGED <<draw, queue>>
  BY DEF InstallRing, Rings
<1>2. ring \in Nat BY DEF Typed
<1>3. Made \subseteq Made' /\ Queued' = Queued BY <1>1, <1>2 DEF Made, Queued
<1>4. \A t \in Threads : HasTarget(t)' <=> HasTarget(t) BY <1>1 DEF HasTarget
<1>5. Holding' BY <1>1, <1>3, <1>4 DEF Holding
<1>6. Queueing' BY <1>1, <1>3 DEF Queueing
<1>7. \A i \in Indices : <<ring', i>> \notin Made /\ <<ring', i>> # NoTarget
  BY <1>1, <1>2, Numbers DEF Made, NoTarget
<1>8. \A i \in Indices : <<ring', i>> \notin Taken'
  BY <1>1, <1>3, <1>7 DEF Taken, Holding, Queueing
<1>9. Slotted' BY <1>1, <1>8 DEF Slotted, AllAvailable
<1> QED BY <1>5, <1>6, <1>9

LEMMA HeldStep ==
  ASSUME Typed, Held, Next
  PROVE  Held'
<1> USE Numbers DEF Held, ringVars, layoutVars, timerVars, intentVars, compositorVars, ghosts, bounds
<1>0. Rings' BY TypedStep
<1>1. draw \in [Threads -> Draws] /\ \A t \in Threads : draw[t] \in Draws BY DEF Typed
<1> DEFINE Still == /\ UNCHANGED <<ring, slot, queue>>
                    /\ \A t \in Threads : /\ HasTarget(t)' <=> HasTarget(t)
                                          /\ draw'[t].target = draw[t].target
<1>2. Still => Holding' /\ Queueing' /\ Slotted' BY NoneMoves
<1>3. ASSUME NEW t \in Threads, NEW p \in Steps,
             UNCHANGED <<ring, slot, queue>>, \A u \in Threads \ {t} : draw'[u] = draw[u],
             draw'[t].target = draw[t].target, draw'[t].pc = p,
             p \in {"drawn", "publish", "wait", "sampled"} <=> HasTarget(t)
      PROVE  Still
  BY <1>3 DEF HasTarget
<1>4. UNCHANGED <<ring, slot, queue, draw>> => Still BY DEF HasTarget
<1> HIDE DEF Still
<1>5. ASSUME NEW t \in Threads, HasTarget(t), UNCHANGED <<ring, slot>>,
             queue' = queue (+) SetToBag({draw[t].target}), draw' = [draw EXCEPT ![t] = Idle]
      PROVE  Holding' /\ Queueing' /\ Slotted'
  <2>1. {draw[u].target : u \in {t}} = {draw[t].target} OBVIOUS
  <2> DEFINE G == {t}
  <2>2. G \in SUBSET Threads /\ queue' = queue (+) SetToBag({draw[u].target : u \in G})
    BY <1>5, <2>1
  <2>3. /\ \A u \in G : HasTarget(u) /\ draw'[u] = Idle
        /\ \A u \in Threads \ G : draw'[u] = draw[u]
    BY <1>1, <1>5
  <2> HIDE DEF G
  <2> QED BY <1>5, <2>2, <2>3, Giving
<1>6. ASSUME NEW t \in Threads, Drawing(t) PROVE Holding' /\ Queueing' /\ Slotted'
  <2>0. HasTarget(t) \/ draw[t].target = NoTarget BY DEF Holding
  <2>1. CASE TakeSnapshot(t)
    <3>1. ~HasTarget(t) /\ UNCHANGED <<ring, slot, queue>>
      BY <2>1 DEF TakeSnapshot, At, HasTarget
    <3>2. PICK p \in {"notready", "draw"} : draw'[t].pc = p /\ draw'[t].target = draw[t].target
      BY <1>1, <2>1 DEF TakeSnapshot, Draws
    <3>3. \A u \in Threads \ {t} : draw'[u] = draw[u] BY <1>1, <2>1 DEF TakeSnapshot
    <3>4. p \in Steps BY DEF Steps
    <3> QED BY <1>2, <1>3, <3>1, <3>2, <3>3, <3>4
  <2>2. CASE DrawBusy(t) \/ DrawFails(t)
    <3>1. ~HasTarget(t) /\ UNCHANGED <<ring, slot, queue>>
      BY <2>2 DEF DrawBusy, DrawFails, At, HasTarget
    <3>5. draw'[t] = Idle \/ draw'[t] = [Idle EXCEPT !.pc = "refused", !.serial = draw[t].serial]
      BY <1>1, <2>2 DEF DrawBusy, DrawFails, NotDrawn
    <3>6. draw'[t].pc \in {"idle", "refused"} /\ draw'[t].target = NoTarget
      <4>1. CASE draw'[t] = Idle BY <4>1 DEF Idle
      <4>2. CASE draw'[t] = [Idle EXCEPT !.pc = "refused", !.serial = draw[t].serial]
        BY <4>2 DEF Idle
      <4> QED BY <3>5, <4>1, <4>2
    <3>2. PICK p \in {"idle", "refused"} : draw'[t].pc = p /\ draw'[t].target = NoTarget
      BY <3>6
    <3>3. \A u \in Threads \ {t} : draw'[u] = draw[u]
      BY <1>1, <2>2 DEF DrawBusy, DrawFails, NotDrawn
    <3>4. p \in Steps BY DEF Steps
    <3> QED BY <1>2, <1>3, <2>0, <3>1, <3>2, <3>3, <3>4
  <2>3. CASE DrawInto(t) BY <2>3, TakingHeld
  <2>4. CASE FinishStale(t) BY <2>4, StaleHeld
  <2>5. CASE FinishDrawn(t)
    <3>1. HasTarget(t) /\ UNCHANGED <<ring, slot, queue>>
      BY <2>5 DEF FinishDrawn, At, HasTarget
    <3>2. draw'[t].pc = "publish" /\ draw'[t].target = draw[t].target
      BY <1>1, <2>5 DEF FinishDrawn, Idle
    <3>3. \A u \in Threads \ {t} : draw'[u] = draw[u] BY <1>1, <2>5 DEF FinishDrawn
    <3>4. "publish" \in Steps BY DEF Steps
    <3> QED BY <1>2, <1>3, <3>1, <3>2, <3>3, <3>4
  <2>6. CASE Publish(t)
    <3>1. HasTarget(t) /\ UNCHANGED <<ring, slot, queue>>
      BY <2>6 DEF Publish, At, HasTarget
    <3>2. draw'[t].pc = "wait" /\ draw'[t].target = draw[t].target
      BY <1>1, <2>6 DEF Publish, Idle
    <3>3. \A u \in Threads \ {t} : draw'[u] = draw[u] BY <1>1, <2>6 DEF Publish
    <3>4. "wait" \in Steps BY DEF Steps
    <3> QED BY <1>2, <1>3, <3>1, <3>2, <3>3, <3>4
  <2>7. CASE Rejected(t) \/ WaitTimesOut(t)
    BY <1>5, <2>7 DEF Rejected, WaitTimesOut, Returns, Ends, At, HasTarget
  <2> QED BY <1>6, <2>1, <2>2, <2>3, <2>4, <2>5, <2>6, <2>7 DEF Drawing
<1>7. ASSUME NEW l \in Lanes, Lane(l) PROVE Still
  <2>0. HasTarget(l) \/ draw[l].target = NoTarget BY DEF Holding
  <2>1. ~HasTarget(l) /\ UNCHANGED <<ring, slot, queue>>
    BY <1>7 DEF Lane, LaneRequests, LaneGivesUp, LaneRetries, At, HasTarget
  <2>2. \A u \in Threads \ {l} : draw'[u] = draw[u]
    BY <1>1, <1>7 DEF Lane, LaneRequests, LaneGivesUp, LaneRetries, Ends
  <2>3. PICK p \in {"idle", "refused", "snapshot"} :
          draw'[l].pc = p /\ draw'[l].target = draw[l].target
    <3>1. CASE LaneRequests(l) BY <1>1, <3>1 DEF LaneRequests, Draws
    <3>2. CASE LaneGivesUp(l) \/ LaneRetries(l)
      BY <1>1, <2>0, <2>1, <3>2 DEF LaneGivesUp, LaneRetries, Ends, Idle
    <3> QED BY <1>7, <3>1, <3>2 DEF Lane
  <2>4. p \in Steps BY DEF Steps
  <2> QED BY <1>3, <2>1, <2>2, <2>3, <2>4
<1>8. ASSUME RenderLoop PROVE Still
  <2>1. UNCHANGED <<ring, slot, queue>>
    BY <1>8 DEF RenderLoop, LoopTicks, LoopLooks, LoopBegins
  <2>2. draw' = draw \/ ~HasTarget(Loop)
    BY <1>8 DEF RenderLoop, LoopTicks, LoopLooks, LoopBegins, At, HasTarget
  <2>3. draw' = draw \/ \E p \in {"idle", "begin", "snapshot"} :
          /\ draw'[Loop].pc = p /\ draw'[Loop].target = draw[Loop].target
          /\ \A u \in Threads \ {Loop} : draw'[u] = draw[u]
    <3>1. CASE LoopTicks BY <1>1, <3>1 DEF LoopTicks, Draws
    <3>2. CASE LoopLooks \/ LoopBegins BY <1>1, <3>2 DEF LoopLooks, LoopBegins, Goes, Draws
    <3> QED BY <1>8, <3>1, <3>2 DEF RenderLoop
  <2>4. CASE draw' = draw BY <1>4, <2>1, <2>4
  <2>5. CASE draw' # draw
    <3>1. PICK p \in {"idle", "begin", "snapshot"} :
            /\ draw'[Loop].pc = p /\ draw'[Loop].target = draw[Loop].target
            /\ \A u \in Threads \ {Loop} : draw'[u] = draw[u]
      BY <2>3, <2>5
    <3>2. p \in Steps BY DEF Steps
    <3> QED BY <1>3, <2>1, <2>2, <2>5, <3>1, <3>2
  <2> QED BY <2>4, <2>5
<1>9. ASSUME Platform PROVE InstallRing \/ Still
  BY <1>4, <1>9 DEF Platform, ApplyLayout, RequestLayoutFrame, Pause, Play, Seek,
     CreateVideoTargetRing, ForcePreviewRedraw
<1>10. ASSUME CompositeSamples PROVE Still
  <2>1. \A t \in Threads : \/ draw'[t] = draw[t]
                           \/ /\ draw[t].pc = "wait" /\ draw'[t].pc = "sampled"
                              /\ draw'[t].target = draw[t].target
    BY <1>1, <1>10 DEF CompositeSamples, At, Draws
  <2>2. UNCHANGED <<ring, slot, queue>> BY <1>10 DEF CompositeSamples
  <2> QED BY <2>1, <2>2 DEF Still, HasTarget
<1>11. ASSUME CompositePresents \/ CompositeFails PROVE Holding' /\ Queueing' /\ Slotted'
  <2> DEFINE G == {t \in Threads : At(t, "sampled")}
  <2>1. UNCHANGED <<ring, slot>> BY <1>11 DEF CompositePresents, CompositeFails
  <2>2. /\ \A t \in G : draw'[t] = Idle
        /\ \A t \in Threads \ G : draw'[t] = draw[t]
        /\ queue' = queue (+) SetToBag({draw[t].target : t \in G})
    BY <1>11 DEF CompositePresents, CompositeFails, Completes
  <2>3. G \in SUBSET Threads /\ \A t \in G : HasTarget(t) BY DEF At, HasTarget
  <2> HIDE DEF G
  <2> QED BY <2>1, <2>2, <2>3, Giving
<1>12. ASSUME Timers PROVE Still BY <1>4, <1>12, TimersSteady DEF Steady
<1>13. CASE InstallRing BY <1>0, <1>13, InstallHeld
<1>14. CASE ReleaseNext BY <1>0, <1>14, QueueHeld
<1> QED BY <1>0, <1>2, <1>6, <1>7, <1>8, <1>9, <1>10, <1>11, <1>12, <1>13, <1>14
     DEF Next, Compositor, Timers

LEMMA HeldInit == Init => Typed /\ Held
<1> SUFFICES ASSUME Init PROVE Typed /\ Held OBVIOUS
<1> USE Numbers DEF Init
<1>1. NoTarget \in Nat \X Nat /\ Idle \in Draws BY DEF NoTarget, Idle, Draws, Steps
<1>2. Typed BY <1>1 DEF Typed, AllAvailable, NoComposite
<1>3. \A t \in Threads : ~HasTarget(t) /\ draw[t].target = NoTarget BY DEF HasTarget, Idle
<1>4. Queued = {} BY DEF Queued, BagToSet, EmptyBag, SetToBag
<1>5. \A i \in Indices : <<ring, i>> # NoTarget BY DEF NoTarget
<1>6. Slotted BY <1>3, <1>4, <1>5 DEF Slotted, Taken, AllAvailable
<1>7. Holding /\ Queueing BY <1>3, <1>4 DEF Holding, Queueing
<1>8. Rings BY DEF Rings
<1> QED BY <1>2, <1>6, <1>7, <1>8 DEF Held

(* A target of the installed ring that is not available is with one draw,  *)
(* or once in the release queue, and an available one is with neither.     *)
LEMMA HeldOnce == Typed /\ Held => OneHolder
<1> SUFFICES ASSUME Typed, Held, NEW i \in Indices
             PROVE  Cardinality(Holders(<<ring, i>>)) + Copies(<<ring, i>>) =
                      IF slot[i] = "Available" THEN 0 ELSE 1
  BY DEF OneHolder
<1> DEFINE x == <<ring, i>>
<1>1. x # NoTarget BY Numbers DEF NoTarget
<1>2. slot[i] = "Available" <=> x \notin Taken BY DEF Held, Slotted
<1>3. Copies(x) = IF x \in Queued THEN 1 ELSE 0
  BY DEF Held, Queueing, Copies, Queued, BagIn
<1>4. CASE \A t \in Threads : draw[t].target # x
  <2>1. Holders(x) = {} BY <1>4 DEF Holders
  <2>2. x \in Taken <=> x \in Queued BY <1>4 DEF Taken
  <2>3. Cardinality(Holders(x)) = 0 BY <2>1, FS_EmptySet
  <2> QED BY <1>2, <1>3, <2>2, <2>3
<1>5. CASE \E t \in Threads : draw[t].target = x
  <2>1. PICK t \in Threads : draw[t].target = x BY <1>5
  <2>2. HasTarget(t) BY <2>1, <1>1 DEF Held, Holding
  <2>3. Holders(x) = {t} BY <2>1, <2>2 DEF Holders, Held, Holding
  <2>4. x \in Taken /\ x \notin Queued BY <2>1 DEF Taken, Held, Queueing
  <2>5. Cardinality(Holders(x)) = 1 BY <2>3, FS_Singleton
  <2> QED BY <1>2, <1>3, <2>4, <2>5
<1> QED BY <1>4, <1>5

-----------------------------------------------------------------------------
(* What keeps the newest layout from being forgotten. *)

LEMMA RevisionsStep ==
  ASSUME Typed, Revisions, Next
  PROVE  Revisions'
<1> USE Numbers DEF ringVars, layoutVars, timerVars, intentVars, compositorVars, ghosts, bounds
<1>0. /\ draw \in [Threads -> Draws] /\ handed \in [rev : Nat, ring : Nat]
      /\ rev \in Nat /\ pending \in Nat /\ asked \in Nat /\ latest \in Nat /\ submitted \in Int
  BY DEF Typed
<1>1. \A t \in Threads : draw[t].rev \in Nat /\ draw[t].serial \in Nat BY <1>0 DEF Draws
<1> DEFINE Lower(t) == /\ draw'[t].rev <= rev' /\ draw'[t].serial <= latest'
                       /\ At(t, "publish")' => draw'[t].rev <= handed'.rev
           Numbered == /\ IF pending' = 0 THEN rev' = asked' ELSE pending' = asked' /\ rev' < asked'
                       /\ handed'.rev <= rev' /\ submitted' <= latest'
<1>2. rev <= rev' /\ latest <= latest' /\ handed.rev <= handed'.rev
      => \A t \in Threads : draw'[t] = draw[t] => Lower(t)
  <2> SUFFICES ASSUME rev <= rev', latest <= latest', handed.rev <= handed'.rev,
                      NEW t \in Threads, draw'[t] = draw[t]
               PROVE  Lower(t)
    OBVIOUS
  <2>1. /\ draw[t].rev <= rev /\ draw[t].serial <= latest
        /\ At(t, "publish") => draw[t].rev <= handed.rev
    BY DEF Revisions
  <2>2. rev' \in Nat /\ latest' \in Nat /\ handed'.rev \in Nat /\ handed.rev \in Nat
    BY <1>0, NumbersTyped, PicturesTyped
  <2>3. draw'[t].rev <= rev' /\ draw'[t].serial <= latest' BY <1>0, <1>1, <2>1, <2>2
  <2>4. At(t, "publish")' => draw'[t].rev <= handed'.rev BY <1>1, <2>1, <2>2 DEF At
  <2> QED BY <2>3, <2>4
<1>3. UNCHANGED <<rev, pending, asked, latest, submitted, handed>>
      => Numbered /\ rev <= rev' /\ latest <= latest' /\ handed.rev <= handed'.rev
  BY <1>0 DEF Revisions
<1>4. ConsumePendingLayout /\ UNCHANGED <<asked, latest, submitted, handed>>
      => Numbered /\ rev <= rev' /\ latest <= latest' /\ handed.rev <= handed'.rev
  BY <1>0 DEF Revisions, ConsumePendingLayout
<1>5. Numbered /\ (\A t \in Threads : Lower(t)) => Revisions' BY DEF Revisions
<1>6. ASSUME NEW t \in Threads, Drawing(t) PROVE Revisions'
  <2>1. \A u \in Threads \ {t} : draw'[u] = draw[u]
    BY <1>0, <1>6 DEF Drawing, TakeSnapshot, DrawBusy, DrawFails, NotDrawn, DrawInto,
       FinishDrawn, FinishStale, Publish, Rejected, WaitTimesOut, Returns, Ends
  <2>2. CASE TakeSnapshot(t)
    <3>1. Numbered /\ rev <= rev' /\ latest <= latest' /\ handed.rev <= handed'.rev
      BY <1>4, <2>2 DEF TakeSnapshot
    <3>2. /\ draw'[t].rev = draw[t].rev \/ draw'[t].rev = rev'
          /\ draw'[t].serial = draw[t].serial /\ ~At(t, "publish")'
      BY <1>0, <2>2 DEF TakeSnapshot, Draws, At
    <3>3. draw[t].rev <= rev /\ draw[t].serial <= latest BY DEF Revisions
    <3>4. rev' \in Nat /\ latest' = latest BY <2>2, NumbersTyped DEF TakeSnapshot
    <3>5. Lower(t) BY <1>0, <1>1, <3>1, <3>2, <3>3, <3>4
    <3> HIDE DEF Numbered, Lower
    <3> QED BY <1>2, <1>5, <2>1, <3>1, <3>5
  <2>3. CASE FinishDrawn(t)
    <3>1. /\ UNCHANGED <<rev, pending, asked, latest, submitted>>
          /\ draw[t].rev = rev /\ handed'.rev = rev
      BY <2>3 DEF FinishDrawn, StaleLayout
    <3>2. Numbered /\ rev <= rev' /\ latest <= latest' /\ handed.rev <= handed'.rev
      BY <1>0, <3>1 DEF Revisions
    <3>3. draw'[t].rev = rev /\ draw'[t].serial = 0 BY <1>0, <2>3, <3>1 DEF FinishDrawn, Idle
    <3>4. Lower(t) BY <1>0, <3>1, <3>3
    <3> HIDE DEF Numbered, Lower
    <3> QED BY <1>2, <1>5, <2>1, <3>2, <3>4
  <2>4. CASE ~TakeSnapshot(t) /\ ~FinishDrawn(t)
    <3>1. UNCHANGED <<rev, pending, asked, latest, submitted, handed>>
      BY <1>6, <2>4 DEF Drawing, DrawBusy, DrawFails, DrawInto, FinishStale, Publish, Rejected,
         WaitTimesOut
    <3>2. /\ draw'[t].rev \in {0, draw[t].rev} /\ draw'[t].serial \in {0, draw[t].serial}
          /\ ~At(t, "publish")'
      <4>1. CASE DrawBusy(t) \/ DrawFails(t)
        <5>1. \/ draw'[t] = Idle
              \/ draw'[t] = [Idle EXCEPT !.pc = "refused", !.serial = draw[t].serial]
          BY <1>0, <4>1 DEF DrawBusy, DrawFails, NotDrawn
        <5>2. CASE draw'[t] = Idle BY <5>2 DEF Idle, At
        <5>3. CASE draw'[t] = [Idle EXCEPT !.pc = "refused", !.serial = draw[t].serial]
          BY <5>3 DEF Idle, At
        <5> QED BY <5>1, <5>2, <5>3
      <4>2. CASE DrawInto(t) BY <1>0, <4>2 DEF DrawInto, Draws, At
      <4>3. CASE Publish(t) BY <1>0, <4>3 DEF Publish, Idle, At
      <4>4. CASE FinishStale(t) \/ Rejected(t) \/ WaitTimesOut(t)
        BY <1>0, <4>4 DEF FinishStale, Rejected, WaitTimesOut, Returns, Ends, Idle, At
      <4> QED BY <1>6, <2>4, <4>1, <4>2, <4>3, <4>4 DEF Drawing
    <3>3. draw[t].rev <= rev /\ draw[t].serial <= latest BY DEF Revisions
    <3>4. Lower(t) BY <1>0, <1>1, <3>1, <3>2, <3>3
    <3> HIDE DEF Numbered, Lower
    <3> QED BY <1>2, <1>3, <1>5, <2>1, <3>1, <3>4
  <2> QED BY <2>2, <2>3, <2>4
<1>7. ASSUME NEW l \in Lanes, Lane(l) PROVE Revisions'
  <2>0. draw[l].rev <= rev /\ draw[l].serial <= latest BY DEF Revisions
  <2>1. \A u \in Threads \ {l} : draw'[u] = draw[u]
    BY <1>0, <1>7 DEF Lane, LaneRequests, LaneGivesUp, LaneRetries, Ends
  <2>2. UNCHANGED <<rev, pending, asked, latest, handed>>
    BY <1>7 DEF Lane, LaneRequests, LaneGivesUp, LaneRetries
  <2>3. submitted' <= latest
    BY <1>0, <1>1, <1>7, <2>0 DEF Lane, LaneRequests, LaneGivesUp, LaneRetries, TakenBack, Revisions
  <2>4. /\ draw'[l].rev \in {0, draw[l].rev} /\ draw'[l].serial \in {0, latest}
        /\ ~At(l, "publish")'
    BY <1>0, <1>7 DEF Lane, LaneRequests, LaneGivesUp, LaneRetries, Ends, Idle, Draws, At
  <2>5. Lower(l) BY <1>0, <1>1, <2>0, <2>2, <2>4
  <2>6. Numbered /\ rev <= rev' /\ latest <= latest' /\ handed.rev <= handed'.rev
    BY <1>0, <2>2, <2>3 DEF Revisions
  <2> HIDE DEF Numbered, Lower
  <2> QED BY <1>2, <1>5, <2>1, <2>5, <2>6
<1>8. CASE RenderLoop
  <2>1. Numbered /\ rev <= rev' /\ latest <= latest' /\ handed.rev <= handed'.rev
    BY <1>3, <1>4, <1>8 DEF RenderLoop, LoopTicks, LoopLooks, LoopBegins
  <2>2. \A u \in Threads \ {Loop} : draw'[u] = draw[u]
    BY <1>0, <1>8 DEF RenderLoop, LoopTicks, LoopLooks, LoopBegins, Goes
  <2>3. draw[Loop].rev <= rev /\ draw[Loop].serial <= latest BY DEF Revisions
  <2>4. draw'[Loop] = draw[Loop] \/ /\ draw'[Loop].rev = draw[Loop].rev
                                    /\ draw'[Loop].serial = draw[Loop].serial
                                    /\ ~At(Loop, "publish")'
    BY <1>0, <1>8 DEF RenderLoop, LoopTicks, LoopLooks, LoopBegins, Goes, Draws, At
  <2>5. rev' \in Nat /\ latest' \in Nat BY NumbersTyped
  <2>6. Lower(Loop)
    <3>1. CASE draw'[Loop] = draw[Loop]
      <4> HIDE DEF Lower
      <4> QED BY <1>2, <2>1, <3>1
    <3>2. CASE draw'[Loop] # draw[Loop] BY <1>0, <1>1, <2>1, <2>3, <2>4, <2>5, <3>2
    <3> QED BY <3>1, <3>2
  <2> HIDE DEF Numbered, Lower
  <2> QED BY <1>2, <1>5, <2>1, <2>2, <2>6
<1>9. CASE Platform
  <2>1. Numbered /\ rev <= rev' /\ latest <= latest' /\ handed.rev <= handed'.rev
    <3>1. CASE ApplyLayout
      <4>1. UNCHANGED <<latest, submitted, handed>> /\ asked' = asked + 1 /\ rev <= asked
            /\ handed.rev <= rev /\ submitted <= latest /\ handed.rev \in Nat
        BY <1>0, <3>1 DEF ApplyLayout, Revisions
      <4>2. \/ pending' = asked + 1 /\ rev' = rev
            \/ pending' = 0 /\ rev' = asked + 1
        BY <3>1, <4>1 DEF ApplyLayout
      <4> QED BY <1>0, <4>1, <4>2
    <3>2. CASE RequestLayoutFrame
      BY <1>0, <3>2 DEF RequestLayoutFrame, Revisions
    <3>3. CASE ~ApplyLayout /\ ~RequestLayoutFrame
      BY <1>3, <1>9, <3>3 DEF Platform, Pause, Play, Seek, CreateVideoTargetRing, InstallRing,
         ForcePreviewRedraw
    <3> QED BY <3>1, <3>2, <3>3
  <2>2. draw' = draw
    BY <1>9 DEF Platform, ApplyLayout, RequestLayoutFrame, Pause, Play, Seek,
       CreateVideoTargetRing, InstallRing, ForcePreviewRedraw
  <2> HIDE DEF Numbered, Lower
  <2> QED BY <1>2, <1>5, <2>1, <2>2
<1>10. CASE Compositor
  <2>1. UNCHANGED <<rev, pending, asked, latest, submitted, handed>>
    BY <1>10 DEF Compositor, CompositeSamples, CompositePresents, CompositeFails
  <2>2. \A t \in Threads : \/ draw'[t] = draw[t] \/ draw'[t] = Idle
                           \/ draw'[t] = [draw[t] EXCEPT !.pc = "sampled"]
    BY <1>10 DEF Compositor, CompositeSamples, CompositePresents, CompositeFails, Completes
  <2>3. ASSUME NEW t \in Threads PROVE Lower(t)
    <3>1. CASE draw'[t] = draw[t]
      <4> HIDE DEF Lower
      <4> QED BY <1>2, <1>3, <2>1, <3>1
    <3>2. CASE draw'[t] = Idle BY <1>0, <2>1, <3>2 DEF Idle, At
    <3>3. CASE draw'[t] = [draw[t] EXCEPT !.pc = "sampled"]
      <4>1. draw'[t].rev = draw[t].rev /\ draw'[t].serial = draw[t].serial /\ ~At(t, "publish")'
        BY <1>0, <3>3 DEF Draws, At
      <4> QED BY <1>0, <1>1, <2>1, <4>1 DEF Revisions
    <3> QED BY <2>2, <3>1, <3>2, <3>3
  <2> HIDE DEF Numbered, Lower
  <2> QED BY <1>3, <1>5, <2>1, <2>3
<1>11. CASE ReleaseNext \/ Timers
  <2>1. UNCHANGED <<rev, pending, asked, latest, submitted, handed, draw>>
    BY <1>11, TimersSteady DEF ReleaseNext, Steady
  <2> HIDE DEF Numbered, Lower
  <2> QED BY <1>2, <1>3, <1>5, <2>1
<1> QED BY <1>6, <1>7, <1>8, <1>9, <1>10, <1>11 DEF Next, Timers

(* A lane that is not at work on the newest intent may go where it likes.  *)
LEMMA Persists ==
  ASSUME UNCHANGED <<api, submitted, latest, asked>>,
         \A l \in Lanes : \/ draw'[l] = draw[l]
                          \/ draw[l].pc \notin {"snapshot", "refused", "notready", "draw", "drawn"}
  PROVE  (Intended => Intended') /\ (Underway => Underway')
BY DEF Intended, Underway

LEMMA Quiet ==
  ASSUME Waiting, Promised, RingPromised,
         UNCHANGED <<api, submitted, latest, asked, pending, gaveUp, handed, made, crossed>>,
         redraw => redraw',
         \A l \in Lanes : \/ draw'[l] = draw[l]
                          \/ draw[l].pc \notin {"snapshot", "refused", "notready", "draw", "drawn"}
  PROVE  Waiting' /\ Promised' /\ RingPromised'
<1>1. (Intended => Intended') /\ (Underway => Underway') BY Persists
<1>2. Waiting' BY <1>1 DEF Waiting
<1>3. Promised' BY <1>1 DEF Promised
<1>4. RingPromised' BY DEF RingPromised
<1> QED BY <1>2, <1>3, <1>4

LEMMA DrawingKept ==
  ASSUME Typed, Held, Kept, NEW t \in Threads, Drawing(t)
  PROVE  Waiting' /\ Promised' /\ RingPromised'
<1> USE Numbers DEF Kept, ringVars, layoutVars, timerVars, intentVars, compositorVars, ghosts,
        bounds
<1>0. /\ draw \in [Threads -> Draws] /\ handed \in [rev : Nat, ring : Nat]
      /\ rev \in Nat /\ pending \in Nat /\ asked \in Nat
  BY DEF Typed
<1>1. \A u \in Threads \ {t} : draw'[u] = draw[u]
  BY <1>0 DEF Drawing, TakeSnapshot, DrawBusy, DrawFails, NotDrawn, DrawInto, FinishDrawn,
     FinishStale, Publish, Rejected, WaitTimesOut, Returns, Ends
<1>2. UNCHANGED <<api, submitted, latest, asked, gaveUp, made>>
  BY DEF Drawing, TakeSnapshot, DrawBusy, DrawFails, DrawInto, FinishDrawn, FinishStale, Publish,
     Rejected, WaitTimesOut
<1>3. \A l \in Lanes \ {t} : draw'[l] = draw[l] BY <1>1
<1>4. CASE TakeSnapshot(t)
  <2>0. redraw => redraw' BY <1>4, Zenon DEF TakeSnapshot, ConsumePendingLayout
  <2>9. pending' = 0 /\ rev' = asked
    BY <1>0, <1>4 DEF TakeSnapshot, ConsumePendingLayout, Revisions
  <2>1. pending' = 0 /\ rev' = asked /\ (redraw => redraw') BY <2>0, <2>9
  <2>2. At(t, "snapshot") /\ UNCHANGED <<handed, crossed>> BY <1>4 DEF TakeSnapshot
  <2>3. /\ draw'[t].serial = draw[t].serial
        /\ \/ draw'[t].pc = "notready"
           \/ draw'[t].pc = "draw" /\ draw'[t].rev = asked
    BY <1>0, <1>4, <2>1 DEF TakeSnapshot, Draws
  <2>4. Intended => Intended' \/ Underway'
    <3>1. ASSUME NEW l \in Lanes, draw[l].serial = latest,
                 draw[l].pc \in {"snapshot", "refused", "notready"}
          PROVE  Intended' \/ Underway'
      <4>1. CASE l = t BY <1>2, <2>3, <3>1, <4>1 DEF Intended, Underway
      <4>2. CASE l # t BY <1>2, <1>3, <3>1, <4>2 DEF Intended
      <4> QED BY <4>1, <4>2
    <3> QED BY <1>2, <3>1 DEF Intended
  <2>5. Underway => Underway' BY <1>2, <1>3, <2>2 DEF Underway, At
  <2>6. Waiting' BY <2>1 DEF Waiting
  <2>7. Promised' BY <1>2, <2>1, <2>2, <2>4, <2>5 DEF Promised
  <2>8. RingPromised' BY <1>2, <2>1, <2>2 DEF RingPromised
  <2> QED BY <2>6, <2>7, <2>8
<1>5. CASE DrawBusy(t) \/ DrawFails(t)
  <2>1. At(t, "draw") /\ UNCHANGED <<pending, redraw, handed, crossed>>
    BY <1>5 DEF DrawBusy, DrawFails
  <2>2. t \in Lanes => draw'[t].pc = "refused" /\ draw'[t].serial = draw[t].serial
    <3>1. t \in Lanes => draw'[t] = [Idle EXCEPT !.pc = "refused", !.serial = draw[t].serial]
      BY <1>0, <1>5 DEF DrawBusy, DrawFails, NotDrawn
    <3> QED BY <3>1 DEF Idle
  <2>3. Intended => Intended' BY <1>2, <1>3, <2>1 DEF Intended, At
  <2>4. Underway => Underway' \/ Intended' BY <1>2, <1>3, <2>2 DEF Underway, Intended
  <2>5. Waiting' BY <1>2, <2>1, <2>3 DEF Waiting
  <2>6. Promised' BY <1>2, <2>1, <2>3, <2>4 DEF Promised
  <2>7. RingPromised' BY <1>2, <2>1 DEF RingPromised
  <2> QED BY <2>5, <2>6, <2>7
<1>6. CASE DrawInto(t)
  <2>1. At(t, "draw") /\ UNCHANGED <<pending, redraw, handed, crossed>> BY <1>6 DEF DrawInto
  <2>2. draw'[t].pc = "drawn" /\ draw'[t].rev = draw[t].rev /\ draw'[t].serial = draw[t].serial
    BY <1>0, <1>6 DEF DrawInto, Draws
  <2>3. Intended => Intended' BY <1>2, <1>3, <2>1 DEF Intended, At
  <2>4. Underway => Underway' BY <1>2, <1>3, <2>2 DEF Underway
  <2>5. Waiting' BY <1>2, <2>1, <2>3 DEF Waiting
  <2>6. Promised' BY <1>2, <2>1, <2>3, <2>4 DEF Promised
  <2>7. RingPromised' BY <1>2, <2>1 DEF RingPromised
  <2> QED BY <2>5, <2>6, <2>7
<1>7. CASE FinishDrawn(t)
  <2>1. /\ At(t, "drawn") /\ UNCHANGED <<rev, pending, ring>> /\ draw[t].rev = rev
        /\ handed' = [rev |-> draw[t].rev, ring |-> draw[t].target[1]]
        /\ crossed' = (crossed \/ (draw[t].target[1] # ring /\ api # "force"))
    BY <1>7 DEF FinishDrawn, StaleLayout
  <2>2. Intended => Intended' BY <1>2, <1>3, <2>1 DEF Intended, At
  <2>3. Waiting' BY <1>2, <2>1, <2>2 DEF Waiting
  <2>4. handed'.rev = asked \/ pending > 0 BY <1>0, <2>1 DEF Revisions
  <2>5. Promised' BY <1>2, <2>1, <2>2, <2>4 DEF Promised, Waiting
  <2>6. handed'.ring = ring \/ crossed' \/ api' = "force" BY <1>2, <2>1
  <2>7. RingPromised' BY <1>2, <2>6 DEF RingPromised, Held, Rings
  <2> QED BY <2>3, <2>5, <2>7
<1>8. CASE FinishStale(t)
  <2>1. At(t, "drawn") /\ redraw' = TRUE /\ UNCHANGED <<pending, handed, crossed>>
    BY <1>8 DEF FinishStale
  <2>2. Intended => Intended' BY <1>2, <1>3, <2>1 DEF Intended, At
  <2> QED BY <1>2, <2>1, <2>2 DEF Waiting, Promised, RingPromised
<1>9. CASE Publish(t) \/ Rejected(t) \/ WaitTimesOut(t)
  <2>1. UNCHANGED <<pending, handed, crossed, redraw>>
    BY <1>9 DEF Publish, Rejected, WaitTimesOut
  <2>2. draw[t].pc \notin {"snapshot", "refused", "notready", "draw", "drawn"}
    BY <1>9 DEF Publish, Rejected, WaitTimesOut, At
  <2> QED BY <1>2, <1>3, <2>1, <2>2, Quiet
<1> QED BY <1>4, <1>5, <1>6, <1>7, <1>8, <1>9 DEF Drawing

LEMMA LaneKept ==
  ASSUME Typed, Kept, NEW l \in Lanes, Lane(l)
  PROVE  Waiting' /\ Promised' /\ RingPromised'
<1> USE Numbers DEF Kept, ringVars, layoutVars, timerVars, intentVars, compositorVars, ghosts,
        bounds
<1>0. draw \in [Threads -> Draws] /\ latest \in Nat /\ submitted \in Int BY DEF Typed
<1>1. UNCHANGED <<api, latest, asked, pending, handed, made, crossed, redraw>>
  BY DEF Lane, LaneRequests, LaneGivesUp, LaneRetries
<1>2. \A k \in Lanes \ {l} : draw'[k] = draw[k]
  BY <1>0 DEF Lane, LaneRequests, LaneGivesUp, LaneRetries, Ends
<1>3. draw[l].pc \notin {"draw", "drawn"}
  BY DEF Lane, LaneRequests, LaneGivesUp, LaneRetries, At
<1>4. Underway => Underway' BY <1>1, <1>2, <1>3 DEF Underway
<1>5. gaveUp => gaveUp' BY DEF Lane, LaneRequests, LaneGivesUp, LaneRetries
<1>6. Intended => Intended' \/ gaveUp'
  <2>1. CASE LaneRequests(l)
    <3>1. draw'[l].serial = latest /\ draw'[l].pc \in {"refused", "snapshot"}
      BY <1>0, <2>1 DEF LaneRequests, Draws
    <3> QED BY <1>1, <3>1 DEF Intended
  <2>2. CASE LaneGivesUp(l)
    <3>1. submitted' = submitted /\ (draw[l].serial = latest => gaveUp')
      BY <2>2 DEF LaneGivesUp
    <3> QED BY <1>1, <1>2, <3>1 DEF Intended
  <2>3. CASE LaneRetries(l)
    <3>1. submitted' = TakenBack(l) BY <2>3 DEF LaneRetries
    <3>2. CASE draw[l].serial = latest
      <4>1. submitted' < latest BY <1>0, <3>1, <3>2 DEF TakenBack, Revisions
      <4> QED BY <1>1, <4>1 DEF Intended
    <3>3. CASE draw[l].serial # latest
      <4>1. submitted' = submitted BY <3>1, <3>3 DEF TakenBack
      <4> QED BY <1>1, <1>2, <3>3, <4>1 DEF Intended
    <3> QED BY <3>2, <3>3
  <2> QED BY <2>1, <2>2, <2>3 DEF Lane
<1>7. Waiting' BY <1>1, <1>5, <1>6 DEF Waiting
<1>8. Promised' BY <1>1, <1>4, <1>5, <1>6 DEF Promised
<1>9. RingPromised' BY <1>1 DEF RingPromised
<1> QED BY <1>7, <1>8, <1>9

LEMMA PlatformKept ==
  ASSUME Typed, Held, Kept, Platform
  PROVE  Waiting' /\ Promised' /\ RingPromised'
<1> USE DEF Kept, ringVars, layoutVars, timerVars, intentVars, compositorVars, ghosts, bounds
<1>0. latest \in Nat /\ submitted \in Int BY DEF Typed
<1>1. CASE ApplyLayout
  <2>1. /\ api = "idle" /\ api' = "request"
        /\ UNCHANGED <<handed, made, crossed, redraw>>
    BY <1>1 DEF ApplyLayout, Calls
  <2> QED BY <2>1 DEF Waiting, Promised, RingPromised, Intended
<1>2. CASE RequestLayoutFrame
  <2>1. /\ api = "request" /\ latest' = latest + 1 /\ submitted' = submitted
        /\ UNCHANGED <<handed, made, crossed, redraw>>
    BY <1>2 DEF RequestLayoutFrame
  <2>2. Intended' BY <1>0, <2>1 DEF Revisions, Intended
  <2> QED BY <2>1, <2>2 DEF Waiting, Promised, RingPromised
<1>3. CASE Pause \/ Play \/ Seek
  <2>1. /\ UNCHANGED <<api, submitted, latest, asked, pending, gaveUp, handed, made, crossed, draw>>
        /\ redraw => redraw'
    BY <1>3 DEF Pause, Play, Seek
  <2> QED BY <2>1, Quiet
<1>4. CASE CreateVideoTargetRing \/ InstallRing \/ ForcePreviewRedraw
  <2>1. /\ UNCHANGED <<submitted, latest, asked, pending, gaveUp, handed, crossed, draw>>
        /\ redraw => redraw'
        /\ api # "request"
        /\ api' \in {"install", "force"} \/ redraw'
    BY <1>4 DEF CreateVideoTargetRing, InstallRing, ForcePreviewRedraw, Forced, Calls
  <2>2. (Intended => Intended') /\ (Underway => Underway')
    BY <2>1 DEF Intended, Underway
  <2>3. Waiting' BY <2>1, <2>2 DEF Waiting
  <2>4. Promised' BY <2>1, <2>2 DEF Promised
  <2>5. RingPromised' BY <2>1 DEF RingPromised
  <2> QED BY <2>3, <2>4, <2>5
<1> QED BY <1>1, <1>2, <1>3, <1>4 DEF Platform

LEMMA KeptStep ==
  ASSUME Typed, Held, Kept, Next
  PROVE  Kept'
<1> USE Numbers DEF Kept, ringVars, layoutVars, timerVars, intentVars, compositorVars, ghosts,
        bounds
<1>0. draw \in [Threads -> Draws] BY DEF Typed
<1>1. Revisions' BY RevisionsStep
<1>2. ASSUME NEW t \in Threads, Drawing(t) PROVE Kept' BY <1>1, <1>2, DrawingKept
<1>3. ASSUME NEW l \in Lanes, Lane(l) PROVE Kept' BY <1>1, <1>3, LaneKept
<1>4. CASE Platform BY <1>1, <1>4, PlatformKept
<1>5. CASE RenderLoop
  <2>1. UNCHANGED <<api, submitted, latest, asked, gaveUp, handed, made, crossed>>
    BY <1>5 DEF RenderLoop, LoopTicks, LoopLooks, LoopBegins
  <2>0. redraw => redraw'
    <3>1. CASE LoopBegins BY <3>1, Zenon DEF LoopBegins, ConsumePendingLayout
    <3>2. CASE ~LoopBegins BY <1>5, <3>2 DEF RenderLoop, LoopTicks, LoopLooks
    <3> QED BY <3>1, <3>2
  <2>2. (pending' = pending \/ pending' = 0) /\ (redraw => redraw')
    BY <1>5, <2>0 DEF RenderLoop, LoopTicks, LoopLooks, LoopBegins, ConsumePendingLayout
  <2>3. \A l \in Lanes : draw'[l] = draw[l]
    BY <1>0, <1>5 DEF RenderLoop, LoopTicks, LoopLooks, LoopBegins, Goes
  <2>4. (Intended => Intended') /\ (Underway => Underway') BY <2>1, <2>3, Persists
  <2>5. Waiting' BY <2>1, <2>2, <2>4 DEF Waiting
  <2>6. Promised' BY <2>1, <2>2, <2>4 DEF Promised
  <2>7. RingPromised' BY <2>1, <2>2 DEF RingPromised
  <2> QED BY <1>1, <2>5, <2>6, <2>7
<1>6. CASE Compositor
  <2>1. UNCHANGED <<api, submitted, latest, asked, pending, gaveUp, handed, made, crossed, redraw>>
    BY <1>6 DEF Compositor, CompositeSamples, CompositePresents, CompositeFails
  <2>2. \A l \in Lanes : \/ draw'[l] = draw[l]
                         \/ draw[l].pc \notin {"snapshot", "refused", "notready", "draw", "drawn"}
    BY <1>0, <1>6 DEF Compositor, CompositeSamples, CompositePresents, CompositeFails, Completes, At
  <2> QED BY <1>1, <2>1, <2>2, Quiet
<1>7. CASE ReleaseNext \/ Timers
  <2>1. UNCHANGED <<api, submitted, latest, asked, pending, gaveUp, handed, made, crossed, redraw,
                    draw>>
    BY <1>7, TimersSteady DEF ReleaseNext, Steady
  <2> QED BY <1>1, <2>1, Quiet
<1> QED BY <1>2, <1>3, <1>4, <1>5, <1>6, <1>7 DEF Next, Timers
-----------------------------------------------------------------------------
(* What is shown, and what is on the screen. *)

(* A step that touches neither what is shown nor a draw that is about to   *)
(* change it.                                                              *)
LEMMA Shows ==
  ASSUME UNCHANGED <<overtaken, shown, handed>>, face' = face \/ face' = Torn, redraw => redraw',
         \A t \in Threads : draw'[t] = draw[t] \/ draw[t].pc \notin {"drawn", "publish"}
  PROVE  /\ Changing => Changing'
         /\ face' # face => Changing'
         /\ (\E t \in Threads : At(t, "publish")) => \E t \in Threads : At(t, "publish")'
         /\ FaceHanded => FaceHanded'
<1>1. Changing => Changing' BY DEF Changing, At
<1>2. face' # face => Changing' BY DEF Changing, Torn
<1> QED BY <1>1, <1>2 DEF FaceHanded, At

LEMMA Watches ==
  ASSUME Seen, UNCHANGED <<overtaken, shown, handed, signal, screen, abandoned>>,
         face' = face \/ face' = Torn, redraw => redraw',
         composite'.busy = composite.busy, composite'.picture = composite.picture,
         \A t \in Threads : draw'[t] = draw[t] \/ draw[t].pc \notin {"drawn", "publish"}
  PROVE  Seen'
<1> USE DEF Seen
<1>1. /\ Changing => Changing'
      /\ face' # face => Changing'
      /\ FaceHanded'
      /\ (\E t \in Threads : At(t, "publish")) => \E t \in Threads : At(t, "publish")'
  BY Shows
<1>2. ScreenFollows' BY <1>1 DEF ScreenFollows
<1> QED BY <1>1, <1>2

LEMMA DrawingSeen ==
  ASSUME Typed, Revisions, Seen, NEW t \in Threads, Drawing(t)
  PROVE  Seen'
<1> USE Numbers DEF ringVars, layoutVars, timerVars, intentVars, compositorVars, ghosts, bounds
<1>0. /\ draw \in [Threads -> Draws] /\ handed \in [rev : Nat, ring : Nat]
  BY DEF Typed
<1>1. \A u \in Threads \ {t} : draw'[u] = draw[u]
  BY <1>0 DEF Drawing, TakeSnapshot, DrawBusy, DrawFails, NotDrawn, DrawInto, FinishDrawn,
     FinishStale, Publish, Rejected, WaitTimesOut, Returns, Ends
<1>2. CASE TakeSnapshot(t)
  <2>1. redraw => redraw' BY <1>2, Zenon DEF TakeSnapshot, ConsumePendingLayout
  <2>2. /\ UNCHANGED <<overtaken, shown, handed, signal, screen, abandoned, face, composite>>
        /\ draw[t].pc \notin {"drawn", "publish"}
    BY <1>2 DEF TakeSnapshot, At
  <2> QED BY <1>1, <2>1, <2>2, Watches
<1>3. CASE DrawBusy(t) \/ DrawFails(t)
  <2>1. /\ UNCHANGED <<overtaken, shown, handed, signal, screen, abandoned, redraw, composite>>
        /\ face' = face \/ face' = Torn
        /\ draw[t].pc \notin {"drawn", "publish"}
    BY <1>3 DEF DrawBusy, DrawFails, At
  <2> QED BY <1>1, <2>1, Watches
<1>4. CASE DrawInto(t)
  <2>1. /\ UNCHANGED <<overtaken, shown, handed, signal, screen, abandoned, redraw, composite>>
        /\ draw[t].pc \notin {"drawn", "publish"}
    BY <1>4 DEF DrawInto, At
  <2>2. CASE <<ring, FirstAvailable>> = shown
    <3>1. At(t, "drawn")' /\ draw'[t].target = shown'
      BY <1>0, <1>4, <2>2 DEF DrawInto, At, Draws
    <3>2. Changing' BY <3>1 DEF Changing
    <3> QED BY <3>2 DEF Seen, FaceHanded, ScreenFollows
  <2>3. CASE <<ring, FirstAvailable>> # shown
    <3>1. face' = face BY <1>4, <2>3 DEF DrawInto
    <3> QED BY <1>1, <2>1, <3>1, Watches
  <2> QED BY <2>2, <2>3
<1>5. CASE FinishDrawn(t)
  <2>1. At(t, "publish")' /\ draw'[t].rev = handed'.rev
    BY <1>0, <1>5 DEF FinishDrawn, Idle, At
  <2> QED BY <2>1 DEF Seen, FaceHanded, ScreenFollows
<1>6. CASE FinishStale(t) \/ Rejected(t)
  <2>1. Changing' BY <1>6 DEF FinishStale, Rejected, Changing
  <2> QED BY <2>1 DEF Seen, FaceHanded, ScreenFollows
<1>7. CASE Publish(t)
  <2>1. /\ signal' /\ overtaken' = (draw[t].rev < handed.rev) /\ face' = draw[t].rev
        /\ handed' = handed /\ At(t, "publish")
    BY <1>7 DEF Publish
  <2>2. draw[t].rev \in Nat /\ handed.rev \in Nat /\ draw[t].rev <= handed.rev
    BY <1>0, <2>1 DEF Draws, Revisions
  <2>3. overtaken' \/ face' = handed'.rev
    <3>1. CASE draw[t].rev < handed.rev BY <2>1, <3>1, Zenon
    <3>2. CASE ~ (draw[t].rev < handed.rev)
      <4>1. draw[t].rev = handed.rev BY <2>2, <3>2
      <4> QED BY <2>1, <4>1
    <3> QED BY <3>1, <3>2
  <2> QED BY <2>1, <2>3 DEF Seen, FaceHanded, ScreenFollows, Changing
<1>8. CASE WaitTimesOut(t)
  <2>1. /\ UNCHANGED <<overtaken, shown, handed, redraw, face>> /\ signal'
        /\ draw[t].pc \notin {"drawn", "publish"}
    BY <1>8 DEF WaitTimesOut
  <2>2. FaceHanded' BY <1>1, <2>1, Shows DEF Seen
  <2> QED BY <2>1, <2>2 DEF Seen, ScreenFollows
<1> QED BY <1>2, <1>3, <1>4, <1>5, <1>6, <1>7, <1>8 DEF Drawing

LEMMA CompositorSeen ==
  ASSUME Typed, Seen, Compositor
  PROVE  Seen'
<1> USE Numbers DEF ringVars, layoutVars, timerVars, intentVars, compositorVars, ghosts, bounds
<1>1. UNCHANGED <<overtaken, shown, handed, face, redraw>>
  BY DEF Compositor, CompositeSamples, CompositePresents, CompositeFails
<1>2. \A t \in Threads : draw'[t] = draw[t] \/ draw[t].pc \notin {"drawn", "publish"}
  BY DEF Compositor, CompositeSamples, CompositePresents, CompositeFails, Completes, At
<1>3. /\ Changing => Changing'
      /\ FaceHanded'
      /\ (\E t \in Threads : At(t, "publish")) => \E t \in Threads : At(t, "publish")'
  BY <1>1, <1>2, Shows DEF Seen
<1>4. CASE CompositeSamples
  <2>1. composite'.busy /\ composite'.picture = face' BY <1>1, <1>4 DEF CompositeSamples
  <2> QED BY <1>3, <2>1 DEF Seen, ScreenFollows
<1>5. CASE CompositePresents
  <2>1. /\ composite.busy /\ composite' = NoComposite /\ screen' = composite.picture
        /\ signal' = signal
    BY <1>5 DEF CompositePresents, Completes
  <2>2. ~composite'.busy BY <2>1 DEF NoComposite
  <2> QED BY <1>1, <1>3, <2>1, <2>2 DEF Seen, ScreenFollows
<1>6. CASE CompositeFails
  <2>1. /\ composite' = NoComposite /\ signal' = (signal \/ Awaited) /\ abandoned' = ~Awaited
    BY <1>6 DEF CompositeFails, Completes, Retry
  <2>2. signal' \/ abandoned'
    <3>1. CASE Awaited BY <2>1, <3>1
    <3>2. CASE ~Awaited BY <2>1, <3>2
    <3> QED BY <3>1, <3>2
  <2>3. ~composite'.busy BY <2>1 DEF NoComposite
  <2> QED BY <1>3, <2>2, <2>3 DEF Seen, ScreenFollows
<1> QED BY <1>4, <1>5, <1>6 DEF Compositor

LEMMA SeenStep ==
  ASSUME Typed, Revisions, Seen, Next
  PROVE  Seen'
<1> USE Numbers DEF ringVars, layoutVars, timerVars, intentVars, compositorVars, ghosts, bounds
<1>0. /\ draw \in [Threads -> Draws]
      /\ composite \in [busy : BOOLEAN, picture : Nat, counts : BOOLEAN]
  BY DEF Typed
<1>1. ASSUME NEW t \in Threads, Drawing(t) PROVE Seen' BY <1>1, DrawingSeen
<1>2. ASSUME NEW l \in Lanes, Lane(l) PROVE Seen'
  <2>1. UNCHANGED <<overtaken, shown, handed, signal, screen, abandoned, face, composite, redraw>>
    BY <1>2 DEF Lane, LaneRequests, LaneGivesUp, LaneRetries
  <2>2. \A t \in Threads : draw'[t] = draw[t] \/ draw[t].pc \notin {"drawn", "publish"}
    BY <1>0, <1>2 DEF Lane, LaneRequests, LaneGivesUp, LaneRetries, Ends, At
  <2> QED BY <2>1, <2>2, Watches
<1>3. CASE RenderLoop
  <2>1. UNCHANGED <<overtaken, shown, handed, signal, screen, abandoned, face, composite>>
    BY <1>3 DEF RenderLoop, LoopTicks, LoopLooks, LoopBegins
  <2>2. redraw => redraw'
    <3>1. CASE LoopBegins BY <3>1, Zenon DEF LoopBegins, ConsumePendingLayout
    <3>2. CASE ~LoopBegins BY <1>3, <3>2 DEF RenderLoop, LoopTicks, LoopLooks
    <3> QED BY <3>1, <3>2
  <2>3. \A t \in Threads : draw'[t] = draw[t] \/ draw[t].pc \notin {"drawn", "publish"}
    BY <1>0, <1>3 DEF RenderLoop, LoopTicks, LoopLooks, LoopBegins, Goes, At
  <2> QED BY <2>1, <2>2, <2>3, Watches
<1>4. CASE Platform
  <2>1. /\ UNCHANGED <<overtaken, shown, handed, signal, screen, abandoned, face, draw>>
        /\ redraw => redraw'
    BY <1>4 DEF Platform, ApplyLayout, RequestLayoutFrame, Pause, Play, Seek,
       CreateVideoTargetRing, InstallRing, ForcePreviewRedraw, Forced
  <2>2. composite'.busy = composite.busy /\ composite'.picture = composite.picture
    BY <1>0, <1>4 DEF Platform, ApplyLayout, RequestLayoutFrame, Pause, Play, Seek,
       CreateVideoTargetRing, InstallRing, ForcePreviewRedraw
  <2> QED BY <2>1, <2>2, Watches
<1>5. CASE Compositor BY <1>5, CompositorSeen
<1>6. CASE ReleaseNext \/ Timers
  <2>1. UNCHANGED <<overtaken, shown, handed, signal, screen, abandoned, face, composite, redraw,
                    draw>>
    BY <1>6, TimersSteady DEF ReleaseNext, Steady
  <2> QED BY <2>1, Watches
<1> QED BY <1>1, <1>2, <1>3, <1>4, <1>5, <1>6 DEF Next, Timers
-----------------------------------------------------------------------------
IInv == Typed /\ Held /\ Kept /\ Seen

LEMMA KeptInit == Init => Kept /\ Seen
<1> SUFFICES ASSUME Init PROVE Kept /\ Seen OBVIOUS
<1> USE Numbers DEF Init
<1>1. Revisions BY DEF Revisions, Idle, At
<1>2. Waiting /\ Promised /\ RingPromised BY DEF Waiting, Promised, RingPromised
<1>3. FaceHanded /\ ScreenFollows BY DEF FaceHanded, ScreenFollows, NoComposite
<1> QED BY <1>1, <1>2, <1>3 DEF Kept, Seen

LEMMA Stutters ==
  ASSUME IInv, UNCHANGED vars
  PROVE  IInv'
<1>0. /\ UNCHANGED <<ring, made, slot, queue, api, rev, pending, asked, latest, submitted>>
      /\ UNCHANGED <<draw, handed, composite, face, shown, screen, signal, redraw>>
      /\ UNCHANGED <<gaveUp, crossed, overtaken, abandoned>>
  BY DEF vars, ringVars, layoutVars, intentVars, compositorVars, ghosts
<1>1. Typed' BY <1>0 DEF IInv, Typed
<1>2. Held'
  <2>1. \A t \in Threads : HasTarget(t)' <=> HasTarget(t) BY <1>0 DEF HasTarget
  <2> QED BY <1>0, <2>1, NoneMoves DEF IInv, Held, Rings
<1>3. Kept'
  <2>1. Revisions' BY <1>0 DEF IInv, Kept, Revisions, At
  <2> QED BY <1>0, <2>1, Quiet DEF IInv, Kept
<1>4. Seen' BY <1>0, Watches DEF IInv
<1> QED BY <1>1, <1>2, <1>3, <1>4 DEF IInv

(* The inductive invariant of a run of the presentation.                   *)
THEOREM Inductive == Spec => []IInv
<1>1. Init => IInv BY HeldInit, KeptInit DEF IInv
<1>2. IInv /\ [Next]_vars => IInv'
  <2>1. CASE Next
    BY <2>1, TypedStep, HeldStep, KeptStep, SeenStep DEF IInv, Held, Kept
  <2>2. CASE UNCHANGED vars BY <2>2, Stutters
  <2> QED BY <2>1, <2>2
<1> QED BY <1>1, <1>2, PTL DEF Spec

LEMMA DrawnAtRest == Typed /\ Kept => LatestLayoutDrawn
<1> SUFFICES ASSUME Typed, Kept, AtRest, ~gaveUp
             PROVE  handed.rev = asked /\ (crossed \/ handed.ring = made)
  BY DEF LatestLayoutDrawn
<1>1. ~redraw /\ api = "idle" /\ latest = submitted /\ latest \in Nat
  BY DEF AtRest, Typed
<1>2. \A l \in Lanes : draw[l].pc = "idle" BY Numbers DEF AtRest, At
<1>3. ~ (submitted < latest) BY <1>1
<1>4. ~Intended /\ ~Underway BY <1>1, <1>2, <1>3 DEF Intended, Underway
<1> QED BY <1>1, <1>4 DEF Kept, Promised, RingPromised

LEMMA ShownAtRest == Typed /\ Kept /\ Seen => NewestLayoutShown
<1> SUFFICES ASSUME Typed, Kept, Seen, AtRest, ~gaveUp, ~overtaken, ~abandoned, face # Torn
             PROVE  screen = asked
  BY DEF NewestLayoutShown
<1>1. ~Changing /\ ~signal /\ ~composite.busy /\ ~ \E t \in Threads : At(t, "publish")
  BY DEF AtRest, Changing, At
<1>2. screen = face /\ face = handed.rev BY <1>1 DEF Seen, FaceHanded, ScreenFollows
<1>3. handed.rev = asked BY DrawnAtRest DEF LatestLayoutDrawn
<1> QED BY <1>2, <1>3

(* OneHolder, of OnFrameAvailable, release_offscreen_target, the release   *)
(* queue and the ring they give targets back to.                           *)
THEOREM OneHolderCorrect == Spec => []OneHolder
BY Inductive, HeldOnce, PTL DEF IInv

(* LatestLayoutDrawn, of finish_presented_draw, the lanes of               *)
(* WindowsViewportPresentationController and the ring's replacement.       *)
THEOREM LatestLayoutCorrect == Spec => []LatestLayoutDrawn
BY Inductive, DrawnAtRest, PTL DEF IInv

(* NewestLayoutShown, of PresentVideoTarget and the compositor's thread.   *)
THEOREM NewestLayoutCorrect == Spec => []NewestLayoutShown
BY Inductive, ShownAtRest, PTL DEF IInv
=============================================================================

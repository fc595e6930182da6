---------------------------- MODULE AudioEngine ----------------------------
(***************************************************************************)
(* src/native/audio: AudioEngine, its AudioTrackRegistry and the           *)
(* AudioMixer, between the renderer's thread, whose calls follow one       *)
(* another under lifecycle_mutex_, and the audio device's callback.  The   *)
(* callback takes no lock from one read to the next, so tracks and the     *)
(* audible track may change in the middle of a render.  What a buffer      *)
(* holds is AudioTrack's; here a buffer counts how often the render in     *)
(* progress took samples from it.                                          *)
(***************************************************************************)
EXTENDS Integers, FiniteSets

CONSTANTS
  Files,       \* file ids of tracks with audio
  Buffers,     \* PcmBuffers, each made with its AudioDecodeThread
  None,        \* kAudioNoTrack, and no buffer
  FadeRenders, \* renders a cross-fade lasts: kAudioFadeFrames over the device's buffer
  MaxCalls     \* bound: calls of the engine

ASSUME EngineAssumption ==
  /\ None \notin Files \union Buffers /\ FadeRenders \in Nat \ {0} /\ MaxCalls \in Nat

VARIABLES
  tracks,       \* AudioTrackRegistry: the buffer of each registered file
  mixed,        \* the mixer's copy of it
  paused,       \* AudioEngine::paused_
  unused, running, decodePaused,   \* decoders not made yet, running, told to pause
  playing, target, current, fading, fadeFrom, fadeTo, fadePos,   \* AudioMixer
  cb,           \* where the device's callback is
  taken, steady,\* samples taken by this render; buffers mixed since it began
  call, calls   \* the engine call in progress

callVars == <<call, calls>>
mixVars  == <<current, fading, fadeFrom, fadeTo, fadePos>>
cbVars   == <<cb, taken, steady>>
regVars  == <<tracks, paused, unused, running, decodePaused>>
vars == <<regVars, mixed, playing, target, mixVars, cbVars, callVars>>

NoCall == [op |-> "none", at |-> "done", file |-> None, buffer |-> None, old |-> {}]
Published(registry) == {registry[f] : f \in Files} \ {None}

Init ==
  /\ tracks = [f \in Files |-> None] /\ mixed = tracks
  /\ paused = TRUE /\ unused = Buffers /\ running = {} /\ decodePaused = {}
  /\ playing = FALSE /\ target = None
  /\ current = None /\ fading = FALSE /\ fadeFrom = None /\ fadeTo = None /\ fadePos = 0
  /\ cb = "idle" /\ taken = [b \in Buffers |-> 0] /\ steady = {}
  /\ call = NoCall /\ calls = 0

-----------------------------------------------------------------------------
(* Calls of the engine.                                                    *)

Calling(op, at) == call.op = op /\ call.at = at

Enter(c) == call = NoCall /\ calls < MaxCalls /\ calls' = calls + 1 /\ call' = c

(* add_track makes a buffer and starts its decoder, paused until told.     *)
AddStart(f, b) ==
  /\ b \in unused
  /\ Enter([NoCall EXCEPT !.op = "add", !.at = "pause", !.file = f, !.buffer = b])
  /\ unused' = unused \ {b} /\ running' = running \union {b}
  /\ decodePaused' = decodePaused \union {b}
  /\ UNCHANGED <<tracks, paused, mixed, playing, target, mixVars, cbVars>>

AddSetPaused ==
  /\ Calling("add", "pause")
  /\ decodePaused' = IF paused THEN decodePaused ELSE decodePaused \ {call.buffer}
  /\ call' = [call EXCEPT !.at = "publish"]
  /\ UNCHANGED <<tracks, paused, unused, running, mixed, playing, target, mixVars, cbVars,
                 calls>>

(* Mutant: the new track's buffer is not published.                        *)
AddPublishNot ==
  /\ Calling("add", "publish")
  /\ tracks' = [tracks EXCEPT ![call.file] = call.buffer]
  /\ call' = [call EXCEPT !.at = "stop", !.old = {tracks[call.file]} \ {None}]
  /\ UNCHANGED <<paused, unused, running, decodePaused, mixed, playing, target, mixVars, cbVars,
                 calls>>

(* add_or_replace and publish_buffers_locked: set_tracks is atomic under   *)
(* the mixer's mutex, and a render under way goes on with the new map.     *)
AddPublish ==
  /\ Calling("add", "publish")
  /\ tracks' = [tracks EXCEPT ![call.file] = call.buffer]
  /\ mixed' = tracks'
  /\ steady' = steady \intersect Published(mixed')
  /\ call' = [call EXCEPT !.at = "stop", !.old = {tracks[call.file]} \ {None}]
  /\ UNCHANGED <<paused, unused, running, decodePaused, playing, target, mixVars, cb, taken,
                 calls>>

(* stop_track of what was replaced or removed joins the decode thread.     *)
StopOld ==
  /\ call.at = "stop"
  /\ running' = running \ call.old
  /\ decodePaused' = decodePaused \ call.old
  /\ call' = IF call.op = "remove" THEN [call EXCEPT !.at = "active"] ELSE NoCall
  /\ UNCHANGED <<tracks, paused, unused, mixed, playing, target, mixVars, cbVars, calls>>

RemoveUnpublish(f) ==
  /\ tracks[f] # None
  /\ Enter([NoCall EXCEPT !.op = "remove", !.at = "stop", !.file = f, !.old = {tracks[f]}])
  /\ tracks' = [tracks EXCEPT ![f] = None]
  /\ mixed' = tracks'
  /\ steady' = steady \intersect Published(mixed')
  /\ UNCHANGED <<paused, unused, running, decodePaused, playing, target, mixVars, cb, taken>>

RemoveActive ==
  /\ Calling("remove", "active")
  /\ target' = IF target = call.file THEN None ELSE target
  /\ call' = NoCall
  /\ UNCHANGED <<regVars, mixed, playing, mixVars, cbVars, calls>>

ClearUnpublish ==
  /\ Enter([NoCall EXCEPT !.op = "clear", !.at = "active", !.old = Published(tracks)])
  /\ tracks' = [f \in Files |-> None]
  /\ mixed' = tracks'
  /\ steady' = {}
  /\ UNCHANGED <<paused, unused, running, decodePaused, playing, target, mixVars, cb, taken>>

ClearActive ==
  /\ Calling("clear", "active")
  /\ target' = None
  /\ call' = [call EXCEPT !.at = "stop"]
  /\ UNCHANGED <<regVars, mixed, playing, mixVars, cbVars, calls>>

(* play and pause: paused_, the decoders and the output, in opposite order.*)
PlayPauseEnter(op) ==
  /\ Enter([NoCall EXCEPT !.op = op, !.at = IF op = "play" THEN "decoders" ELSE "output"])
  /\ paused' = (op = "pause")
  /\ UNCHANGED <<tracks, unused, running, decodePaused, mixed, playing, target, mixVars,
                 cbVars>>

PlayPauseDecoders ==
  /\ call.op \in {"play", "pause"} /\ call.at = "decoders"
  /\ decodePaused' = IF call.op = "pause" THEN decodePaused \union Published(tracks)
                     ELSE decodePaused \ Published(tracks)
  /\ call' = IF call.op = "play" THEN [call EXCEPT !.at = "output"] ELSE NoCall
  /\ UNCHANGED <<tracks, paused, unused, running, mixed, playing, target, mixVars, cbVars,
                 calls>>

PlayPauseOutput ==
  /\ call.op \in {"play", "pause"} /\ call.at = "output"
  /\ playing' = (call.op = "play")
  /\ call' = IF call.op = "pause" THEN [call EXCEPT !.at = "decoders"] ELSE NoCall
  /\ UNCHANGED <<regVars, mixed, target, mixVars, cbVars, calls>>

SetActiveTrack(f) ==
  /\ call = NoCall /\ calls < MaxCalls
  /\ target' = f /\ calls' = calls + 1
  /\ UNCHANGED <<regVars, mixed, playing, mixVars, cbVars, call>>

-----------------------------------------------------------------------------
(* AudioMixer::render.                                                     *)

Read(file) ==
  taken' = [b \in Buffers |->
              IF file # None /\ mixed[file] = b THEN taken[b] + 1 ELSE taken[b]]

(* A render begins: silence unless playing; a new audible track starts a   *)
(* cross-fade; with nothing audible no track is read nor discarded.        *)
RenderBegin ==
  /\ cb = "idle" /\ playing
  /\ taken' = [b \in Buffers |-> 0] /\ steady' = Published(mixed)
  /\ IF target # current /\ ~fading
       THEN fading' = TRUE /\ fadeFrom' = current /\ fadeTo' = target /\ fadePos' = 0
       ELSE UNCHANGED <<fading, fadeFrom, fadeTo, fadePos>>
  /\ cb' = IF fading' THEN "readFrom" ELSE IF target = None THEN "idle" ELSE "read"
  /\ current' = IF ~fading' THEN target ELSE current
  /\ UNCHANGED <<regVars, mixed, playing, target, callVars>>

(* The track the render began with, whatever is audible by now.            *)
RenderRead ==
  /\ cb = "read"
  /\ Read(current) /\ cb' = "discard"
  /\ UNCHANGED <<regVars, mixed, playing, target, mixVars, steady, callVars>>

RenderReadFrom ==
  /\ cb = "readFrom"
  /\ Read(fadeFrom) /\ cb' = "readTo"
  /\ UNCHANGED <<regVars, mixed, playing, target, mixVars, steady, callVars>>

(* Mutant: the end of the fade is not noticed.                             *)
RenderMixNeverDone ==
  /\ cb = "readTo"
  /\ Read(fadeTo) /\ cb' = "discardFade"
  /\ fadePos' = IF fadePos < FadeRenders THEN fadePos + 1 ELSE fadePos
  /\ UNCHANGED <<regVars, mixed, playing, target, current, fading, fadeFrom, fadeTo, steady,
                 callVars>>

RenderReadToAndMix ==
  /\ cb = "readTo"
  /\ Read(fadeTo) /\ cb' = "discardFade"
  /\ fadePos' = IF fadePos < FadeRenders THEN fadePos + 1 ELSE fadePos
  /\ fading' = (fadePos' < FadeRenders)
  /\ current' = IF fading' THEN current ELSE fadeTo
  /\ UNCHANGED <<regVars, mixed, playing, target, fadeFrom, fadeTo, steady, callVars>>

(* Mutant: only the track faded to is kept from being discarded.           *)
KeptFadeToOnly == IF cb = "discard" THEN {current} ELSE {fadeTo}

Kept == IF cb = "discard" THEN {current} ELSE {fadeFrom, fadeTo}

(* Mutant: nothing is discarded during a cross-fade.                       *)
RenderDiscardNotInFade ==
  /\ cb \in {"discard", "discardFade"}
  /\ taken' = [b \in Buffers |->
                 IF cb = "discard"
                 THEN taken[b] + Cardinality({f \in Files \ Kept : mixed[f] = b})
                 ELSE taken[b]]
  /\ cb' = "idle"
  /\ UNCHANGED <<regVars, mixed, playing, target, mixVars, steady, callVars>>

(* discard_unheard, in one critical section of the mixer.                  *)
RenderDiscard ==
  /\ cb \in {"discard", "discardFade"}
  /\ taken' = [b \in Buffers |->
                 taken[b] + Cardinality({f \in Files \ Kept : mixed[f] = b})]
  /\ cb' = "idle"
  /\ UNCHANGED <<regVars, mixed, playing, target, mixVars, steady, callVars>>

-----------------------------------------------------------------------------
Calls ==
  \/ \E f \in Files, b \in Buffers : AddStart(f, b)
  \/ AddSetPaused \/ AddPublish \/ StopOld
  \/ \E f \in Files : RemoveUnpublish(f)
  \/ RemoveActive \/ ClearUnpublish \/ ClearActive
  \/ \E op \in {"play", "pause"} : PlayPauseEnter(op)
  \/ PlayPauseDecoders \/ PlayPauseOutput
  \/ \E f \in Files \union {None} : SetActiveTrack(f)

Render == RenderBegin \/ RenderRead \/ RenderReadFrom \/ RenderReadToAndMix \/ RenderDiscard

Next == Calls \/ Render

(* The device keeps calling back.                                          *)
Spec == Init /\ [][Next]_vars /\ WF_vars(Render)

-----------------------------------------------------------------------------
(* Between calls registry and mixer agree, exactly the registered decoders *)
(* run, and engine, decoders and output are paused or playing together,    *)
(* whatever order tracks were added, replaced and removed in.              *)
AtRest ==
  call = NoCall =>
    /\ mixed = tracks /\ running = Published(tracks)
    /\ playing = ~paused
    /\ decodePaused = IF paused THEN running ELSE {}

(* No render takes samples twice from one buffer: read and discarded, or   *)
(* read for both ends of a cross-fade.                                     *)
TakenOnce == \A b \in Buffers : taken[b] <= 1

(* The tracks that are mixed from the beginning of a render to its end     *)
(* advance together, heard or not: what keeps a track in step with the     *)
(* others until it becomes the audible one.                                *)
LockStep ==
  cb = "idle" => \A a, b \in steady : taken[a] = taken[b]

(* While playing, a cross-fade ends: the audible track becomes the current *)
(* one unless it is changed again and again.                               *)
FadeSettles ==
  \A f \in Files \union {None} : <>[](playing /\ target = f) => <>[](current = f /\ ~fading)
=============================================================================

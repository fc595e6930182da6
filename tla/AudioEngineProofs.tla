------------------------- MODULE AudioEngineProofs -------------------------
(***************************************************************************)
(* The safety of AudioEngine, for any files, any number of buffers, calls  *)
(* and renders of a cross-fade: between calls the copies agree, no render  *)
(* takes samples of a buffer twice, and the tracks mixed throughout a      *)
(* render advance together although tracks and the audible one change in   *)
(* the middle of it.                                                       *)
(***************************************************************************)
EXTENDS AudioEngine, FiniteSetTheorems, TLAPS

FileOrNone == Files \union {None}

CallType ==
  [op : {"none", "add", "remove", "clear", "play", "pause"},
   at : {"done", "pause", "publish", "stop", "active", "decoders", "output"},
   file : FileOrNone, buffer : Buffers \union {None}, old : SUBSET Buffers]

RegistryTypes ==
  /\ tracks \in [Files -> Buffers \union {None}] /\ mixed = tracks
  /\ paused \in BOOLEAN /\ playing \in BOOLEAN
  /\ unused \subseteq Buffers /\ running \subseteq Buffers /\ decodePaused \subseteq Buffers

MixTypes ==
  /\ target \in FileOrNone /\ current \in FileOrNone
  /\ fading \in BOOLEAN /\ fadeFrom \in FileOrNone /\ fadeTo \in FileOrNone
  /\ cb \in {"idle", "read", "readFrom", "readTo", "discard", "discardFade"}
  /\ taken \in [Buffers -> Nat] /\ steady \subseteq Buffers

(* Every variable has its type, and the mixer's map is the registry's:     *)
(* both are set in one section.                                            *)
Typed == RegistryTypes /\ MixTypes /\ call \in CallType

(* A call is where its kind of call can be.                                *)
CallShape ==
  /\ call.op = "none" => call = NoCall
  /\ call.op = "add" => /\ call.at \in {"pause", "publish", "stop"}
                        /\ call.file \in Files
                        /\ call.buffer \in Buffers
  /\ call.op = "remove" => call.at \in {"stop", "active"}
  /\ call.op = "clear" => call.at \in {"active", "stop"}
  /\ call.op \in {"play", "pause"} => call.at \in {"decoders", "output"}

(* The buffer made by the add in progress, not published yet.              *)
Made == IF call.op = "add" /\ call.at \in {"pause", "publish"} THEN {call.buffer} ELSE {}

(* What was taken from the registry and is still to be stopped.            *)
Leaving ==
  IF call.at = "stop" \/ (call.op = "clear" /\ call.at = "active") THEN call.old ELSE {}

(* A buffer is not made yet, being published, published under one file, or *)
(* on its way out; and it is published once in its life.                   *)
OneHome ==
  /\ \A f, g \in Files : tracks[f] # None /\ tracks[f] = tracks[g] => f = g
  /\ unused \intersect (Published(tracks) \union Made) = {}
  /\ Made \intersect Published(tracks) = {}
  /\ Leaving \intersect Published(tracks) = {}

(* Exactly these decoders run, and they are told to pause as the engine    *)
(* is, but for the new one and for a play or pause not through with them.  *)
Decoders ==
  /\ running = Published(tracks) \union Made \union Leaving
  /\ IF call.op \in {"play", "pause"} THEN decodePaused \subseteq running
     ELSE IF call.op = "add" /\ call.at = "pause"
     THEN decodePaused = (IF paused THEN running ELSE {call.buffer})
     ELSE decodePaused = (IF paused THEN running ELSE {})
  /\ call.op = "play" /\ call.at = "output" => decodePaused = {}

(* Output and engine, but for a play or pause not through with the output. *)
Output ==
  /\ call.op = "play" => ~paused
  /\ call.op = "pause" => paused
  /\ call.op \notin {"play", "pause"} => playing = ~paused
  /\ call.op = "pause" /\ call.at = "decoders" => ~playing

(* The files this render has read so far.                                  *)
ReadSoFar ==
  IF cb = "discard" THEN {current}
  ELSE IF cb = "readTo" THEN {fadeFrom}
  ELSE IF cb = "discardFade" THEN {fadeFrom, fadeTo}
  ELSE {}

(* A render that reads for a cross-fade reads two different files.         *)
FadeApart ==
  /\ fading \/ cb \in {"readFrom", "readTo", "discardFade"} => fadeFrom # fadeTo

(* In the middle of a render a buffer has been taken from at most once,    *)
(* and if so it has no other home than the file it was read for.  A buffer *)
(* mixed since the render began was taken from exactly if it was read for. *)
TakenInRender ==
  /\ \A b \in Buffers : taken[b] <= 1
  /\ \A b \in Buffers : taken[b] > 0 => b \notin unused \union Made
  /\ cb # "idle" => \A f \in Files \ ReadSoFar : mixed[f] # None => taken[mixed[f]] = 0
  /\ steady \subseteq Published(mixed)
  /\ cb # "idle" =>
       \A f \in Files \intersect ReadSoFar : mixed[f] \in steady => taken[mixed[f]] = 1
  /\ cb = "idle" => \A a, b \in steady : taken[a] = taken[b]

IInv == Typed /\ CallShape /\ OneHome /\ Decoders /\ Output /\ FadeApart /\ TakenInRender
-----------------------------------------------------------------------------
LEMMA NoneApart == None \notin Files /\ None \notin Buffers
  BY EngineAssumption

(* The device's callback writes nothing of the engine; a call writes       *)
(* nothing of the mixer but target, mixed and with it steady.              *)
LEMMA Sides ==
  /\ Render => UNCHANGED <<regVars, mixed, playing, target, callVars>>
  /\ Calls => UNCHANGED <<mixVars, cb, taken>>
<1>1. Render => UNCHANGED <<regVars, mixed, playing, target, callVars>>
  BY DEF Render, RenderBegin, RenderRead, RenderReadFrom, RenderReadToAndMix, RenderDiscard
<1>2. Calls => UNCHANGED <<mixVars, cb, taken>>
  BY DEF Calls, AddStart, AddSetPaused, AddPublish, StopOld, RemoveUnpublish, RemoveActive,
         ClearUnpublish, ClearActive, PlayPauseEnter, PlayPauseDecoders, PlayPauseOutput,
         SetActiveTrack, cbVars
<1> QED BY <1>1, <1>2

LEMMA CallMade ==
  ASSUME NEW op \in {"none", "add", "remove", "clear", "play", "pause"},
         NEW at \in {"done", "pause", "publish", "stop", "active", "decoders", "output"},
         NEW f \in FileOrNone, NEW b \in Buffers \union {None}, NEW old \in SUBSET Buffers
  PROVE  [op |-> op, at |-> at, file |-> f, buffer |-> b, old |-> old] \in CallType
BY DEF CallType

(* The types, and the states of a call.                                    *)
LEMMA CallsTyped ==
  ASSUME Typed, CallShape, Calls
  PROVE  Typed' /\ CallShape'
<1>1. /\ tracks \in [Files -> Buffers \union {None}] /\ mixed = tracks
      /\ paused \in BOOLEAN /\ playing \in BOOLEAN
      /\ unused \subseteq Buffers /\ running \subseteq Buffers /\ decodePaused \subseteq Buffers
      /\ target \in FileOrNone /\ steady \subseteq Buffers
      /\ None \notin Files /\ None \notin Buffers
  BY NoneApart DEF Typed, RegistryTypes, MixTypes
<1>2. ASSUME target' \in FileOrNone, steady' \subseteq Buffers PROVE MixTypes'
  BY <1>2, Sides DEF Typed, MixTypes, mixVars
<1>3. call' \in CallType /\ CallShape'
  <2> USE DEF NoCall, Enter, Calling
  <2>0. /\ call = [op |-> call.op, at |-> call.at, file |-> call.file, buffer |-> call.buffer,
                   old |-> call.old]
        /\ call.op \in {"none", "add", "remove", "clear", "play", "pause"}
        /\ call.file \in FileOrNone /\ call.buffer \in Buffers \union {None}
        /\ call.old \in SUBSET Buffers
    BY DEF Typed, CallType
  <2>13. NoCall \in CallType /\ (call' = NoCall => CallShape')
    <3>1. NoCall \in CallType BY CallMade DEF FileOrNone
    <3>2. NoCall.op = "none" OBVIOUS
    <3>3. call' = NoCall => CallShape' BY <3>2 DEF CallShape
    <3> QED BY <3>1, <3>3
  <2>1. ASSUME NEW f \in Files, NEW b \in Buffers, AddStart(f, b)
        PROVE call' \in CallType /\ CallShape'
    <3>1. call' = [op |-> "add", at |-> "pause", file |-> f, buffer |-> b,
                   old |-> {}]
      BY <2>0, <2>1 DEF AddStart
    <3>2. call' \in CallType BY <1>1, <2>0, CallMade, <3>1 DEF FileOrNone
    <3> QED BY <1>1, <3>1, <3>2 DEF CallShape, NoCall
  <2>2. CASE AddSetPaused
    <3>1. call' = [op |-> "add", at |-> "publish", file |-> call.file, buffer |-> call.buffer,
                   old |-> call.old]
      BY <2>0, <2>2 DEF AddSetPaused
    <3>2. call.file \in Files /\ call.buffer \in Buffers
      BY <2>2 DEF AddSetPaused, CallShape
    <3>3. call' \in CallType BY <1>1, <2>0, CallMade, <3>1, <3>2 DEF FileOrNone
    <3> QED BY <1>1, <3>1, <3>2, <3>3 DEF CallShape, NoCall
  <2>3. CASE AddPublish
    <3>1. call' = [op |-> "add", at |-> "stop", file |-> call.file, buffer |-> call.buffer,
                   old |-> {tracks[call.file]} \ {None}]
      BY <2>0, <2>3 DEF AddPublish
    <3>2. call.file \in Files /\ call.buffer \in Buffers
      BY <2>3 DEF AddPublish, CallShape
    <3>3. {tracks[call.file]} \ {None} \in SUBSET Buffers
      BY <1>1, <3>2
    <3>4. call' \in CallType BY <1>1, <2>0, CallMade, <3>1, <3>2, <3>3 DEF FileOrNone
    <3> QED BY <1>1, <3>1, <3>2, <3>3, <3>4 DEF CallShape, NoCall
  <2>4. CASE StopOld
    <3>1. CASE call.op = "remove"
      <4>1. call' = [op |-> "remove", at |-> "active", file |-> call.file,
                     buffer |-> call.buffer, old |-> call.old]
        BY <2>0, <2>4, <3>1 DEF StopOld
      <4>2. call' \in CallType BY <2>0, <4>1, CallMade
      <4> QED BY <4>1, <4>2 DEF CallShape
    <3>2. CASE call.op # "remove"
      <4>1. call' = NoCall BY <2>4, <3>2 DEF StopOld
      <4> QED BY <2>13, <4>1
    <3> QED BY <3>1, <3>2
  <2>5. ASSUME NEW f \in Files, RemoveUnpublish(f) PROVE call' \in CallType /\ CallShape'
    <3>1. call' = [op |-> "remove", at |-> "stop", file |-> f, buffer |-> None,
                   old |-> {tracks[f]}]
      BY <2>0, <2>5 DEF RemoveUnpublish
    <3>2. {tracks[f]} \in SUBSET Buffers
      BY <1>1, <2>5 DEF RemoveUnpublish
    <3>3. call' \in CallType BY <1>1, <2>0, CallMade, <3>1, <3>2 DEF FileOrNone
    <3> QED BY <1>1, <3>1, <3>2, <3>3 DEF CallShape, NoCall
  <2>6. CASE RemoveActive BY <2>6, <2>13 DEF RemoveActive
  <2>7. CASE ClearUnpublish
    <3>1. call' = [op |-> "clear", at |-> "active", file |-> None, buffer |-> None,
                   old |-> Published(tracks)]
      BY <2>0, <2>7 DEF ClearUnpublish
    <3>2. Published(tracks) \in SUBSET Buffers
      BY <1>1 DEF Published
    <3>3. call' \in CallType BY <1>1, <2>0, CallMade, <3>1, <3>2 DEF FileOrNone
    <3> QED BY <1>1, <3>1, <3>2, <3>3 DEF CallShape, NoCall
  <2>8. CASE ClearActive
    <3>1. call' = [op |-> "clear", at |-> "stop", file |-> call.file, buffer |-> call.buffer,
                   old |-> call.old]
      BY <2>0, <2>8 DEF ClearActive
    <3>2. call' \in CallType BY <1>1, <2>0, CallMade, <3>1 DEF FileOrNone
    <3> QED BY <1>1, <3>1, <3>2 DEF CallShape, NoCall
  <2>9. ASSUME NEW op \in {"play", "pause"}, PlayPauseEnter(op)
        PROVE  call' \in CallType /\ CallShape'
    <3> DEFINE at == IF op = "play" THEN "decoders" ELSE "output"
    <3>1. call' = [op |-> op, at |-> at, file |-> None, buffer |-> None, old |-> {}]
      BY <2>9 DEF PlayPauseEnter
    <3>2. at \in {"decoders", "output"} OBVIOUS
    <3> HIDE DEF at
    <3>3. call' \in CallType BY <3>1, <3>2, CallMade DEF FileOrNone
    <3> QED BY <3>1, <3>2, <3>3 DEF CallShape
  <2>10. CASE PlayPauseDecoders
    <3>1. CASE call.op = "play"
      <4>1. call' = [op |-> "play", at |-> "output", file |-> call.file,
                     buffer |-> call.buffer, old |-> call.old]
        BY <2>0, <2>10, <3>1 DEF PlayPauseDecoders
      <4>2. call' \in CallType BY <2>0, <4>1, CallMade
      <4> QED BY <4>1, <4>2 DEF CallShape
    <3>2. CASE call.op # "play"
      <4>1. call' = NoCall BY <2>10, <3>2 DEF PlayPauseDecoders
      <4> QED BY <2>13, <4>1
    <3> QED BY <3>1, <3>2
  <2>11. CASE PlayPauseOutput
    <3>1. CASE call.op = "pause"
      <4>1. call' = [op |-> "pause", at |-> "decoders", file |-> call.file,
                     buffer |-> call.buffer, old |-> call.old]
        BY <2>0, <2>11, <3>1 DEF PlayPauseOutput
      <4>2. call' \in CallType BY <2>0, <4>1, CallMade
      <4> QED BY <4>1, <4>2 DEF CallShape
    <3>2. CASE call.op # "pause"
      <4>1. call' = NoCall BY <2>11, <3>2 DEF PlayPauseOutput
      <4> QED BY <2>13, <4>1
    <3> QED BY <3>1, <3>2
  <2>12. ASSUME NEW f \in Files \union {None}, SetActiveTrack(f)
         PROVE  call' \in CallType /\ CallShape'
    <3>1. call' = call BY <2>12 DEF SetActiveTrack
    <3> QED BY <3>1 DEF Typed, CallShape
  <2> QED BY <2>1, <2>2, <2>3, <2>4, <2>5, <2>6, <2>7, <2>8, <2>9, <2>10, <2>11, <2>12 DEF Calls
<1>4. RegistryTypes'
  <2> USE <1>1 DEF RegistryTypes, regVars
  <2>1. ASSUME NEW f \in Files, NEW b \in Buffers, AddStart(f, b) PROVE RegistryTypes'
    BY <2>1 DEF AddStart
  <2>2. CASE AddSetPaused BY <2>2 DEF AddSetPaused
  <2>3. CASE AddPublish
    <3>1. call.buffer \in Buffers BY <2>3 DEF AddPublish, Calling, CallShape
    <3>2. /\ tracks' = [tracks EXCEPT ![call.file] = call.buffer] /\ mixed' = tracks'
          /\ UNCHANGED <<paused, playing, unused, running, decodePaused>>
      BY <2>3 DEF AddPublish
    <3>3. tracks' \in [Files -> Buffers \union {None}] BY <3>1, <3>2
    <3> QED BY <3>2, <3>3
  <2>4. CASE StopOld BY <2>4 DEF StopOld
  <2>5. ASSUME NEW f \in Files, RemoveUnpublish(f) PROVE RegistryTypes'
    BY <2>5 DEF RemoveUnpublish
  <2>6. CASE RemoveActive BY <2>6 DEF RemoveActive
  <2>7. CASE ClearUnpublish BY <2>7 DEF ClearUnpublish
  <2>8. CASE ClearActive BY <2>8 DEF ClearActive
  <2>9. ASSUME NEW op \in {"play", "pause"}, PlayPauseEnter(op) PROVE RegistryTypes'
    BY <2>9 DEF PlayPauseEnter
  <2>10. CASE PlayPauseDecoders
    <3>1. /\ decodePaused' \subseteq decodePaused \union Published(tracks)
          /\ UNCHANGED <<tracks, mixed, paused, playing, unused, running>>
      BY <2>10 DEF PlayPauseDecoders
    <3>2. Published(tracks) \subseteq Buffers BY DEF Published
    <3> QED BY <3>1, <3>2
  <2>11. CASE PlayPauseOutput BY <2>11 DEF PlayPauseOutput
  <2>12. ASSUME NEW f \in Files \union {None}, SetActiveTrack(f) PROVE RegistryTypes'
    BY <2>12 DEF SetActiveTrack
  <2> QED BY <2>1, <2>2, <2>3, <2>4, <2>5, <2>6, <2>7, <2>8, <2>9, <2>10, <2>11, <2>12 DEF Calls
<1>5. target' \in FileOrNone /\ steady' \subseteq Buffers
  BY <1>1 DEF Calls, AddStart, AddSetPaused, AddPublish, StopOld, RemoveUnpublish, RemoveActive,
     ClearUnpublish, ClearActive, PlayPauseEnter, PlayPauseDecoders, PlayPauseOutput,
     SetActiveTrack, cbVars, FileOrNone
<1> QED BY <1>2, <1>3, <1>4, <1>5 DEF Typed

(* Where the buffers are.                                                  *)
LEMMA CallsOneHome ==
  ASSUME Typed, CallShape, OneHome, Calls
  PROVE  OneHome'
<1> USE NoneApart DEF Typed, RegistryTypes, CallType, CallShape, OneHome, Made, Leaving, NoCall,
        Enter, Calling, regVars, Published
<1>1. ASSUME NEW f \in Files, NEW b \in Buffers, AddStart(f, b)
      PROVE  OneHome'
  BY <1>1 DEF AddStart
<1>2. CASE AddSetPaused
  BY <1>2 DEF AddSetPaused
<1>3. CASE AddPublish
  BY <1>3 DEF AddPublish
<1>4. CASE StopOld
  BY <1>4 DEF StopOld
<1>5. ASSUME NEW f \in Files, RemoveUnpublish(f)
      PROVE  OneHome'
  BY <1>5 DEF RemoveUnpublish
<1>6. CASE RemoveActive
  BY <1>6 DEF RemoveActive
<1>7. CASE ClearUnpublish
  BY <1>7 DEF ClearUnpublish
<1>8. CASE ClearActive
  BY <1>8 DEF ClearActive
<1>9. ASSUME NEW op \in {"play", "pause"}, PlayPauseEnter(op)
      PROVE  OneHome'
  BY <1>9 DEF PlayPauseEnter
<1>10. CASE PlayPauseDecoders
  BY <1>10 DEF PlayPauseDecoders
<1>11. CASE PlayPauseOutput
  BY <1>11 DEF PlayPauseOutput
<1>12. ASSUME NEW f \in Files \union {None}, SetActiveTrack(f)
      PROVE  OneHome'
  BY <1>12 DEF SetActiveTrack
<1> QED BY <1>1, <1>2, <1>3, <1>4, <1>5, <1>6, <1>7, <1>8, <1>9, <1>10, <1>11, <1>12 DEF Calls

(* Which decoders run and pause, and the output.                           *)
LEMMA CallsDecoders ==
  ASSUME Typed, CallShape, OneHome, Decoders, Output, Calls
  PROVE  Decoders' /\ Output'
<1> USE NoneApart DEF Typed, RegistryTypes, CallType, CallShape, OneHome, Made, Leaving, NoCall,
        Enter, Calling, regVars, Published, Decoders, Output
<1>1. ASSUME NEW f \in Files, NEW b \in Buffers, AddStart(f, b)
      PROVE  Decoders' /\ Output'
  BY <1>1 DEF AddStart
<1>2. CASE AddSetPaused
  <2>1. call' = [call EXCEPT !.at = "publish"] /\ call.op = "add" /\ call.at = "pause"
    BY <1>2 DEF AddSetPaused
  <2>2. Made' = {call.buffer} /\ Made = {call.buffer} /\ Leaving = {} /\ Leaving' = {}
    BY <2>1
  <2>3. Decoders'
    <3>1. /\ decodePaused' = IF paused THEN decodePaused ELSE decodePaused \ {call.buffer}
          /\ UNCHANGED <<tracks, paused, running>>
      BY <1>2 DEF AddSetPaused
    <3>2. decodePaused' = IF paused THEN running ELSE {} BY <2>1, <3>1
    <3>3. call'.op = "add" /\ call'.at = "publish" BY <2>1
    <3>4. running' = Published(tracks') \union Made' \union Leaving' BY <2>2, <3>1
    <3> HIDE DEF Made, Leaving, Published
    <3> QED BY <3>1, <3>2, <3>3, <3>4
  <2>4. Output'
    BY <1>2, <2>1 DEF AddSetPaused
  <2> QED BY <2>3, <2>4
<1>3. CASE AddPublish
  BY <1>3 DEF AddPublish
<1>4. CASE StopOld
  BY <1>4 DEF StopOld
<1>5. ASSUME NEW f \in Files, RemoveUnpublish(f)
      PROVE  Decoders' /\ Output'
  BY <1>5 DEF RemoveUnpublish
<1>6. CASE RemoveActive
  BY <1>6 DEF RemoveActive
<1>7. CASE ClearUnpublish
  BY <1>7 DEF ClearUnpublish
<1>8. CASE ClearActive
  BY <1>8 DEF ClearActive
<1>9. ASSUME NEW op \in {"play", "pause"}, PlayPauseEnter(op)
      PROVE  Decoders' /\ Output'
  <2>1. call'.op = op /\ call'.at # "stop" /\ call.op = "none"
    BY <1>9 DEF PlayPauseEnter
  <2>2. call'.at = (IF op = "play" THEN "decoders" ELSE "output")
    BY <1>9 DEF PlayPauseEnter
  <2>3. Made' = {} /\ Leaving' = {} /\ Made = {} /\ Leaving = {}
    BY <2>1, <1>9 DEF PlayPauseEnter
  <2>4. Decoders'
    BY <1>9, <2>1, <2>2, <2>3 DEF PlayPauseEnter
  <2>5. Output'
    BY <1>9, <2>1, <2>2 DEF PlayPauseEnter
  <2> QED BY <2>4, <2>5
<1>10. CASE PlayPauseDecoders
  <2>1. CASE call.op = "play"
    <3>1. call' = [call EXCEPT !.at = "output"] /\ decodePaused' = decodePaused \ Published(tracks)
      BY <1>10, <2>1 DEF PlayPauseDecoders
    <3>2. UNCHANGED <<tracks, paused, running, playing>> BY <1>10 DEF PlayPauseDecoders
    <3>3. Made = {} /\ Made' = {} /\ Leaving = {} /\ Leaving' = {} BY <1>10, <2>1, <3>1 DEF PlayPauseDecoders
    <3>4. decodePaused' = {} BY <2>1, <3>1, <3>3
    <3>5. call'.op = "play" BY <2>1, <3>1
    <3>6. Decoders' BY <3>2, <3>3, <3>4, <3>5
    <3>7. Output' BY <2>1, <3>2, <3>5
    <3> QED BY <3>6, <3>7
  <2>2. CASE call.op = "pause"
    <3>1. call' = NoCall /\ decodePaused' = decodePaused \union Published(tracks)
      BY <1>10, <2>2 DEF PlayPauseDecoders
    <3>2. UNCHANGED <<tracks, paused, running, playing>> /\ call.at = "decoders"
      BY <1>10 DEF PlayPauseDecoders
    <3>3. Made = {} /\ Made' = {} /\ Leaving = {} /\ Leaving' = {} BY <2>2, <3>1, <3>2
    <3>4. paused /\ decodePaused' = running BY <2>2, <3>1, <3>3
    <3>5. call'.op = "none" BY <3>1
    <3>6. Decoders' BY <3>2, <3>3, <3>4, <3>5
    <3>7. Output' BY <2>2, <3>2, <3>4, <3>5
    <3> QED BY <3>6, <3>7
  <2> QED BY <1>10, <2>1, <2>2 DEF PlayPauseDecoders
<1>11. CASE PlayPauseOutput
  <2>1. Decoders'
    BY <1>11 DEF PlayPauseOutput
  <2>2. Output'
    BY <1>11 DEF PlayPauseOutput
  <2> QED BY <2>1, <2>2
<1>12. ASSUME NEW f \in Files \union {None}, SetActiveTrack(f)
      PROVE  Decoders' /\ Output'
  BY <1>12 DEF SetActiveTrack
<1> QED BY <1>1, <1>2, <1>3, <1>4, <1>5, <1>6, <1>7, <1>8, <1>9, <1>10, <1>11, <1>12 DEF Calls

(* A file has one buffer and a buffer one file, for a render's arithmetic. *)
LEMMA OneFile ==
  ASSUME Typed, OneHome, NEW b \in Buffers, NEW K
  PROVE  LET homes == {f \in Files \ K : mixed[f] = b}
         IN  /\ \A f \in Files \ K : mixed[f] = b => Cardinality(homes) = 1
             /\ (\A f \in Files \ K : mixed[f] # b) => Cardinality(homes) = 0
<1> DEFINE homes == {f \in Files \ K : mixed[f] = b}
<1>1. ASSUME NEW f \in Files \ K, mixed[f] = b
      PROVE  Cardinality(homes) = 1
  <2>1. homes = {f}
    BY <1>1, NoneApart DEF OneHome, Typed, RegistryTypes
  <2> QED BY <2>1, FS_Singleton
<1>2. ASSUME \A f \in Files \ K : mixed[f] # b
      PROVE  Cardinality(homes) = 0
  <2>1. homes = {}
    BY <1>2
  <2> QED BY <2>1, FS_EmptySet
<1> QED BY <1>1, <1>2

(* What a call does to a render under way: it takes away homes, or gives   *)
(* one to a buffer nothing was taken from.                                 *)
LEMMA CallsTaken ==
  ASSUME Typed, CallShape, OneHome, TakenInRender, Calls
  PROVE  TakenInRender'
<1> USE NoneApart DEF Typed, RegistryTypes, MixTypes, CallType, CallShape, OneHome, Made, NoCall,
        Enter, Calling, mixVars, cbVars, regVars, Published, TakenInRender, ReadSoFar
<1>1. ASSUME NEW f \in Files, NEW b \in Buffers, AddStart(f, b)
      PROVE  TakenInRender'
  BY <1>1 DEF AddStart
<1>2. CASE AddSetPaused
  BY <1>2 DEF AddSetPaused
<1>3. CASE AddPublish
  BY <1>3 DEF AddPublish
<1>4. CASE StopOld
  BY <1>4 DEF StopOld
<1>5. ASSUME NEW f \in Files, RemoveUnpublish(f)
      PROVE  TakenInRender'
  BY <1>5 DEF RemoveUnpublish
<1>6. CASE RemoveActive
  BY <1>6 DEF RemoveActive
<1>7. CASE ClearUnpublish
  BY <1>7 DEF ClearUnpublish
<1>8. CASE ClearActive
  BY <1>8 DEF ClearActive
<1>9. ASSUME NEW op \in {"play", "pause"}, PlayPauseEnter(op)
      PROVE  TakenInRender'
  BY <1>9 DEF PlayPauseEnter
<1>10. CASE PlayPauseDecoders
  BY <1>10 DEF PlayPauseDecoders
<1>11. CASE PlayPauseOutput
  BY <1>11 DEF PlayPauseOutput
<1>12. ASSUME NEW f \in Files \union {None}, SetActiveTrack(f)
      PROVE  TakenInRender'
  BY <1>12 DEF SetActiveTrack
<1> QED BY <1>1, <1>2, <1>3, <1>4, <1>5, <1>6, <1>7, <1>8, <1>9, <1>10, <1>11, <1>12 DEF Calls

(* The render itself.                                                      *)
LEMMA RenderTyped ==
  ASSUME Typed, OneHome, FadeApart, Render
  PROVE  Typed' /\ FadeApart'
<1> USE NoneApart, EngineAssumption
    DEF Typed, RegistryTypes, MixTypes, FileOrNone, FadeApart, callVars, regVars, mixVars
<1>1. CASE RenderBegin
  BY <1>1 DEF RenderBegin, Published
<1>2. CASE RenderRead
  BY <1>2 DEF RenderRead, Read
<1>3. CASE RenderReadFrom
  BY <1>3 DEF RenderReadFrom, Read
<1>4. CASE RenderReadToAndMix
  BY <1>4 DEF RenderReadToAndMix, Read
<1>5. CASE RenderDiscard
  <2>1. \A b \in Buffers : Cardinality({f \in Files \ Kept : mixed[f] = b}) \in {0, 1}
    BY OneFile
  <2>2. taken' \in [Buffers -> Nat]
    BY <1>5, <2>1 DEF RenderDiscard
  <2> QED BY <1>5, <2>2 DEF RenderDiscard
<1> QED BY <1>1, <1>2, <1>3, <1>4, <1>5 DEF Render

LEMMA RenderTaken ==
  ASSUME Typed, OneHome, FadeApart, TakenInRender, Render
  PROVE  TakenInRender'
<1> USE NoneApart
    DEF Typed, RegistryTypes, MixTypes, FileOrNone, OneHome, Published, FadeApart,
        TakenInRender, ReadSoFar, Made, callVars, regVars, mixVars
<1>1. CASE RenderBegin
  BY <1>1 DEF RenderBegin
<1>2. CASE RenderRead
  BY <1>2 DEF RenderRead, Read
<1>3. CASE RenderReadFrom
  BY <1>3 DEF RenderReadFrom, Read
<1>4. CASE RenderReadToAndMix
  BY <1>4 DEF RenderReadToAndMix, Read
<1>5. CASE RenderDiscard
  <2> DEFINE n == [b \in Buffers |-> Cardinality({f \in Files \ Kept : mixed[f] = b})]
  <2>1. \A b \in Buffers : /\ \A f \in Files \ Kept : mixed[f] = b => n[b] = 1
                           /\ (\A f \in Files \ Kept : mixed[f] # b) => n[b] = 0
    BY OneFile
  <2>2. /\ taken' = [b \in Buffers |-> taken[b] + n[b]]
        /\ cb \in {"discard", "discardFade"} /\ cb' = "idle"
        /\ UNCHANGED <<unused, call, mixed, steady>>
    BY <1>5 DEF RenderDiscard
  <2> HIDE DEF n
  <2>3. ReadSoFar = Kept BY <2>2 DEF Kept
  <2>4. \A b \in Buffers : taken'[b] = taken[b] + n[b] BY <2>2
  <2>5. \A b \in Buffers :
          \/ \E f \in Files \ Kept : mixed[f] = b /\ taken[b] = 0 /\ taken'[b] = 1
          \/ (\A f \in Files \ Kept : mixed[f] # b) /\ taken'[b] = taken[b]
    <3>1. taken \in [Buffers -> Nat] /\ None \notin Buffers
          /\ \A f \in Files \ Kept : mixed[f] # None => taken[mixed[f]] = 0
      BY <2>2, <2>3
    <3> HIDE NoneApart
        DEF Typed, RegistryTypes, MixTypes, FileOrNone, OneHome, Published, FadeApart,
            TakenInRender, ReadSoFar, Made, callVars, regVars, mixVars
    <3>2. ASSUME NEW b \in Buffers, NEW f \in Files \ Kept, mixed[f] = b
          PROVE  taken[b] = 0 /\ taken'[b] = 1
      <4>1. n[b] = 1 BY <2>1, <3>2
      <4>2. taken[b] = 0 BY <3>1, <3>2
      <4> QED BY <2>4, <4>1, <4>2
    <3>3. ASSUME NEW b \in Buffers, \A f \in Files \ Kept : mixed[f] # b
          PROVE  taken'[b] = taken[b]
      <4>1. n[b] = 0 BY <2>1, <3>3
      <4>2. taken'[b] = taken[b] + n[b] /\ taken[b] \in Nat BY <2>4, <3>1
      <4> QED BY <4>1, <4>2
    <3> QED BY <3>2, <3>3
  <2>6. \A b \in Buffers : taken'[b] <= 1 BY <2>5
  <2>7. \A b \in Buffers : taken'[b] > 0 => b \notin unused \union Made BY <2>5
  <2>8. \A b \in steady : taken'[b] = 1
    <3> SUFFICES ASSUME NEW b \in steady PROVE taken'[b] = 1 OBVIOUS
    <3>1. PICK f \in Files : mixed[f] = b OBVIOUS
    <3>2. CASE f \in Kept
      <4>1. taken[b] = 1 BY <2>2, <2>3, <3>1, <3>2
      <4> QED BY <2>5, <4>1
    <3>3. CASE f \notin Kept BY <2>5, <3>1, <3>3
    <3> QED BY <3>2, <3>3
  <2> QED BY <2>2, <2>6, <2>7, <2>8
<1> QED BY <1>1, <1>2, <1>3, <1>4, <1>5 DEF Render
-----------------------------------------------------------------------------
LEMMA InitInductive == Init => IInv
<1> SUFFICES ASSUME Init PROVE IInv
  OBVIOUS
<1> USE NoneApart DEF Init, NoCall
<1>1. Published(tracks) = {} /\ Published(mixed) = {}
  BY DEF Published
<1>2. Typed /\ CallShape
  BY DEF Typed, RegistryTypes, MixTypes, CallType, FileOrNone, CallShape
<1>3. Made = {} /\ Leaving = {}
  BY DEF Made, Leaving
<1>4. OneHome /\ Decoders /\ Output
  BY <1>1, <1>3 DEF OneHome, Decoders, Output
<1>5. FadeApart /\ TakenInRender
  BY <1>1, <1>3 DEF FadeApart, TakenInRender
<1> QED BY <1>2, <1>4, <1>5 DEF IInv

(* The copies of the registry, the decoders and what a render has taken    *)
(* agree after every step of a call or of the callback.                    *)
LEMMA StepInductive == IInv /\ [Next]_vars => IInv'
<1> SUFFICES ASSUME IInv, [Next]_vars PROVE IInv'
  OBVIOUS
<1> USE DEF IInv
<1>1. CASE Calls
  <2>1. FadeApart'
    BY <1>1, Sides DEF FadeApart, mixVars
  <2> QED BY <1>1, <2>1, CallsTyped, CallsOneHome, CallsDecoders, CallsTaken
<1>2. CASE Render
  <2>1. UNCHANGED <<regVars, mixed, playing, target, callVars>>
    BY <1>2, Sides
  <2>2. CallShape'
    BY <2>1 DEF CallShape, callVars
  <2>3. OneHome' /\ Decoders' /\ Output'
    BY <2>1 DEF OneHome, Decoders, Output, Made, Leaving, Published, regVars, callVars
  <2> QED BY <1>2, <2>2, <2>3, RenderTyped, RenderTaken
<1>3. CASE UNCHANGED vars
  BY <1>3 DEF vars, Typed, RegistryTypes, MixTypes, CallShape, OneHome, Decoders, Output,
     FadeApart, TakenInRender, ReadSoFar, Made, Leaving, Published, regVars, mixVars, cbVars,
     callVars
<1> QED BY <1>1, <1>2, <1>3 DEF Next

(* The inductive invariant, which TLC checks on the instance of the run.     *)
THEOREM Inductive == Spec => []IInv
BY InitInductive, StepInductive, PTL DEF Spec

(* Whatever order tracks were added, replaced, removed, played and paused  *)
(* in: between calls registry and mixer agree, exactly the registered      *)
(* decoders run, and all of them, engine and output are paused or none.    *)
THEOREM AtRestCorrect == Spec => []AtRest
<1>1. IInv => AtRest
  BY DEF IInv, Typed, RegistryTypes, Decoders, Output, Made, Leaving, NoCall, AtRest
<1> QED BY <1>1, Inductive, PTL

(* No render takes samples twice from one buffer, although tracks and the  *)
(* audible track change between its reads.                                 *)
THEOREM TakenOnceCorrect == Spec => []TakenOnce
<1>1. IInv => TakenOnce
  BY DEF IInv, TakenInRender, TakenOnce
<1> QED BY <1>1, Inductive, PTL

(* The tracks mixed from the beginning of a render to its end advance      *)
(* together.                                                               *)
THEOREM LockStepCorrect == Spec => []LockStep
<1>1. IInv => LockStep
  BY DEF IInv, TakenInRender, LockStep
<1> QED BY <1>1, Inductive, PTL
=============================================================================

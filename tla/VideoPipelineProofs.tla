------------------------ MODULE VideoPipelineProofs ------------------------
(***************************************************************************)
(* The safety of a seek in VideoPipeline, for any length of the file, any  *)
(* sizes of the two buffers, any codec delay and any number of seeks,      *)
(* plays and pauses: the types, that the latest seek is not lost between   *)
(* the threads, that the codec is given packets of one seek only, and how  *)
(* many frames of before a seek are in the buffer after it.                *)
(***************************************************************************)
EXTENDS VideoPipeline, FiniteSetTheorems, TLAPS

(* The operators on the queue value, as in PlaybackProofs: what each       *)
(* returns is a queue, and how it changes the number of packets.           *)
LEMMA EnqueueType ==
  ASSUME NEW Pkts, NEW r \in QueueType(Pkts), NEW p \in Pkts
  PROVE  /\ Enqueue(r, p) \in QueueType(Pkts)
         /\ Enqueue(r, p).aborted = r.aborted
         /\ ~Enqueue(r, p).flushed
         /\ Enqueue(r, p).items = Append(r.items, p)
         /\ Len(Enqueue(r, p).items) = Len(r.items) + 1
<1>1. /\ Append(r.items, p) \in Seq(Pkts)
      /\ Len(Append(r.items, p)) = Len(r.items) + 1
  BY DEF QueueType
<1> QED BY <1>1 DEF Enqueue, QueueType

LEMMA AfterPopType ==
  ASSUME NEW Pkts, NEW r \in QueueType(Pkts), NEW status \in PopStatuses,
         status = "Packet" => r.items # <<>>
  PROVE  /\ AfterPop(r, status) \in QueueType(Pkts)
         /\ AfterPop(r, status).aborted = r.aborted
         /\ ~r.flushed => ~AfterPop(r, status).flushed
         /\ status = "Packet" =>
              /\ AfterPop(r, status).items = Tail(r.items)
              /\ Len(AfterPop(r, status).items) = Len(r.items) - 1
         /\ status # "Packet" => AfterPop(r, status).items = r.items
<1>1. CASE status = "Packet"
  <2>1. AfterPop(r, status) = [r EXCEPT !.items = Tail(@)]
    BY <1>1 DEF AfterPop
  <2>2. /\ Tail(r.items) \in Seq(Pkts)
        /\ Len(Tail(r.items)) = Len(r.items) - 1
    BY <1>1 DEF QueueType
  <2> QED BY <1>1, <2>1, <2>2 DEF QueueType
<1>2. CASE status = "Flushed"
  <2>1. AfterPop(r, status) = [r EXCEPT !.flushed = FALSE]
    BY <1>2 DEF AfterPop
  <2> QED BY <1>2, <2>1 DEF QueueType
<1>3. CASE status \notin {"Packet", "Flushed"}
  <2>1. AfterPop(r, status) = r
    BY <1>3 DEF AfterPop
  <2> QED BY <1>3, <2>1
<1> QED BY <1>1, <1>2, <1>3

LEMMA StatusType ==
  ASSUME NEW Pkts, NEW r \in QueueType(Pkts)
  PROVE  /\ PopStatus(r) \in PopStatuses
         /\ TryPopStatus(r) \in PopStatuses
         /\ PopStatus(r) = "Packet" => r.items # <<>>
         /\ PopStatus(r) = "Eof" => r.items = <<>>
         /\ TryPopStatus(r) = "Packet" => r.items # <<>>
         /\ TryPopStatus(r) \in {"Eof", "Empty"} =>
              r.items = <<>> /\ ~r.aborted /\ ~r.flushed
  BY DEF PopStatus, TryPopStatus, PopStatuses, QueueType

LEMMA QueueOpsType ==
  ASSUME NEW Pkts, NEW r \in QueueType(Pkts)
  PROVE  /\ Flush(r) \in QueueType(Pkts) /\ Flush(r).items = <<>>
         /\ Abort(r) \in QueueType(Pkts) /\ Abort(r).items = r.items
         /\ Reset(r) \in QueueType(Pkts) /\ Reset(r).items = <<>>
         /\ SignalEof(r) \in QueueType(Pkts)
         /\ SignalEof(r).items = r.items
         /\ SignalEof(r).aborted = r.aborted
         /\ SignalEof(r).flushed = r.flushed
<1>1. <<>> \in Seq(Pkts)
  OBVIOUS
<1>2. Flush(r) \in QueueType(Pkts) /\ Flush(r).items = <<>>
  BY <1>1 DEF Flush, QueueType
<1>3. Abort(r) \in QueueType(Pkts) /\ Abort(r).items = r.items
  BY DEF Abort, QueueType
<1>4. Reset(r) \in QueueType(Pkts) /\ Reset(r).items = <<>>
  BY <1>1 DEF Reset, NewQueue, QueueType
<1>5. /\ SignalEof(r) \in QueueType(Pkts)
      /\ SignalEof(r).items = r.items
      /\ SignalEof(r).aborted = r.aborted
      /\ SignalEof(r).flushed = r.flushed
  BY DEF SignalEof, QueueType
<1> QED BY <1>2, <1>3, <1>4, <1>5
-----------------------------------------------------------------------------
(* push_frame inserts where it found room: the decode thread is the only   *)
(* one to add frames.                                                      *)
InsertRoom == dc = "Insert" => Len(buffer) < BufferFrames

Typed == TypeOK /\ InsertRoom

(* The demuxer is between taking a seek and notifying it. *)
Seeking == dx \in {"Seek", "Cancel", "Notify"}

(* Numbers of seeks never go back on their way from the API thread to the  *)
(* decode thread.                                                          *)
EpochOrder ==
  /\ request <= seeks /\ dxEpoch <= seeks
  /\ request # 0 => dxEpoch <= request
  /\ notice <= dxEpoch /\ dcTaken <= dxEpoch /\ dcEpoch <= dxEpoch
  /\ notice # 0 => dcTaken <= notice /\ dcEpoch <= notice
  /\ dcTaken # 0 => dcEpoch <= dcTaken
  /\ dcTaken # 0 <=> dc = "Begin"
  /\ Seeking => dxEpoch # 0

(* The seek notified last. *)
Notified == IF notice # 0 THEN notice ELSE IF dcTaken # 0 THEN dcTaken ELSE dcEpoch

(* The demuxer flushes the queue before it notifies, so every packet there *)
(* was read after the seek notified last.                                  *)
QueueOneEpoch ==
  /\ dx \in {"Cancel", "Notify"} => queue.items = <<>>
  /\ ~Seeking => Notified = dxEpoch
  /\ \A i \in DOMAIN queue.items : queue.items[i].e = Notified

(* A packet that passes the check before the codec is of the seek begun    *)
(* last; one of a later seek does not pass, its notification waiting.      *)
ItemOneEpoch ==
  /\ dc = "Check" => notice # 0 \/ dcItem.e = dcEpoch
  /\ dc = "Send" => dcItem.e = dcEpoch

(* So is a frame on its way from the codec to the buffer. *)
FrameOneEpoch == dc \in {"Publish", "Insert"} => dcItem.e = dcEpoch

(* While Flushing stands since the clear, only the frame that push_frame   *)
(* had let pass comes into the buffer.                                     *)
FlushAdmitsOne ==
  state = "Flushing" /\ ui # "ClearFrames" /\ dc # "Stopped" =>
    Len(buffer) + (IF dc = "Insert" THEN 1 ELSE 0) <= 1
-----------------------------------------------------------------------------
LEMMA SequencesStay ==
  ASSUME NEW s \in Seq(Packets)
  PROVE  /\ \A x \in Packets : Append(s, x) \in Seq(Packets)
         /\ \A x \in Packets : Len(Append(s, x)) = Len(s) + 1
         /\ s # <<>> => Head(s) \in Packets /\ Tail(s) \in Seq(Packets)
         /\ s # <<>> => Len(Tail(s)) = Len(s) - 1
         /\ Len(s) \in Nat
         /\ Len(s) > 0 => s # <<>>
  OBVIOUS

LEMMA NoSequence == <<>> \in Seq(Packets) /\ Len(<<>>) = 0
  OBVIOUS

LEMMA Sizes ==
  /\ Last \in Nat /\ MaxSeeks \in Nat /\ MaxToggles \in Nat /\ Delay \in Nat
  /\ Capacity \in Nat /\ Capacity > 0 /\ BufferFrames \in Nat /\ BufferFrames > 0
  BY PipelineAssumption

LEMMA NoPacketIsNone == NoPacket \notin Packets
  BY PipelineAssumption DEF NoPacket, Packets

(* A thread that does not write the variables of another keeps their types. *)
LEMMA Frame ==
  /\ ApiTypes /\ UNCHANGED apiVars => ApiTypes'
  /\ DemuxTypes /\ UNCHANGED demuxVars => DemuxTypes'
  /\ DecodeTypes /\ UNCHANGED decodeVars => DecodeTypes'
  /\ RenderTypes /\ UNCHANGED renderVars => RenderTypes'
<1>1. ApiTypes /\ UNCHANGED apiVars => ApiTypes'
  BY DEF ApiTypes, apiVars
<1>2. DemuxTypes /\ UNCHANGED demuxVars => DemuxTypes'
  BY DEF DemuxTypes, demuxVars
<1>3. DecodeTypes /\ UNCHANGED decodeVars => DecodeTypes'
  BY DEF DecodeTypes, decodeVars
<1>4. RenderTypes /\ UNCHANGED renderVars => RenderTypes'
  BY DEF RenderTypes, renderVars
<1> QED BY <1>1, <1>2, <1>3, <1>4

(* The flags, which take logic only. *)
LEMMA FlagsTyped ==
  ASSUME FlagTypes, [Next]_vars
  PROVE  FlagTypes'
<1> USE DEF FlagTypes, apiVars, renderVars, demuxVars, decodeVars
<1>1. CASE Play \/ Pause \/ SeekPauseDecode \/ ApiContinue
  <2> USE DEF notByApi
  <2>1. SeekPauseDecode => FlagTypes'
    BY DEF SeekPauseDecode
  <2>2. SeekSetFlushing => FlagTypes'
    BY DEF SeekSetFlushing
  <2>3. SeekClearFrames => FlagTypes'
    BY DEF SeekClearFrames
  <2>4. SeekFlushQueue => FlagTypes'
    BY DEF SeekFlushQueue
  <2>5. SeekPauseAfterPreroll => FlagTypes'
    BY DEF SeekPauseAfterPreroll
  <2>6. SeekRequest => FlagTypes'
    BY DEF SeekRequest
  <2>7. Play => FlagTypes'
    BY DEF Play
  <2>8. Pause => FlagTypes'
    BY DEF Pause
  <2>9. ToggleDecode => FlagTypes'
    BY DEF ToggleDecode
  <2> QED
    BY <1>1, <2>1, <2>2, <2>3, <2>4, <2>5, <2>6, <2>7, <2>8, <2>9
    DEF ApiContinue
<1>2. CASE RenderNext \/ RenderResumeDecode
  <2> USE DEF notByRender
  <2>1. RenderLook => FlagTypes'
    BY DEF RenderLook
  <2>2. RenderBeginPreview => FlagTypes'
    BY DEF RenderBeginPreview
  <2>3. RenderTick => FlagTypes'
    BY DEF RenderTick
  <2>4. RenderNothing => FlagTypes'
    BY DEF RenderNothing
  <2>5. RenderPresented => FlagTypes'
    BY DEF RenderPresented
  <2>6. RenderCommit => FlagTypes'
    BY DEF RenderCommit
  <2>7. RenderResumeDecode => FlagTypes'
    BY DEF RenderResumeDecode
  <2> QED
    BY <1>2, <2>1, <2>2, <2>3, <2>4, <2>5, <2>6, <2>7
    DEF RenderNext
<1>3. CASE DemuxNext
  <2> USE DEF notByDemux
  <2>1. DemuxTakeSeek => FlagTypes'
    BY DEF DemuxTakeSeek
  <2>2. DemuxSeekInput => FlagTypes'
    BY DEF DemuxSeekInput
  <2>3. DemuxCancelDecode => FlagTypes'
    BY DEF DemuxCancelDecode
  <2>4. DemuxNotify => FlagTypes'
    BY DEF DemuxNotify
  <2>5. DemuxRead => FlagTypes'
    BY DEF DemuxRead
  <2>6. DemuxPush => FlagTypes'
    BY DEF DemuxPush
  <2>7. DemuxSignalEof => FlagTypes'
    BY DEF DemuxSignalEof
  <2>8. DemuxReportError => FlagTypes'
    BY DEF DemuxReportError
  <2>9. DemuxAbortOutputs => FlagTypes'
    BY DEF DemuxAbortOutputs
  <2> QED
    BY <1>3, <2>1, <2>2, <2>3, <2>4, <2>5, <2>6, <2>7, <2>8, <2>9
    DEF DemuxNext
<1>4. CASE DecodeNext
  <2> USE DEF notByDecode
  <2>1. DecodeTakeSeek => FlagTypes'
    BY DEF DecodeTakeSeek
  <2>2. DecodeBeginSeek => FlagTypes'
    BY DEF DecodeBeginSeek
  <2>3. DecodeUnpause => FlagTypes'
    BY DEF DecodeUnpause
  <2>4. DecodeRebuffer => FlagTypes'
    BY DEF DecodeRebuffer
  <2>5. DecodeNoSeek => FlagTypes'
    BY DEF DecodeNoSeek
  <2>6. DecodeGate => FlagTypes'
    BY DEF DecodeGate
  <2>7. DecodePop => FlagTypes'
    BY DEF DecodePop
  <2>8. DecodeCheck => FlagTypes'
    BY DEF DecodeCheck
  <2>9. DecodeSend => FlagTypes'
    BY DEF DecodeSend
  <2>10. DecodeReceive => FlagTypes'
    BY DEF DecodeReceive
  <2>11. DecodePublish => FlagTypes'
    BY DEF DecodePublish
  <2>12. DecodeInsert => FlagTypes'
    BY DEF DecodeInsert
  <2>13. DecodePreroll => FlagTypes'
    BY DEF DecodePreroll
  <2>14. DecodeReady => FlagTypes'
    BY DEF DecodeReady
  <2>15. DecodePauseSelf => FlagTypes'
    BY DEF DecodePauseSelf
  <2>16. DecodeGap => FlagTypes'
    BY DEF DecodeGap
  <2>17. DecodeEof => FlagTypes'
    BY DEF DecodeEof
  <2>18. DecodeEofReady => FlagTypes'
    BY DEF DecodeEofReady
  <2>19. DecodeEofHold => FlagTypes'
    BY DEF DecodeEofHold
  <2>20. DecodeEofHoldReady => FlagTypes'
    BY DEF DecodeEofHoldReady
  <2>21. DecodeEofHoldPause => FlagTypes'
    BY DEF DecodeEofHoldPause
  <2>22. DecodeDrain => FlagTypes'
    BY DEF DecodeDrain
  <2>23. DecodeFail => FlagTypes'
    BY DEF DecodeFail
  <2>24. DecodeFailPause => FlagTypes'
    BY DEF DecodeFailPause
  <2>25. DecodeExit => FlagTypes'
    BY DEF DecodeExit
  <2> QED
    BY <1>4, <2>1, <2>2, <2>3, <2>4, <2>5, <2>6, <2>7, <2>8, <2>9, <2>10, <2>11, <2>12,
       <2>13, <2>14, <2>15, <2>16, <2>17, <2>18, <2>19, <2>20, <2>21, <2>22, <2>23,
       <2>24, <2>25
    DEF DecodeNext
<1>5. CASE UNCHANGED vars
  BY <1>5 DEF vars, flagVars
<1> QED BY <1>1, <1>2, <1>3, <1>4, <1>5 DEF Next

(* One lemma per thread: none of its steps breaks the types.               *)
LEMMA ApiTyped ==
  ASSUME Typed, SeekPauseDecode \/ Play \/ Pause \/ ApiContinue
  PROVE  Typed'
<1>0. UNCHANGED <<demuxVars, notice, cancelled, decodeVars, rd, rdFrame>>
  BY DEF ApiContinue, SeekPauseDecode, SeekSetFlushing, SeekClearFrames, SeekFlushQueue,
         SeekPauseAfterPreroll, SeekRequest, Play, Pause, ToggleDecode, notByApi
<1>1. DemuxTypes' /\ DecodeTypes'
  BY <1>0, Frame DEF Typed, TypeOK
<1>2. RenderTypes'
  <2>1. shown' \in {shown, NoPacket}
    BY DEF ApiContinue, SeekPauseDecode, SeekSetFlushing, SeekClearFrames, SeekFlushQueue,
           SeekPauseAfterPreroll, SeekRequest, Play, Pause, ToggleDecode
  <2> QED BY <1>0, <2>1 DEF Typed, TypeOK, RenderTypes
<1>3. ApiTypes'
  BY Sizes
  DEF Typed, TypeOK, ApiTypes, ApiSteps, ApiContinue, SeekPauseDecode, SeekSetFlushing,
      SeekClearFrames, SeekFlushQueue, SeekPauseAfterPreroll, SeekRequest, Play, Pause,
      ToggleDecode
<1>4. SharedTypes' /\ InsertRoom'
  <2> USE <1>0 DEF Typed, TypeOK, ApiTypes, SharedTypes, InsertRoom, decodeVars
  <2>1. CASE SeekPauseDecode \/ Play \/ Pause \/ ToggleDecode \/ SeekPauseAfterPreroll
    BY <2>1 DEF SeekPauseDecode, Play, Pause, ToggleDecode, SeekPauseAfterPreroll
  <2>2. CASE SeekSetFlushing \/ SeekRequest
    BY <2>2 DEF SeekSetFlushing, SeekRequest, TrackStates
  <2>3. CASE SeekClearFrames
    BY <2>3, NoSequence, Sizes DEF SeekClearFrames
  <2>4. CASE SeekFlushQueue
    <3>1. queue' \in QueueType(Packets) /\ Len(queue'.items) = 0
      BY <2>4, QueueOpsType, NoSequence DEF SeekFlushQueue
    <3> QED BY <2>4, <3>1, Sizes DEF SeekFlushQueue
  <2> QED BY <2>1, <2>2, <2>3, <2>4 DEF ApiContinue
<1>5. FlagTypes'
  BY FlagsTyped DEF Next, Typed, TypeOK
<1> QED BY <1>1, <1>2, <1>3, <1>4, <1>5 DEF Typed, TypeOK

LEMMA RenderTyped ==
  ASSUME Typed, RenderNext \/ RenderResumeDecode
  PROVE  Typed'
<1>0. UNCHANGED <<apiVars, request, queue, demuxVars, notice, cancelled, pauseAfterPreroll,
                  decodeVars, state>>
  BY DEF RenderNext, RenderLook, RenderBeginPreview, RenderTick, RenderNothing,
         RenderPresented, RenderCommit, RenderResumeDecode, notByRender
<1>1. ApiTypes' /\ DemuxTypes' /\ DecodeTypes'
  BY <1>0, Frame DEF Typed, TypeOK
<1>2. buffer # <<>> => Head(buffer) \in Packets /\ Head(buffer) # NoPacket
  BY SequencesStay, NoPacketIsNone DEF Typed, TypeOK, SharedTypes
<1>3. RenderTypes'
  <2> USE DEF Typed, TypeOK, RenderTypes, RenderSteps
  <2>1. CASE RenderLook
    BY <2>1 DEF RenderLook
  <2>2. CASE RenderBeginPreview
    BY <1>2, <2>2 DEF RenderBeginPreview, HeadPreviewed
  <2>3. CASE RenderTick
    BY <1>2, <2>3 DEF RenderTick
  <2>4. CASE RenderNothing
    BY <2>4 DEF RenderNothing
  <2>5. CASE RenderPresented
    BY <2>5 DEF RenderPresented
  <2>6. CASE RenderCommit
    BY <2>6 DEF RenderCommit
  <2>7. CASE RenderResumeDecode
    BY <2>7 DEF RenderResumeDecode
  <2> QED BY <2>1, <2>2, <2>3, <2>4, <2>5, <2>6, <2>7 DEF RenderNext
<1>4. buffer' = buffer \/ (buffer # <<>> /\ buffer' = Tail(buffer))
  BY DEF RenderNext, RenderLook, RenderBeginPreview, RenderTick, RenderNothing, RenderPresented,
         RenderCommit, RenderResumeDecode
<1>5. buffer' \in Seq(Packets) /\ Len(buffer') <= Len(buffer) /\ Len(buffer') \in Nat
  <2>1. buffer \in Seq(Packets) /\ Len(buffer) \in Nat
    BY SequencesStay DEF Typed, TypeOK, SharedTypes
  <2>2. CASE buffer' = buffer
    BY <2>1, <2>2
  <2>3. CASE buffer # <<>> /\ buffer' = Tail(buffer)
    <3>1. Tail(buffer) \in Seq(Packets) /\ Len(Tail(buffer)) = Len(buffer) - 1
      BY <2>1, <2>3, SequencesStay
    <3>2. Len(Tail(buffer)) \in Nat
      BY <3>1, SequencesStay
    <3> QED BY <2>1, <2>3, <3>1, <3>2
  <2> QED BY <1>4, <2>2, <2>3
<1>6. Len(buffer') <= BufferFrames /\ (dc = "Insert" => Len(buffer') < BufferFrames)
  <2>1. Len(buffer) \in Nat /\ Len(buffer) <= BufferFrames
    BY SequencesStay DEF Typed, TypeOK, SharedTypes
  <2> QED BY <1>5, <2>1, Sizes DEF Typed, InsertRoom
<1>7. SharedTypes' /\ InsertRoom'
  <2>1. SharedTypes'
    BY <1>0, <1>5, <1>6 DEF Typed, TypeOK, SharedTypes
  <2> QED BY <1>0, <1>6, <2>1 DEF InsertRoom, decodeVars
<1>8. FlagTypes'
  BY FlagsTyped DEF Next, Typed, TypeOK
<1> QED BY <1>1, <1>3, <1>7, <1>8 DEF Typed, TypeOK

LEMMA DemuxTyped ==
  ASSUME Typed, DemuxNext
  PROVE  Typed'
<1>0. UNCHANGED <<apiVars, renderVars, decodePaused, pauseAfterPreroll, decodeVars, buffer>>
  BY DEF DemuxNext, DemuxTakeSeek, DemuxSeekInput, DemuxCancelDecode, DemuxNotify, DemuxRead,
         DemuxPush, DemuxSignalEof, DemuxReportError, DemuxAbortOutputs, notByDemux
<1>1. ApiTypes' /\ RenderTypes' /\ DecodeTypes' /\ InsertRoom'
  BY <1>0, Frame DEF Typed, TypeOK, InsertRoom, decodeVars
<1>2. DemuxTypes'
  BY Sizes
  DEF DemuxNext, DemuxTakeSeek, DemuxSeekInput, DemuxCancelDecode, DemuxNotify, DemuxRead,
      DemuxPush, DemuxSignalEof, DemuxReportError, DemuxAbortOutputs, Typed, TypeOK,
      DemuxTypes, SharedTypes, DemuxSteps
<1>3. queue' \in QueueType(Packets) /\ Len(queue'.items) <= Capacity
  <2> USE DEF Typed, TypeOK, SharedTypes
  <2>1. CASE DemuxSeekInput
    BY <2>1, QueueOpsType, NoSequence, Sizes DEF DemuxSeekInput
  <2>2. CASE DemuxPush /\ ~queue.aborted
    <3>1. [e |-> dxEpoch, p |-> dxNext] \in Packets
      BY <2>2 DEF DemuxPush, Packets, DemuxTypes
    <3>2. /\ queue' = Enqueue(queue, [e |-> dxEpoch, p |-> dxNext])
          /\ Len(queue.items) < Capacity
      BY <2>2 DEF DemuxPush, PushReady, HasRoom
    <3>3. Len(queue.items) \in Nat
      BY DEF QueueType
    <3> QED BY <3>1, <3>2, <3>3, EnqueueType, Sizes
  <2>3. CASE DemuxSignalEof \/ DemuxAbortOutputs
    BY <2>3, QueueOpsType DEF DemuxSignalEof, DemuxAbortOutputs
  <2>4. CASE UNCHANGED queue
    BY <2>4
  <2> QED
    BY <2>1, <2>2, <2>3, <2>4
    DEF DemuxNext, DemuxTakeSeek, DemuxCancelDecode, DemuxNotify, DemuxRead, DemuxPush,
        DemuxReportError
<1>4. request' \in 0 .. MaxSeeks /\ notice' \in 0 .. MaxSeeks /\ state' \in TrackStates
  BY Sizes
  DEF DemuxNext, DemuxTakeSeek, DemuxSeekInput, DemuxCancelDecode, DemuxNotify, DemuxRead,
      DemuxPush, DemuxSignalEof, DemuxReportError, DemuxAbortOutputs, Typed, TypeOK,
      DemuxTypes, SharedTypes, TrackStates
<1>5. SharedTypes'
  BY <1>0, <1>3, <1>4 DEF Typed, TypeOK, SharedTypes
<1>6. FlagTypes'
  BY FlagsTyped DEF Next, Typed, TypeOK
<1> QED BY <1>1, <1>2, <1>5, <1>6 DEF Typed, TypeOK

LEMMA DecodeTyped ==
  ASSUME Typed, DecodeNext
  PROVE  Typed'
<1>0. UNCHANGED <<apiVars, renderVars, request, demuxVars, pauseAfterPreroll>>
  BY DEF DecodeNext, DecodeTakeSeek, DecodeBeginSeek, DecodeUnpause, DecodeRebuffer,
         DecodeNoSeek, DecodeGate, DecodePop, DecodeCheck, DecodeSend, DecodeReceive,
         DecodePublish, DecodeInsert, DecodePreroll, DecodeReady, DecodePauseSelf,
         DecodeGap, DecodeEof, DecodeEofReady, DecodeEofHold, DecodeEofHoldReady,
         DecodeEofHoldPause, DecodeDrain, DecodeFail, DecodeFailPause, DecodeExit,
         notByDecode
<1>1. ApiTypes' /\ RenderTypes' /\ DemuxTypes'
  BY <1>0, Frame DEF Typed, TypeOK
<1>2. queue' \in QueueType(Packets) /\ Len(queue'.items) <= Capacity
  <2> USE DEF Typed, TypeOK, SharedTypes
  <2>1. CASE DecodePop
    <3>1. queue.items \in Seq(Packets) /\ Len(queue.items) \in Nat
      BY DEF QueueType
    <3>2. /\ queue' = AfterPop(queue, TryPopStatus(queue))
          /\ TryPopStatus(queue) \in PopStatuses
          /\ TryPopStatus(queue) = "Packet" => queue.items # <<>>
      BY <2>1, StatusType DEF DecodePop
    <3>3. queue' \in QueueType(Packets)
      BY <3>2, AfterPopType
    <3>4. Len(queue'.items) = Len(queue.items) \/ Len(queue'.items) = Len(queue.items) - 1
      BY <3>2, AfterPopType
    <3> QED BY <3>1, <3>3, <3>4, Sizes
  <2>2. CASE UNCHANGED queue
    BY <2>2
  <2> QED
    BY <2>1, <2>2
    DEF DecodeNext, DecodeTakeSeek, DecodeBeginSeek, DecodeUnpause, DecodeRebuffer,
        DecodeNoSeek, DecodeGate, DecodeCheck, DecodeSend, DecodeReceive, DecodePublish,
        DecodeInsert, DecodePreroll, DecodeReady, DecodePauseSelf, DecodeGap, DecodeEof,
        DecodeEofReady, DecodeEofHold, DecodeEofHoldReady, DecodeEofHoldPause, DecodeDrain,
        DecodeFail, DecodeFailPause, DecodeExit
<1>3. notice' \in 0 .. MaxSeeks /\ state' \in TrackStates
  BY Sizes
  DEF DecodeNext, DecodeTakeSeek, DecodeBeginSeek, DecodeUnpause, DecodeRebuffer,
      DecodeNoSeek, DecodeGate, DecodePop, DecodeCheck, DecodeSend, DecodeReceive,
      DecodePublish, DecodeInsert, DecodePreroll, DecodeReady, DecodePauseSelf, DecodeGap,
      DecodeEof, DecodeEofReady, DecodeEofHold, DecodeEofHoldReady, DecodeEofHoldPause,
      DecodeDrain, DecodeFail, DecodeFailPause, DecodeExit, Typed, TypeOK, SharedTypes,
      TrackStates
<1>4. buffer' \in Seq(Packets) /\ Len(buffer') <= BufferFrames
  <2> USE DEF Typed, TypeOK, SharedTypes
  <2>1. CASE DecodeInsert
    BY <2>1, SequencesStay, Sizes DEF DecodeInsert, InsertRoom, DecodeTypes
  <2>2. CASE UNCHANGED buffer
    BY <2>2
  <2> QED
    BY <2>1, <2>2
    DEF DecodeNext, DecodeTakeSeek, DecodeBeginSeek, DecodeUnpause, DecodeRebuffer,
        DecodeNoSeek, DecodeGate, DecodePop, DecodeCheck, DecodeSend, DecodeReceive,
        DecodePublish, DecodePreroll, DecodeReady, DecodePauseSelf, DecodeGap, DecodeEof,
        DecodeEofReady, DecodeEofHold, DecodeEofHoldReady, DecodeEofHoldPause, DecodeDrain,
        DecodeFail, DecodeFailPause, DecodeExit
<1>5. SharedTypes'
  BY <1>0, <1>2, <1>3, <1>4 DEF Typed, TypeOK, SharedTypes
<1>6. InsertRoom'
  <2>1. CASE DecodePublish
    BY <2>1 DEF DecodePublish, InsertRoom
  <2>2. CASE dc' # "Insert"
    BY <2>2 DEF InsertRoom
  <2> QED
    BY <2>1, <2>2
    DEF DecodeNext, DecodeTakeSeek, DecodeBeginSeek, DecodeUnpause, DecodeRebuffer,
        DecodeNoSeek, DecodeGate, DecodePop, DecodeCheck, DecodeSend, DecodeReceive,
        DecodePublish, DecodeInsert, DecodePreroll, DecodeReady, DecodePauseSelf,
        DecodeGap, DecodeEof, DecodeEofReady, DecodeEofHold, DecodeEofHoldReady,
        DecodeEofHoldPause, DecodeDrain, DecodeFail, DecodeFailPause, DecodeExit, Typed,
        TypeOK, DecodeTypes
<1>7. DecodeTypes'
  <2> USE DEF Typed, TypeOK, DecodeTypes, DecodeSteps
  <2>1. CASE DecodeTakeSeek
    BY <2>1, Sizes DEF DecodeTakeSeek, SharedTypes
  <2>2. CASE DecodeBeginSeek
    BY <2>2, NoSequence, Sizes DEF DecodeBeginSeek
  <2>3. CASE DecodeUnpause
    BY <2>3 DEF DecodeUnpause
  <2>4. CASE DecodeRebuffer
    BY <2>4 DEF DecodeRebuffer
  <2>5. CASE DecodeNoSeek
    BY <2>5 DEF DecodeNoSeek
  <2>6. CASE DecodeGate
    BY <2>6 DEF DecodeGate
  <2>7. CASE DecodePop
    <3>1. TryPopStatus(queue) = "Packet" => queue.items # <<>> /\ queue.items \in Seq(Packets)
      BY StatusType DEF SharedTypes, QueueType
    <3>2. TryPopStatus(queue) = "Packet" => Head(queue.items) \in Packets
      BY <3>1, SequencesStay
    <3> QED BY <2>7, <3>2 DEF DecodePop
  <2>8. CASE DecodeCheck
    BY <2>8 DEF DecodeCheck
  <2>9. CASE DecodeSend
    BY <2>9, SequencesStay DEF DecodeSend
  <2>10. CASE DecodeReceive
    <3>1. HasOutput => codec # <<>>
      BY NoSequence, Sizes DEF HasOutput
    <3>2. HasOutput => Head(codec) \in Packets /\ Tail(codec) \in Seq(Packets)
      BY <3>1, SequencesStay
    <3> QED BY <2>10, <3>2 DEF DecodeReceive
  <2>11. CASE DecodePublish
    BY <2>11 DEF DecodePublish
  <2>12. CASE DecodeInsert
    BY <2>12 DEF DecodeInsert
  <2>13. CASE DecodePreroll
    BY <2>13 DEF DecodePreroll
  <2>14. CASE DecodeReady
    BY <2>14 DEF DecodeReady
  <2>15. CASE DecodePauseSelf
    BY <2>15 DEF DecodePauseSelf
  <2>16. CASE DecodeGap
    BY <2>16 DEF DecodeGap
  <2>17. CASE DecodeEof
    BY <2>17 DEF DecodeEof
  <2>18. CASE DecodeEofReady
    BY <2>18 DEF DecodeEofReady
  <2>19. CASE DecodeEofHold
    BY <2>19 DEF DecodeEofHold
  <2>20. CASE DecodeEofHoldReady
    BY <2>20 DEF DecodeEofHoldReady
  <2>21. CASE DecodeEofHoldPause
    BY <2>21 DEF DecodeEofHoldPause
  <2>22. CASE DecodeDrain
    <3>1. HasOutput => codec # <<>>
      BY NoSequence, Sizes DEF HasOutput
    <3>2. HasOutput => Head(codec) \in Packets /\ Tail(codec) \in Seq(Packets)
      BY <3>1, SequencesStay
    <3> QED BY <2>22, <3>2 DEF DecodeDrain
  <2>23. CASE DecodeFail
    BY <2>23 DEF DecodeFail
  <2>24. CASE DecodeFailPause
    BY <2>24 DEF DecodeFailPause
  <2>25. CASE DecodeExit
    BY <2>25 DEF DecodeExit
  <2> QED
    BY <2>1, <2>2, <2>3, <2>4, <2>5, <2>6, <2>7, <2>8, <2>9, <2>10, <2>11, <2>12, <2>13,
       <2>14, <2>15, <2>16, <2>17, <2>18, <2>19, <2>20, <2>21, <2>22, <2>23, <2>24, <2>25
    DEF DecodeNext
<1>8. FlagTypes'
  BY FlagsTyped DEF Next, Typed, TypeOK
<1> QED BY <1>1, <1>5, <1>6, <1>7, <1>8 DEF Typed, TypeOK

LEMMA TypedCorrect == Spec => []Typed
<1>1. Init => Typed
  <2> SUFFICES ASSUME Init PROVE Typed
    OBVIOUS
  <2>1. queue \in QueueType(Packets) /\ Len(queue.items) <= Capacity
    BY NoSequence, Sizes DEF Init, NewQueue, QueueType
  <2>2. FlagTypes
    BY PipelineAssumption DEF Init, FlagTypes
  <2>3. SharedTypes /\ InsertRoom
    BY <2>1, NoSequence, Sizes
    DEF Init, SharedTypes, InsertRoom, TrackStates
  <2>4. ApiTypes /\ DemuxTypes /\ RenderTypes
    BY Sizes
    DEF Init, ApiTypes, DemuxTypes, RenderTypes, ApiSteps, DemuxSteps, RenderSteps
  <2>5. DecodeTypes
    BY NoSequence, Sizes DEF Init, DecodeTypes, DecodeSteps
  <2> QED BY <2>2, <2>3, <2>4, <2>5 DEF Typed, TypeOK
<1>2. ASSUME Typed, UNCHANGED vars PROVE Typed'
  <2>1. ApiTypes' /\ DemuxTypes' /\ DecodeTypes' /\ RenderTypes'
    BY <1>2, Frame DEF Typed, TypeOK, vars
  <2>2. SharedTypes' /\ InsertRoom'
    BY <1>2 DEF Typed, TypeOK, SharedTypes, InsertRoom, vars, flagVars, decodeVars
  <2>3. FlagTypes'
    BY <1>2, FlagsTyped DEF Typed, TypeOK
  <2> QED BY <2>1, <2>2, <2>3 DEF Typed, TypeOK
<1>3. Typed /\ [Next]_vars => Typed'
  BY <1>2, ApiTyped, RenderTyped, DemuxTyped, DecodeTyped DEF Next
<1> QED BY <1>1, <1>3, PTL DEF Spec

(* The state keeps its types, for every size: the buffer and the queue     *)
(* never hold more than they are made for, and the render thread has a     *)
(* frame in its hands exactly while it presents or commits one.            *)
THEOREM TypeCorrect == Spec => []TypeOK
<1>1. Typed => TypeOK
  BY DEF Typed
<1> QED BY <1>1, TypedCorrect, PTL
-----------------------------------------------------------------------------
(* What each thread leaves alone of the numbers of seeks.                  *)
LEMMA ApiFrame ==
  ASSUME SeekPauseDecode \/ Play \/ Pause \/ ApiContinue
  PROVE  UNCHANGED <<dx, dxEpoch, notice, dc, dcTaken, dcEpoch, dcItem, codec>>
  BY DEF ApiContinue, SeekPauseDecode, SeekSetFlushing, SeekClearFrames, SeekFlushQueue,
         SeekPauseAfterPreroll, SeekRequest, Play, Pause, ToggleDecode, notByApi, demuxVars,
         decodeVars

LEMMA RenderFrame ==
  ASSUME RenderNext \/ RenderResumeDecode
  PROVE  UNCHANGED <<ui, seeks, request, queue, dx, dxEpoch, notice, dc, dcTaken, dcEpoch,
                     dcItem, codec>>
  BY DEF RenderNext, RenderLook, RenderBeginPreview, RenderTick, RenderNothing,
         RenderPresented, RenderCommit, RenderResumeDecode, notByRender, apiVars, demuxVars,
         decodeVars

LEMMA DemuxFrame ==
  ASSUME DemuxNext
  PROVE  UNCHANGED <<ui, seeks, dc, dcTaken, dcEpoch, dcItem, codec>>
  BY DEF DemuxNext, DemuxTakeSeek, DemuxSeekInput, DemuxCancelDecode, DemuxNotify, DemuxRead,
         DemuxPush, DemuxSignalEof, DemuxReportError, DemuxAbortOutputs, notByDemux, apiVars,
         decodeVars

LEMMA DecodeFrame ==
  ASSUME Typed, DecodeNext
  PROVE  /\ UNCHANGED <<ui, seeks, request, dx, dxEpoch>>
         /\ \/ DecodeTakeSeek \/ DecodeBeginSeek
            \/ UNCHANGED <<notice, dcTaken, dcEpoch>> /\ dc # "Begin" /\ dc' # "Begin"
<1>1. UNCHANGED <<ui, seeks, request, dx, dxEpoch>>
  BY DEF DecodeNext, DecodeTakeSeek, DecodeBeginSeek, DecodeUnpause, DecodeRebuffer,
         DecodeNoSeek, DecodeGate, DecodePop, DecodeCheck, DecodeSend, DecodeReceive,
         DecodePublish, DecodeInsert, DecodePreroll, DecodeReady, DecodePauseSelf,
         DecodeGap, DecodeEof, DecodeEofReady, DecodeEofHold, DecodeEofHoldReady,
         DecodeEofHoldPause, DecodeDrain, DecodeFail, DecodeFailPause, DecodeExit,
         notByDecode, apiVars, demuxVars
<1>2. \/ DecodeTakeSeek \/ DecodeBeginSeek
      \/ UNCHANGED <<notice, dcTaken, dcEpoch>> /\ dc # "Begin"
  BY DEF DecodeNext, DecodeTakeSeek, DecodeUnpause, DecodeRebuffer, DecodeNoSeek,
         DecodeGate, DecodePop, DecodeCheck, DecodeSend, DecodeReceive, DecodePublish,
         DecodeInsert, DecodePreroll, DecodeReady, DecodePauseSelf, DecodeGap, DecodeEof,
         DecodeEofReady, DecodeEofHold, DecodeEofHoldReady, DecodeEofHoldPause,
         DecodeDrain, DecodeFail, DecodeFailPause, DecodeExit
<1>3. DecodeTakeSeek \/ dc' # "Begin"
  BY DEF DecodeNext, DecodeTakeSeek, DecodeUnpause, DecodeRebuffer, DecodeNoSeek,
         DecodeGate, DecodePop, DecodeCheck, DecodeSend, DecodeReceive, DecodePublish,
         DecodeInsert, DecodePreroll, DecodeReady, DecodePauseSelf, DecodeGap, DecodeEof,
         DecodeEofReady, DecodeEofHold, DecodeEofHoldReady, DecodeEofHoldPause,
         DecodeDrain, DecodeFail, DecodeFailPause, DecodeExit, DecodeBeginSeek, Typed,
         TypeOK, DecodeTypes
<1> QED BY <1>1, <1>2, <1>3

LEMMA EpochStep ==
  ASSUME Typed, EpochOrder, [Next]_vars
  PROVE  EpochOrder'
<1>0. /\ seeks \in Nat /\ request \in Nat /\ dxEpoch \in Nat /\ notice \in Nat
      /\ dcTaken \in Nat /\ dcEpoch \in Nat
  BY Sizes DEF Typed, TypeOK, ApiTypes, SharedTypes, DemuxTypes, DecodeTypes
<1> USE <1>0 DEF EpochOrder, Seeking
<1>1. CASE SeekPauseDecode \/ Play \/ Pause \/ ApiContinue
  <2>1. \/ seeks' \in {seeks, seeks + 1} /\ request' = request
        \/ seeks' = seeks /\ request' = seeks
    BY <1>1
    DEF ApiContinue, SeekPauseDecode, SeekSetFlushing, SeekClearFrames, SeekFlushQueue,
        SeekPauseAfterPreroll, SeekRequest, Play, Pause, ToggleDecode
  <2> QED BY <1>1, <2>1, ApiFrame
<1>2. CASE RenderNext \/ RenderResumeDecode
  BY <1>2, RenderFrame
<1>3. CASE DemuxNext
  <2>1. CASE DemuxTakeSeek
    BY <1>3, <2>1, DemuxFrame DEF DemuxTakeSeek
  <2>2. CASE DemuxNotify
    BY <1>3, <2>2, DemuxFrame DEF DemuxNotify
  <2>3. CASE DemuxSeekInput \/ DemuxCancelDecode
    BY <1>3, <2>3, DemuxFrame DEF DemuxSeekInput, DemuxCancelDecode
  <2>4. CASE ~DemuxTakeSeek /\ ~DemuxNotify /\ ~DemuxSeekInput /\ ~DemuxCancelDecode
    <3>1. UNCHANGED <<request, dxEpoch, notice>> /\ ~Seeking'
      BY <1>3, <2>4
      DEF DemuxNext, DemuxRead, DemuxPush, DemuxSignalEof, DemuxReportError,
          DemuxAbortOutputs
    <3> QED BY <1>3, <3>1, DemuxFrame
  <2> QED BY <2>1, <2>2, <2>3, <2>4
<1>4. CASE DecodeNext
  <2>1. CASE DecodeTakeSeek
    BY <1>4, <2>1, DecodeFrame DEF DecodeTakeSeek
  <2>2. CASE DecodeBeginSeek
    BY <1>4, <2>2, DecodeFrame DEF DecodeBeginSeek
  <2>3. CASE ~DecodeTakeSeek /\ ~DecodeBeginSeek
    BY <1>4, <2>3, DecodeFrame
  <2> QED BY <2>1, <2>2, <2>3
<1>5. CASE UNCHANGED vars
  BY <1>5 DEF vars, apiVars, demuxVars, decodeVars
<1> QED BY <1>1, <1>2, <1>3, <1>4, <1>5 DEF Next

LEMMA EpochCorrect == Spec => []EpochOrder
<1>1. Init => EpochOrder
  BY DEF Init, EpochOrder, Seeking
<1> QED BY <1>1, EpochStep, TypedCorrect, PTL DEF Spec

(* However the threads interleave and however seeks, plays and pauses come, *)
(* the number of the latest seek is somewhere on its way to the codec: no  *)
(* thread overwrites it with an older one.                                 *)
THEOREM LatestSeekCorrect == Spec => []LatestSeekNotLost
<1>1. Init => LatestSeekNotLost
  BY DEF Init, LatestSeekNotLost
<1>2. ASSUME Typed, EpochOrder, LatestSeekNotLost, [Next]_vars
      PROVE  LatestSeekNotLost'
  <2>0. /\ seeks \in Nat /\ request \in Nat /\ dxEpoch \in Nat /\ notice \in Nat
        /\ dcTaken \in Nat /\ dcEpoch \in Nat
    BY <1>2, Sizes DEF Typed, TypeOK, ApiTypes, SharedTypes, DemuxTypes, DecodeTypes
  <2> USE <1>2, <2>0 DEF LatestSeekNotLost, EpochOrder, Seeking
  <2>1. CASE SeekPauseDecode \/ Play \/ Pause \/ ApiContinue
    <3>1. \/ ui' \in {"SetFlushing", "ClearFrames", "FlushQueue", "PauseAfter", "Request"}
          \/ request' = seeks'
          \/ ui \in {"Idle", "PauseDecode"} /\ UNCHANGED <<seeks, request>>
      BY <2>1
      DEF ApiContinue, SeekPauseDecode, SeekSetFlushing, SeekClearFrames, SeekFlushQueue,
          SeekPauseAfterPreroll, SeekRequest, Play, Pause, ToggleDecode
    <3> QED BY <2>1, <3>1, ApiFrame
  <2>2. CASE RenderNext \/ RenderResumeDecode
    BY <2>2, RenderFrame
  <2>3. CASE DemuxNext
    <3>1. CASE DemuxTakeSeek
      BY <2>3, <3>1, DemuxFrame DEF DemuxTakeSeek
    <3>2. CASE DemuxNotify
      BY <2>3, <3>2, DemuxFrame DEF DemuxNotify
    <3>3. CASE DemuxSeekInput \/ DemuxCancelDecode
      BY <2>3, <3>3, DemuxFrame DEF DemuxSeekInput, DemuxCancelDecode
    <3>4. CASE ~DemuxTakeSeek /\ ~DemuxNotify /\ ~DemuxSeekInput /\ ~DemuxCancelDecode
      <4>1. UNCHANGED <<request, dxEpoch, notice>> /\ ~Seeking
        BY <2>3, <3>4
        DEF DemuxNext, DemuxRead, DemuxPush, DemuxSignalEof, DemuxReportError,
            DemuxAbortOutputs
      <4> QED BY <2>3, <4>1, DemuxFrame
    <3> QED BY <3>1, <3>2, <3>3, <3>4
  <2>4. CASE DecodeNext
    <3>1. CASE DecodeTakeSeek
      BY <2>4, <3>1, DecodeFrame DEF DecodeTakeSeek
    <3>2. CASE DecodeBeginSeek
      BY <2>4, <3>2, DecodeFrame DEF DecodeBeginSeek
    <3>3. CASE ~DecodeTakeSeek /\ ~DecodeBeginSeek
      BY <2>4, <3>3, DecodeFrame
    <3> QED BY <3>1, <3>2, <3>3
  <2>5. CASE UNCHANGED vars
    BY <2>5 DEF vars, apiVars, demuxVars, decodeVars
  <2> QED BY <2>1, <2>2, <2>3, <2>4, <2>5 DEF Next
<1> QED BY <1>1, <1>2, TypedCorrect, EpochCorrect, PTL DEF Spec
-----------------------------------------------------------------------------
(* Packets of one seek: taking and adding at the ends keeps them so.       *)
LEMMA OneEpochSequence ==
  ASSUME NEW s \in Seq(Packets), NEW n, \A i \in DOMAIN s : s[i].e = n
  PROVE  /\ s # <<>> => Head(s).e = n
         /\ s # <<>> => \A i \in DOMAIN Tail(s) : Tail(s)[i].e = n
         /\ \A x \in Packets : x.e = n =>
              \A i \in DOMAIN Append(s, x) : Append(s, x)[i].e = n
<1>1. s # <<>> => Head(s).e = n
  OBVIOUS
<1>2. ASSUME s # <<>>, NEW i \in DOMAIN Tail(s) PROVE Tail(s)[i].e = n
  <2>1. Tail(s)[i] = s[i + 1] /\ i + 1 \in DOMAIN s
    BY <1>2
  <2> QED BY <2>1
<1>3. ASSUME NEW x \in Packets, x.e = n, NEW i \in DOMAIN Append(s, x)
      PROVE  Append(s, x)[i].e = n
  <2>1. i \in 1 .. Len(s) + 1
    BY <1>3
  <2>2. CASE i = Len(s) + 1
    BY <1>3, <2>2
  <2>3. CASE i # Len(s) + 1
    <3>1. i \in DOMAIN s /\ Append(s, x)[i] = s[i]
      BY <2>1, <2>3
    <3> QED BY <3>1
  <2> QED BY <2>2, <2>3
<1> QED BY <1>1, <1>2, <1>3

(* The decode thread taking and beginning a seek, and whatever else it does, *)
(* does not change which seek was notified last.                           *)
LEMMA DecodeKeepsNotified ==
  ASSUME Typed, EpochOrder, DecodeNext
  PROVE  Notified' = Notified
<1>1. CASE DecodeTakeSeek
  BY <1>1 DEF DecodeTakeSeek, Notified, EpochOrder
<1>2. CASE DecodeBeginSeek
  BY <1>2 DEF DecodeBeginSeek, Notified, EpochOrder
<1>3. CASE ~DecodeTakeSeek /\ ~DecodeBeginSeek
  BY <1>3, DecodeFrame DEF Notified
<1> QED BY <1>1, <1>2, <1>3

LEMMA QueueStep ==
  ASSUME Typed, EpochOrder, QueueOneEpoch, [Next]_vars
  PROVE  QueueOneEpoch'
<1>0. queue \in QueueType(Packets) /\ queue.items \in Seq(Packets)
  BY DEF Typed, TypeOK, SharedTypes, QueueType
<1>1. CASE SeekPauseDecode \/ Play \/ Pause \/ ApiContinue
  <2>1. queue' = queue \/ queue'.items = <<>>
    BY <1>0, <1>1, QueueOpsType
    DEF ApiContinue, SeekPauseDecode, SeekSetFlushing, SeekClearFrames, SeekFlushQueue,
        SeekPauseAfterPreroll, SeekRequest, Play, Pause, ToggleDecode
  <2> QED BY <1>1, <2>1, ApiFrame DEF QueueOneEpoch, Notified, Seeking
<1>2. CASE RenderNext \/ RenderResumeDecode
  BY <1>2, RenderFrame DEF QueueOneEpoch, Notified, Seeking
<1>3. CASE DemuxNext
  <2> USE <1>3, DemuxFrame DEF QueueOneEpoch, Notified, Seeking
  <2>1. CASE DemuxTakeSeek
    BY <2>1 DEF DemuxTakeSeek
  <2>2. CASE DemuxSeekInput
    <3>1. queue'.items = <<>>
      BY <1>0, <2>2, QueueOpsType DEF DemuxSeekInput
    <3> QED BY <2>2, <3>1 DEF DemuxSeekInput
  <2>3. CASE DemuxCancelDecode
    BY <2>3 DEF DemuxCancelDecode
  <2>4. CASE DemuxNotify
    BY <2>4 DEF DemuxNotify, EpochOrder
  <2>5. CASE DemuxPush
    <3>1. UNCHANGED <<notice, dxEpoch>> /\ ~Seeking /\ ~Seeking'
      BY <2>5 DEF DemuxPush
    <3>2. CASE queue' = queue
      BY <3>1, <3>2
    <3>3. CASE queue' # queue
      <4> DEFINE x == [e |-> dxEpoch, p |-> dxNext]
      <4>1. x \in Packets /\ x.e = Notified
        BY <2>5, <3>1 DEF DemuxPush, Packets, Typed, TypeOK, DemuxTypes
      <4>2. queue'.items = Append(queue.items, x)
        BY <1>0, <2>5, <3>3, <4>1, EnqueueType DEF DemuxPush
      <4>3. \A i \in DOMAIN queue'.items : queue'.items[i].e = Notified
        BY <1>0, <4>1, <4>2, OneEpochSequence
      <4> QED BY <3>1, <4>3
    <3> QED BY <3>2, <3>3
  <2>6. CASE DemuxRead \/ DemuxSignalEof \/ DemuxReportError \/ DemuxAbortOutputs
    <3>1. UNCHANGED <<notice, dxEpoch>> /\ ~Seeking /\ ~Seeking'
      BY <2>6 DEF DemuxRead, DemuxSignalEof, DemuxReportError, DemuxAbortOutputs
    <3>2. queue'.items = queue.items
      BY <1>0, <2>6, QueueOpsType
      DEF DemuxRead, DemuxSignalEof, DemuxReportError, DemuxAbortOutputs
    <3> QED BY <3>1, <3>2
  <2> QED BY <2>1, <2>2, <2>3, <2>4, <2>5, <2>6 DEF DemuxNext
<1>4. CASE DecodeNext
  <2>1. \/ queue'.items = queue.items
        \/ queue.items # <<>> /\ queue'.items = Tail(queue.items)
    <3>1. CASE DecodePop
      <4>1. /\ queue' = AfterPop(queue, TryPopStatus(queue))
            /\ TryPopStatus(queue) \in PopStatuses
            /\ TryPopStatus(queue) = "Packet" => queue.items # <<>>
        BY <1>0, <3>1, StatusType DEF DecodePop
      <4> QED BY <1>0, <4>1, AfterPopType
    <3>2. CASE UNCHANGED queue
      BY <3>2
    <3> QED
      BY <1>4, <3>1, <3>2
      DEF DecodeNext, DecodeTakeSeek, DecodeBeginSeek, DecodeUnpause, DecodeRebuffer,
          DecodeNoSeek, DecodeGate, DecodeCheck, DecodeSend, DecodeReceive, DecodePublish,
          DecodeInsert, DecodePreroll, DecodeReady, DecodePauseSelf, DecodeGap, DecodeEof,
          DecodeEofReady, DecodeEofHold, DecodeEofHoldReady, DecodeEofHoldPause,
          DecodeDrain, DecodeFail, DecodeFailPause, DecodeExit
  <2>2. \A i \in DOMAIN queue'.items : queue'.items[i].e = Notified
    <3>1. CASE queue'.items = queue.items
      BY <3>1 DEF QueueOneEpoch
    <3>2. CASE queue.items # <<>> /\ queue'.items = Tail(queue.items)
      <4>1. \A i \in DOMAIN queue.items : queue.items[i].e = Notified
        BY DEF QueueOneEpoch
      <4> QED BY <1>0, <3>2, <4>1, OneEpochSequence
    <3> QED BY <2>1, <3>1, <3>2
  <2>3. queue.items = <<>> => queue'.items = <<>>
    BY <2>1
  <2> QED BY <1>4, <2>2, <2>3, DecodeKeepsNotified, DecodeFrame DEF QueueOneEpoch, Seeking
<1>5. CASE UNCHANGED vars
  BY <1>5 DEF vars, demuxVars, decodeVars, QueueOneEpoch, Notified, Seeking
<1> QED BY <1>1, <1>2, <1>3, <1>4, <1>5 DEF Next

LEMMA QueueCorrect == Spec => []QueueOneEpoch
<1>1. Init => QueueOneEpoch
  BY DEF Init, QueueOneEpoch, Notified, Seeking, NewQueue
<1> QED BY <1>1, QueueStep, TypedCorrect, EpochCorrect, PTL DEF Spec

LEMMA ItemStep ==
  ASSUME Typed, EpochOrder, QueueOneEpoch, ItemOneEpoch, [Next]_vars
  PROVE  ItemOneEpoch'
<1> USE DEF ItemOneEpoch
<1>1. CASE SeekPauseDecode \/ Play \/ Pause \/ ApiContinue
  BY <1>1, ApiFrame
<1>2. CASE RenderNext \/ RenderResumeDecode
  BY <1>2, RenderFrame
<1>3. CASE DemuxNext
  <2>1. notice' = notice \/ notice' # 0
    BY <1>3
    DEF DemuxNext, DemuxTakeSeek, DemuxSeekInput, DemuxCancelDecode, DemuxNotify, DemuxRead,
        DemuxPush, DemuxSignalEof, DemuxReportError, DemuxAbortOutputs, EpochOrder, Seeking
  <2> QED BY <1>3, <2>1, DemuxFrame
<1>4. CASE DecodeNext
  <2>1. CASE DecodePop
    <3>1. queue.items \in Seq(Packets) /\ queue \in QueueType(Packets)
      BY DEF Typed, TypeOK, SharedTypes, QueueType
    <3>2. dc' = "Check" => dcItem' = Head(queue.items) /\ queue.items # <<>>
      BY <2>1, <3>1, StatusType DEF DecodePop
    <3>3. dc' = "Check" => dcItem'.e = Notified
      BY <3>1, <3>2, OneEpochSequence DEF QueueOneEpoch
    <3>4. dcTaken = 0
      BY <2>1 DEF DecodePop, EpochOrder
    <3> QED BY <2>1, <3>3, <3>4 DEF DecodePop, Notified
  <2>2. CASE DecodeCheck
    BY <2>2 DEF DecodeCheck, Discarding
  <2>3. CASE ~DecodePop /\ ~DecodeCheck
    <3>1. dc' \notin {"Check", "Send"}
      BY <1>4, <2>3 DEF DecodeNext, DecodeTakeSeek, DecodeBeginSeek, DecodeUnpause,
         DecodeRebuffer, DecodeNoSeek, DecodeGate, DecodeSend, DecodeReceive, DecodePublish,
         DecodeInsert, DecodePreroll, DecodeReady, DecodePauseSelf, DecodeGap, DecodeEof,
         DecodeEofReady, DecodeEofHold, DecodeEofHoldReady, DecodeEofHoldPause, DecodeDrain,
         DecodeFail, DecodeFailPause, DecodeExit,
         Typed, TypeOK, DecodeTypes
    <3> QED BY <3>1
  <2> QED BY <2>1, <2>2, <2>3
<1>5. CASE UNCHANGED vars
  BY <1>5 DEF vars, decodeVars
<1> QED BY <1>1, <1>2, <1>3, <1>4, <1>5 DEF Next

LEMMA ItemCorrect == Spec => []ItemOneEpoch
<1>1. Init => ItemOneEpoch
  BY DEF Init, ItemOneEpoch
<1> QED BY <1>1, ItemStep, TypedCorrect, EpochCorrect, QueueCorrect, PTL DEF Spec

(* For every number of overlapping seeks the codec is given packets of one  *)
(* seek only: the flush of the queue before the notification, the check of *)
(* a packet for a waiting notification and the flush of the codec leave no *)
(* way for another.                                                        *)
THEOREM CodecEpochCorrect == Spec => []CodecOneEpoch
<1>1. Init => CodecOneEpoch
  BY DEF Init, CodecOneEpoch
<1>2. ASSUME Typed, ItemOneEpoch, CodecOneEpoch, [Next]_vars
      PROVE  CodecOneEpoch'
  <2>0. codec \in Seq(Packets)
    BY <1>2 DEF Typed, TypeOK, DecodeTypes
  <2> USE <1>2 DEF CodecOneEpoch
  <2>1. CASE SeekPauseDecode \/ Play \/ Pause \/ ApiContinue
    BY <2>1, ApiFrame
  <2>2. CASE RenderNext \/ RenderResumeDecode
    BY <2>2, RenderFrame
  <2>3. CASE DemuxNext
    BY <2>3, DemuxFrame
  <2>4. CASE DecodeNext
    <3>1. CASE DecodeBeginSeek
      BY <3>1 DEF DecodeBeginSeek
    <3>2. CASE DecodeSend
      <4>1. dcItem \in Packets /\ dcItem.e = dcEpoch
        BY <3>2 DEF DecodeSend, ItemOneEpoch, Typed, TypeOK, DecodeTypes
      <4>2. dcEpoch' = dcEpoch /\ codec' \in {codec, Append(codec, dcItem)}
        BY <3>2 DEF DecodeSend
      <4> QED BY <2>0, <4>1, <4>2, OneEpochSequence
    <3>3. CASE DecodeReceive \/ DecodeDrain
      <4>1. HasOutput => codec # <<>>
        BY NoSequence, Sizes DEF HasOutput
      <4>2. dcEpoch' = dcEpoch
        BY <3>3 DEF DecodeReceive, DecodeDrain
      <4>3. codec' = codec \/ (HasOutput /\ codec' = Tail(codec))
        BY <3>3 DEF DecodeReceive, DecodeDrain
      <4>4. CASE codec' = codec
        BY <4>2, <4>4
      <4>5. CASE HasOutput /\ codec' = Tail(codec)
        BY <2>0, <4>1, <4>2, <4>5, OneEpochSequence
      <4> QED BY <4>3, <4>4, <4>5
    <3>4. CASE ~DecodeBeginSeek /\ ~DecodeSend /\ ~DecodeReceive /\ ~DecodeDrain
      <4>1. UNCHANGED <<codec, dcEpoch>>
        BY <2>4, <3>4
        DEF DecodeNext, DecodeTakeSeek, DecodeUnpause, DecodeRebuffer, DecodeNoSeek,
            DecodeGate, DecodePop, DecodeCheck, DecodePublish, DecodeInsert, DecodePreroll,
            DecodeReady, DecodePauseSelf, DecodeGap, DecodeEof, DecodeEofReady,
            DecodeEofHold, DecodeEofHoldReady, DecodeEofHoldPause, DecodeFail,
            DecodeFailPause, DecodeExit
      <4> QED BY <4>1
    <3> QED BY <3>1, <3>2, <3>3, <3>4
  <2>5. CASE UNCHANGED vars
    BY <2>5 DEF vars, decodeVars
  <2> QED BY <2>1, <2>2, <2>3, <2>4, <2>5 DEF Next
<1> QED BY <1>1, <1>2, TypedCorrect, ItemCorrect, PTL DEF Spec
-----------------------------------------------------------------------------
(* The frames of before seek n do not become more when the buffer is       *)
(* cleared, loses its head or gets a frame of n.                           *)
LEMMA FewerStale ==
  ASSUME NEW s \in Seq(Packets), NEW t \in Seq(Packets), NEW n \in Nat,
         \/ t = s \/ t = <<>> \/ (s # <<>> /\ t = Tail(s))
         \/ \E x \in Packets : x.e = n /\ t = Append(s, x)
  PROVE  Cardinality({i \in DOMAIN t : t[i].e < n}) <= Cardinality({i \in DOMAIN s : s[i].e < n})
<1> DEFINE S == {i \in DOMAIN s : s[i].e < n}
           T == {i \in DOMAIN t : t[i].e < n}
<1>1. IsFiniteSet(S)
  <2>1. DOMAIN s = 1 .. Len(s) /\ Len(s) \in Int /\ 1 \in Int
    OBVIOUS
  <2>2. IsFiniteSet(DOMAIN s)
    BY <2>1, FS_Interval
  <2>3. S \in SUBSET DOMAIN s
    OBVIOUS
  <2> QED BY <2>2, <2>3, FS_Subset
<1>2. Cardinality(S) \in Nat
  BY <1>1, FS_CardinalityType
<1>3. CASE t = s
  BY <1>2, <1>3
<1>4. CASE t = <<>>
  <2>1. DOMAIN t = {}
    <3>1. DOMAIN t = 1 .. Len(t) /\ Len(t) = 0
      BY <1>4
    <3> QED BY <3>1
  <2>2. T = {}
    <3>1. ASSUME NEW i \in T PROVE FALSE
      <4>1. i \in DOMAIN t
        OBVIOUS
      <4> QED BY <2>1, <4>1
    <3> HIDE DEF T
    <3> QED BY <3>1
  <2> HIDE DEF S, T
  <2>3. Cardinality(T) = 0
    BY <2>2, FS_EmptySet
  <2>4. Cardinality(T) <= Cardinality(S)
    BY <1>2, <2>3
  <2> QED BY <2>4 DEF S, T
<1>5. CASE s # <<>> /\ t = Tail(s)
  <2> DEFINE f == [i \in T |-> i + 1]
  <2>1. \A i \in T : i + 1 \in S
    <3>1. \A i \in DOMAIN t : i + 1 \in DOMAIN s /\ t[i] = s[i + 1]
      BY <1>5
    <3> QED BY <3>1
  <2>2. \A i, j \in T : i + 1 = j + 1 => i = j
    <3>1. \A i \in T : i \in Nat
      OBVIOUS
    <3> HIDE DEF T
    <3> QED BY <3>1
  <2> HIDE DEF S, T
  <2>3. f \in Injection(T, S)
    BY <2>1, <2>2 DEF Injection, IsInjective
  <2>4. Cardinality(T) <= Cardinality(S)
    BY <1>1, <2>3, FS_Injection
  <2> QED BY <2>4 DEF S, T
<1>6. ASSUME NEW x \in Packets, x.e = n, t = Append(s, x)
      PROVE  Cardinality(T) <= Cardinality(S)
  <2>1. T \in SUBSET S
    <3>1. ASSUME NEW i \in T PROVE i \in S
      <4>1. i \in 1 .. Len(s) + 1 /\ t[i].e < n
        BY <1>6
      <4>2. i # Len(s) + 1
        BY <1>6, <4>1
      <4>3. i \in DOMAIN s /\ t[i] = s[i]
        BY <1>6, <4>1, <4>2
      <4> QED BY <4>1, <4>3
    <3> QED BY <3>1
  <2> QED BY <1>1, <2>1, FS_Subset
<1> QED BY <1>3, <1>4, <1>5, <1>6

LEMMA FrameStep ==
  ASSUME Typed, FrameOneEpoch, CodecOneEpoch, [Next]_vars
  PROVE  FrameOneEpoch'
<1> USE DEF FrameOneEpoch
<1>1. CASE SeekPauseDecode \/ Play \/ Pause \/ ApiContinue
  BY <1>1, ApiFrame
<1>2. CASE RenderNext \/ RenderResumeDecode
  BY <1>2, RenderFrame
<1>3. CASE DemuxNext
  BY <1>3, DemuxFrame
<1>4. CASE DecodeNext
  <2>1. CASE DecodeReceive \/ DecodeDrain
    <3>1. HasOutput => codec # <<>> /\ codec \in Seq(Packets)
      BY NoSequence, Sizes DEF HasOutput, Typed, TypeOK, DecodeTypes
    <3>2. HasOutput => Head(codec).e = dcEpoch
      BY <3>1, OneEpochSequence DEF CodecOneEpoch
    <3>3. /\ dcEpoch' = dcEpoch
          /\ dc' \in {"Publish", "Insert"} => HasOutput /\ dcItem' = Head(codec)
      BY <2>1 DEF DecodeReceive, DecodeDrain
    <3> QED BY <3>2, <3>3
  <2>2. CASE DecodePublish
    BY <2>2 DEF DecodePublish
  <2>3. CASE ~DecodeReceive /\ ~DecodeDrain /\ ~DecodePublish
    <3>1. dc' \notin {"Publish", "Insert"}
      BY <1>4, <2>3 DEF DecodeNext, DecodeTakeSeek, DecodeBeginSeek, DecodeUnpause,
         DecodeRebuffer, DecodeNoSeek, DecodeGate, DecodePop, DecodeCheck, DecodeSend,
         DecodeInsert, DecodePreroll, DecodeReady, DecodePauseSelf, DecodeGap, DecodeEof,
         DecodeEofReady, DecodeEofHold, DecodeEofHoldReady, DecodeEofHoldPause,
         DecodeFail, DecodeFailPause, DecodeExit, Typed, TypeOK, DecodeTypes
    <3> QED BY <3>1
  <2> QED BY <2>1, <2>2, <2>3
<1>5. CASE UNCHANGED vars
  BY <1>5 DEF vars, decodeVars
<1> QED BY <1>1, <1>2, <1>3, <1>4, <1>5 DEF Next

LEMMA FrameCorrect == Spec => []FrameOneEpoch
<1>1. Init => FrameOneEpoch
  BY DEF Init, FrameOneEpoch
<1> QED BY <1>1, FrameStep, TypedCorrect, CodecEpochCorrect, PTL DEF Spec

(* What a step can do to the buffer. *)
LEMMA BufferStep ==
  ASSUME Typed, [Next]_vars
  PROVE  \/ buffer' = buffer
         \/ buffer' = <<>>
         \/ buffer # <<>> /\ buffer' = Tail(buffer) /\ (RenderNext \/ RenderResumeDecode)
         \/ DecodeInsert /\ dcItem \in Packets /\ buffer' = Append(buffer, dcItem)
<1>1. CASE SeekPauseDecode \/ Play \/ Pause \/ ApiContinue
  BY <1>1 DEF ApiContinue, SeekPauseDecode, SeekSetFlushing, SeekClearFrames, SeekFlushQueue,
              SeekPauseAfterPreroll, SeekRequest, Play, Pause, ToggleDecode
<1>2. CASE RenderNext \/ RenderResumeDecode
  BY <1>2 DEF RenderNext, RenderLook, RenderBeginPreview, RenderTick, RenderNothing,
              RenderPresented, RenderCommit, RenderResumeDecode
<1>3. CASE DemuxNext
  BY <1>3 DEF DemuxNext, DemuxTakeSeek, DemuxSeekInput, DemuxCancelDecode, DemuxNotify,
              DemuxRead, DemuxPush, DemuxSignalEof, DemuxReportError, DemuxAbortOutputs,
              notByDemux
<1>4. CASE DecodeNext
  <2>1. CASE DecodeInsert
    BY <2>1 DEF DecodeInsert, Typed, TypeOK, DecodeTypes
  <2>2. CASE ~DecodeInsert
    BY <1>4, <2>2
    DEF DecodeNext, DecodeTakeSeek, DecodeBeginSeek, DecodeUnpause, DecodeRebuffer,
        DecodeNoSeek, DecodeGate, DecodePop, DecodeCheck, DecodeSend, DecodeReceive,
        DecodePublish, DecodePreroll, DecodeReady, DecodePauseSelf, DecodeGap, DecodeEof,
        DecodeEofReady, DecodeEofHold, DecodeEofHoldReady, DecodeEofHoldPause,
        DecodeDrain, DecodeFail, DecodeFailPause, DecodeExit
  <2> QED BY <2>1, <2>2
<1>5. CASE UNCHANGED vars
  BY <1>5 DEF vars
<1> QED BY <1>1, <1>2, <1>3, <1>4, <1>5 DEF Next

LEMMA FlushStep ==
  ASSUME Typed, FlushAdmitsOne, [Next]_vars
  PROVE  FlushAdmitsOne'
<1>0. buffer \in Seq(Packets) /\ Len(buffer) \in Nat
  BY DEF Typed, TypeOK, SharedTypes
<1> USE DEF FlushAdmitsOne
<1>1. CASE SeekPauseDecode \/ Play \/ Pause \/ ApiContinue
  <2>1. CASE SeekClearFrames
    <3>1. Len(buffer') = 0
      BY <2>1, NoSequence DEF SeekClearFrames
    <3> QED BY <3>1
  <2>2. CASE SeekSetFlushing
    BY <2>2 DEF SeekSetFlushing
  <2>3. CASE ~SeekClearFrames /\ ~SeekSetFlushing
    <3>1. UNCHANGED <<state, buffer, dc>> /\ ui # "ClearFrames"
      BY <1>1, <2>3, ApiFrame
      DEF ApiContinue, SeekPauseDecode, SeekFlushQueue, SeekPauseAfterPreroll, SeekRequest,
          Play, Pause, ToggleDecode
    <3> QED BY <3>1
  <2> QED BY <2>1, <2>2, <2>3
<1>2. CASE RenderNext \/ RenderResumeDecode
  <2>1. state' = state
    BY <1>2 DEF RenderNext, RenderLook, RenderBeginPreview, RenderTick, RenderNothing,
                RenderPresented, RenderCommit, RenderResumeDecode, notByRender
  <2>2. buffer' = buffer \/ (buffer # <<>> /\ buffer' = Tail(buffer))
    <3>1. CASE RenderCommit
      BY <3>1 DEF RenderCommit
    <3>2. CASE ~RenderCommit
      BY <1>2, <3>2 DEF RenderNext, RenderLook, RenderBeginPreview, RenderTick,
                        RenderNothing, RenderPresented, RenderResumeDecode
    <3> QED BY <3>1, <3>2
  <2>3. Len(buffer') \in Nat /\ Len(buffer') <= Len(buffer)
    BY <1>0, <2>2, SequencesStay
  <2>4. UNCHANGED <<ui, dc>>
    BY <1>2, RenderFrame
  <2> QED BY <1>0, <2>1, <2>3, <2>4
<1>3. CASE DemuxNext
  <2>1. buffer' = buffer /\ (state' = state \/ state' = "Error")
    BY <1>3 DEF DemuxNext, DemuxTakeSeek, DemuxSeekInput, DemuxCancelDecode, DemuxNotify,
                DemuxRead, DemuxPush, DemuxSignalEof, DemuxReportError, DemuxAbortOutputs,
                notByDemux
  <2> QED BY <1>3, <2>1, DemuxFrame
<1>4. CASE DecodeNext
  <2>0. ui' = ui
    BY <1>4, DecodeFrame
  <2>1. CASE DecodeInsert
    <3>1. /\ Len(buffer') = Len(buffer) + 1 /\ state' = state /\ dc = "Insert"
          /\ dc' \in {"Drain", "Preroll"}
      BY <1>0, <2>1, SequencesStay DEF DecodeInsert, Typed, TypeOK, DecodeTypes
    <3> QED BY <1>0, <2>0, <3>1
  <2>2. CASE DecodePublish
    BY <2>0, <2>2 DEF DecodePublish
  <2>3. CASE DecodeExit
    BY <2>3 DEF DecodeExit
  <2>4. CASE ~DecodeInsert /\ ~DecodePublish /\ ~DecodeExit
    <3>1. buffer' = buffer
      BY <1>4, <2>4
      DEF DecodeNext, DecodeTakeSeek, DecodeBeginSeek, DecodeUnpause, DecodeRebuffer,
          DecodeNoSeek, DecodeGate, DecodePop, DecodeCheck, DecodeSend, DecodeReceive,
          DecodePreroll, DecodeReady, DecodePauseSelf, DecodeGap, DecodeEof,
          DecodeEofReady, DecodeEofHold, DecodeEofHoldReady, DecodeEofHoldPause,
          DecodeDrain, DecodeFail, DecodeFailPause
    <3>2. state' = state \/ state' # "Flushing"
      BY <1>4, <2>4
      DEF DecodeNext, DecodeTakeSeek, DecodeBeginSeek, DecodeUnpause, DecodeRebuffer,
          DecodeNoSeek, DecodeGate, DecodePop, DecodeCheck, DecodeSend, DecodeReceive,
          DecodePreroll, DecodeReady, DecodePauseSelf, DecodeGap, DecodeEof,
          DecodeEofReady, DecodeEofHold, DecodeEofHoldReady, DecodeEofHoldPause,
          DecodeDrain, DecodeFail, DecodeFailPause
    <3>3. dc' # "Insert" /\ dc \notin {"Insert", "Stopped"}
      BY <1>4, <2>4
      DEF DecodeNext, DecodeTakeSeek, DecodeBeginSeek, DecodeUnpause, DecodeRebuffer,
          DecodeNoSeek, DecodeGate, DecodePop, DecodeCheck, DecodeSend, DecodeReceive,
          DecodePreroll, DecodeReady, DecodePauseSelf, DecodeGap, DecodeEof,
          DecodeEofReady, DecodeEofHold, DecodeEofHoldReady, DecodeEofHoldPause,
          DecodeDrain, DecodeFail, DecodeFailPause, Typed, TypeOK, DecodeTypes
    <3> QED BY <2>0, <3>1, <3>2, <3>3
  <2> QED BY <2>1, <2>2, <2>3, <2>4
<1>5. CASE UNCHANGED vars
  BY <1>5 DEF vars, apiVars, decodeVars
<1> QED BY <1>1, <1>2, <1>3, <1>4, <1>5 DEF Next

LEMMA FlushCorrect == Spec => []FlushAdmitsOne
<1>1. Init => FlushAdmitsOne
  BY DEF Init, FlushAdmitsOne
<1> QED BY <1>1, FlushStep, TypedCorrect, PTL DEF Spec

(* No frame of before the seek begun last enters the buffer any more, and   *)
(* when it is begun at most one is there, as long as no unchecked store of *)
(* the decode thread has taken Flushing back and no later seek is about to *)
(* clear: prepare_track_seek_transition against push_frame.                *)
THEOREM StaleCorrect == Spec => AtMostOneStale
<1>1. ASSUME Typed, Typed', FrameOneEpoch, FlushAdmitsOne, [Next]_vars
      PROVE  \/ dcEpoch' = dcEpoch /\ Cardinality(StaleFrames') <= Cardinality(StaleFrames)
             \/ dcEpoch' # dcEpoch /\ (state # "Flushing" \/ ui = "ClearFrames")
             \/ dcEpoch' # dcEpoch /\ Cardinality(StaleFrames') <= 1
  <2>1. /\ buffer \in Seq(Packets) /\ buffer' \in Seq(Packets)
        /\ dcEpoch \in Nat /\ dcEpoch' \in Nat
    BY <1>1, Sizes DEF Typed, TypeOK, SharedTypes, DecodeTypes
  <2>2. CASE dcEpoch' = dcEpoch
    <3>1. \/ buffer' = buffer \/ buffer' = <<>>
          \/ buffer # <<>> /\ buffer' = Tail(buffer)
          \/ \E x \in Packets : x.e = dcEpoch /\ buffer' = Append(buffer, x)
      <4>1. DecodeInsert => dcItem.e = dcEpoch
        BY <1>1 DEF DecodeInsert, FrameOneEpoch
      <4> QED BY <1>1, <4>1, BufferStep
    <3>2. Cardinality({i \in DOMAIN buffer' : buffer'[i].e < dcEpoch})
            <= Cardinality({i \in DOMAIN buffer : buffer[i].e < dcEpoch})
      BY <2>1, <3>1, FewerStale
    <3> QED BY <2>2, <3>2 DEF StaleFrames
  <2>3. CASE dcEpoch' # dcEpoch /\ state = "Flushing" /\ ui # "ClearFrames"
    <3>1. DecodeBeginSeek
      <4>1. ~(SeekPauseDecode \/ Play \/ Pause \/ ApiContinue)
        BY <2>3, ApiFrame
      <4>2. ~(RenderNext \/ RenderResumeDecode)
        BY <2>3, RenderFrame
      <4>3. ~DemuxNext
        BY <2>3, DemuxFrame
      <4>4. ~UNCHANGED vars
        BY <2>3 DEF vars, decodeVars
      <4>5. ~DecodeTakeSeek
        BY <2>3 DEF DecodeTakeSeek
      <4> QED BY <1>1, <2>3, <4>1, <4>2, <4>3, <4>4, <4>5, DecodeFrame DEF Next
    <3>2. buffer' = buffer /\ dc = "Begin"
      BY <3>1 DEF DecodeBeginSeek
    <3>3. Len(buffer) <= 1
      BY <1>1, <2>1, <2>3, <3>2 DEF FlushAdmitsOne
    <3>4. StaleFrames' \in SUBSET (1 .. 1)
      <4>1. StaleFrames' \in SUBSET DOMAIN buffer
        BY <3>2 DEF StaleFrames
      <4>2. DOMAIN buffer = 1 .. Len(buffer) /\ Len(buffer) \in Nat
        BY <2>1
      <4>3. DOMAIN buffer \in SUBSET (1 .. 1)
        BY <3>3, <4>2
      <4> QED BY <4>1, <4>3
    <3>5. IsFiniteSet(1 .. 1) /\ Cardinality(1 .. 1) = 1
      <4>1. 1 \in Int /\ 1 - 1 + 1 = 1 /\ ~(1 > 1)
        OBVIOUS
      <4> QED BY <4>1, FS_Interval
    <3> QED BY <2>3, <3>4, <3>5, FS_Subset
  <2> QED BY <2>2, <2>3
<1> QED BY <1>1, TypedCorrect, FrameCorrect, FlushCorrect, PTL DEF Spec, AtMostOneStale
=============================================================================

--------------------------- MODULE VideoPipeline ---------------------------
(***************************************************************************)
(* One video track of src/native: the renderer's API thread (play, pause,  *)
(* seek), the DemuxThread, the DecodeThread and the render thread, around  *)
(* the SeekController, the PacketQueue, the TrackBuffer and the three      *)
(* atomics of the DecodeThread.  Seeks are keyframe seeks; an API call     *)
(* holds lifecycle_mutex_ and state_mutex_ until it returns, so calls do   *)
(* not overlap each other nor the render thread's commit, but every store  *)
(* of a call is a step of its own between steps of the other two threads.  *)
(*                                                                         *)
(* The file has packets 1 .. Last.  Every packet carries, as a history     *)
(* value, the number of the seek the demuxer had executed when it read it. *)
(***************************************************************************)
EXTENDS PacketQueueOps, FiniteSets

CONSTANTS
  Last,            \* packets in the file
  Capacity,        \* PacketQueue::max_packets_
  BufferFrames,    \* BidiRingBuffer::max_count
  PrerollFrames,   \* TrackBuffer::preroll_target_
  PostSeekFrames,  \* decode_post_seek_preroll_target: 2 on hardware, else 1
  Delay,           \* packets the codec takes in before its first frame
  MaxSeeks,        \* bound: seeks requested
  MaxToggles,      \* bound: plays and pauses
  StartPlaying,    \* may the player be playing, may it be paused, when the track starts
  OverlappingSeeks,\* may a seek be asked for while an earlier one is under way
  ReadErrors,      \* may a read fail
  DecodeErrors     \* may the conversion of a frame fail

ASSUME PipelineAssumption ==
  /\ Last \in Nat /\ MaxSeeks \in Nat /\ MaxToggles \in Nat /\ Delay \in Nat
  /\ Capacity \in Nat \ {0} /\ BufferFrames \in Nat \ {0}
  /\ PrerollFrames \in 1 .. BufferFrames /\ PostSeekFrames \in 1 .. BufferFrames
  /\ StartPlaying \in SUBSET BOOLEAN /\ StartPlaying # {}
  /\ OverlappingSeeks \in BOOLEAN /\ ReadErrors \in BOOLEAN /\ DecodeErrors \in BOOLEAN

VARIABLES
  ui,         \* where the API call in progress is
  seeks,      \* number of the latest seek asked for, 0 before the first
  toggles,    \* plays and pauses so far
  playing,    \* RendererTimelineController::playing
  request,    \* SeekController::pending_: the seek waiting there, or 0
  queue,      \* the PacketQueue
  dx,         \* where the demux thread is
  dxEpoch,    \* the seek the demuxer executed last
  dxNext,     \* the packet it reads next, Last + 1 at the end of the file
  dxEof,      \* eof_reached
  notice,     \* DecodeThread::seek_.pending: the seek notified, or 0
  cancelled, decodePaused, pauseAfterPreroll,   \* the atomics
  dc,         \* where the decode thread is
  dcThen,     \* where it goes on after publishing or after the preroll check
  dcEpoch,    \* the seek it began last
  dcTaken,    \* the notification it has taken and not begun yet
  dcItem,     \* the packet, or the frame, in its hands
  codec,      \* packets sent and not received back as frames
  draining,   \* the codec was sent the null packet
  postSeek, eofFlushed,
  buffer,     \* the frames of the TrackBuffer from the cursor on
  state,      \* its TrackState
  rd,         \* where the render thread is
  rdFrame,    \* the frame it presents, state_mutex_ released
  shown,      \* RendererPresentHistory: the frame presented last since the last seek
  redraw      \* ~RendererPreviewState::drawn_: a paused picture is due

apiVars    == <<ui, seeks, toggles, playing>>
demuxVars  == <<dx, dxEpoch, dxNext, dxEof>>
decodeVars == <<dc, dcThen, dcEpoch, dcTaken, dcItem, codec, draining, postSeek,
                eofFlushed>>
flagVars   == <<cancelled, decodePaused, pauseAfterPreroll>>
renderVars == <<rd, rdFrame, shown, redraw>>
vars == <<apiVars, renderVars, request, queue, demuxVars, notice, flagVars,
          decodeVars, buffer, state>>

(* What a thread never writes. *)
notByApi    == <<demuxVars, notice, cancelled, decodeVars, rd, rdFrame>>
notByDemux  == <<apiVars, renderVars, decodePaused, pauseAfterPreroll, decodeVars, buffer>>
notByDecode == <<apiVars, renderVars, request, demuxVars, pauseAfterPreroll>>
notByRender == <<apiVars, request, queue, demuxVars, notice, cancelled, pauseAfterPreroll,
                 decodeVars, state>>

Packets == [e : 0 .. MaxSeeks, p : 1 .. Last]
NoPacket == [e |-> 0, p |-> 0]

TrackStates == {"Buffering", "Ready", "Flushing", "Error"}

(* A track just started: add_track starts both threads, paused or playing. *)
Init ==
  /\ ui = "Idle" /\ seeks = 0 /\ toggles = 0
  /\ playing \in StartPlaying
  /\ request = 0 /\ queue = NewQueue
  /\ dx = "Loop" /\ dxEpoch = 0 /\ dxNext = 1 /\ dxEof = FALSE
  /\ notice = 0
  /\ cancelled = FALSE /\ decodePaused = FALSE /\ pauseAfterPreroll = ~playing
  /\ dc = "Loop" /\ dcThen = "Loop" /\ dcEpoch = 0 /\ dcTaken = 0 /\ dcItem = NoPacket
  /\ codec = <<>> /\ draining = FALSE /\ postSeek = FALSE /\ eofFlushed = FALSE
  /\ buffer = <<>> /\ state = "Buffering"
  /\ rd = "Idle" /\ rdFrame = NoPacket /\ shown = NoPacket /\ redraw = TRUE

(* After everything a seek set going has happened: no call in progress, no *)
(* request or notification waiting, none being begun, and the preroll done.*)
SeekDone ==
  /\ ui = "Idle" /\ request = 0 /\ notice = 0 /\ dc \notin {"Begin", "Unpause", "Rebuffer"}
  /\ dx \notin {"Seek", "Cancel", "Notify"}
  /\ dcEpoch = seeks /\ state = "Ready"

-----------------------------------------------------------------------------
(* The API thread.                                                         *)

(* prepare_track_seek_transition: decode is paused before anything else.   *)
SeekPauseDecode ==
  /\ ui = "Idle" /\ seeks < MaxSeeks
  /\ OverlappingSeeks \/ seeks = 0 \/ SeekDone
  /\ seeks' = seeks + 1
  /\ decodePaused' = TRUE
  /\ ui' = "SetFlushing"
  /\ UNCHANGED <<notByApi, toggles, playing, shown, redraw, request, queue,
                 pauseAfterPreroll, buffer, state>>

SeekSetFlushing ==
  /\ ui = "SetFlushing"
  /\ state' = "Flushing"
  /\ ui' = "ClearFrames"
  /\ UNCHANGED <<notByApi, seeks, toggles, playing, shown, redraw, request,
                 queue, decodePaused, pauseAfterPreroll, buffer>>

SeekClearFrames ==
  /\ ui = "ClearFrames"
  /\ buffer' = <<>>
  /\ ui' = "FlushQueue"
  /\ UNCHANGED <<notByApi, seeks, toggles, playing, shown, redraw, request,
                 queue, decodePaused, pauseAfterPreroll, state>>

SeekFlushQueue ==
  /\ ui = "FlushQueue"
  /\ queue' = Flush(queue)
  /\ ui' = "PauseAfter"
  /\ UNCHANGED <<notByApi, seeks, toggles, playing, shown, redraw, request,
                 decodePaused, pauseAfterPreroll, buffer, state>>

(* submit_track_seek_after_recreate, first half. *)
SeekPauseAfterPreroll ==
  /\ ui = "PauseAfter"
  /\ pauseAfterPreroll' = ~playing
  /\ ui' = "Request"
  /\ UNCHANGED <<notByApi, seeks, toggles, playing, shown, redraw, request,
                 queue, decodePaused, buffer, state>>

(* Mutant: a request waiting in the SeekController is kept. *)
SeekRequestKeepsFirst ==
  /\ ui = "Request"
  /\ request' = IF request = 0 THEN seeks ELSE request
  /\ redraw' = TRUE /\ shown' = NoPacket
  /\ ui' = "Idle"
  /\ UNCHANGED <<notByApi, seeks, toggles, playing, queue, decodePaused,
                 pauseAfterPreroll, buffer, state>>

(* SeekController::request_seek replaces a request nobody has taken; the   *)
(* seek ends with force_preview_redraw and the reset of the history.       *)
SeekRequest ==
  /\ ui = "Request"
  /\ request' = seeks
  /\ redraw' = TRUE /\ shown' = NoPacket
  /\ ui' = "Idle"
  /\ UNCHANGED <<notByApi, seeks, toggles, playing, queue, decodePaused,
                 pauseAfterPreroll, buffer, state>>

(* Renderer::play does nothing while playing; Renderer::pause always does.  *)
(* apply_track_playback_decode_state stores pause_after_preroll_ and then,  *)
(* a step of its own, decode_paused_.                                      *)
Play ==
  /\ ui = "Idle" /\ toggles < MaxToggles /\ ~playing
  /\ toggles' = toggles + 1
  /\ playing' = TRUE
  /\ pauseAfterPreroll' = FALSE
  /\ ui' = "PauseDecode"
  /\ UNCHANGED <<notByApi, seeks, shown, redraw, request, queue, decodePaused,
                 buffer, state>>

Pause ==
  /\ ui = "Idle" /\ toggles < MaxToggles
  /\ toggles' = toggles + 1
  /\ playing' = FALSE
  /\ pauseAfterPreroll' = TRUE
  /\ ui' = "PauseDecode"
  /\ UNCHANGED <<notByApi, seeks, shown, redraw, request, queue, decodePaused,
                 buffer, state>>

ToggleDecode ==
  /\ ui = "PauseDecode"
  /\ decodePaused' = ~playing
  /\ ui' = "Idle"
  /\ UNCHANGED <<notByApi, seeks, toggles, playing, shown, redraw, request,
                 queue, pauseAfterPreroll, buffer, state>>

-----------------------------------------------------------------------------
(* The render thread.  state_mutex_ is held, so no call is in progress,    *)
(* when it looks at the player, at the preview and when it commits; it is  *)
(* not when the sink is evaluated and while a frame is presented.  The     *)
(* clock is left out: the head's time may have come or not, and the pacing *)
(* may hold a playing clock or not, but does hold it during a preroll.     *)

RenderLook ==
  /\ ui = "Idle" /\ rd = "Idle"
  /\ \/ ~playing /\ rd' = "Paused"
     \/ playing /\ rd' = "Held"
     \/ playing /\ state \in {"Ready", "Error"} /\ rd' = "Running"
  /\ UNCHANGED <<notByRender, rdFrame, shown, redraw, decodePaused, buffer>>

HeadPreviewed == shown = NoPacket /\ state = "Ready" /\ buffer # <<>>

(* A picture is due while nothing runs: the frame of the history, or else  *)
(* the head of a buffer that is Ready.                                     *)
RenderBeginPreview ==
  /\ ui = "Idle" /\ rd \in {"Paused", "Held"} /\ redraw
  /\ \/ shown # NoPacket /\ rd' = "Redrawing" /\ rdFrame' = shown
     \/ /\ HeadPreviewed
        /\ rd' = IF rd = "Held" THEN "Redrawing" ELSE "Previewing"
        /\ rdFrame' = Head(buffer)
  /\ UNCHANGED <<notByRender, shown, redraw, decodePaused, buffer>>

(* RenderSink::evaluate: the head has fallen due. *)
RenderTick ==
  /\ rd = "Running" /\ buffer # <<>>
  /\ rd' = "Presenting" /\ rdFrame' = Head(buffer)
  /\ UNCHANGED <<notByRender, shown, redraw, decodePaused, buffer>>

(* No picture is due, or no head. *)
RenderNothing ==
  /\ \/ rd = "Running"
     \/ /\ ui = "Idle" /\ rd \in {"Paused", "Held"}
        /\ ~redraw \/ (shown = NoPacket /\ ~HeadPreviewed)
  /\ rd' = "Idle"
  /\ UNCHANGED <<notByRender, rdFrame, shown, redraw, decodePaused, buffer>>

(* finish_presented_draw. *)
RenderPresented ==
  /\ ui = "Idle" /\ rd \in {"Redrawing", "Previewing", "Presenting"}
  /\ redraw' = FALSE
  /\ rd' = CASE rd = "Redrawing" -> "CommitRedraw"
             [] rd = "Previewing" -> "CommitPreview"
             [] rd = "Presenting" -> "CommitPresent"
  /\ UNCHANGED <<notByRender, rdFrame, shown, decodePaused, buffer>>

(* Mutant: what is at the head by now is taken for the frame presented. *)
RenderCommitTakesHead ==
  /\ ui = "Idle" /\ rd \in {"CommitRedraw", "CommitPreview", "CommitPresent"}
  /\ shown' = rdFrame
  /\ decodePaused' = (decodePaused \/ rd = "CommitPreview")
  /\ buffer' = IF rd = "CommitPresent" /\ buffer # <<>> THEN Tail(buffer) ELSE buffer
  /\ rd' = "Idle" /\ rdFrame' = NoPacket
  /\ UNCHANGED <<notByRender, redraw>>

(* The history is set; a preview begun while paused pauses the decoder;    *)
(* a frame played is taken from the buffer if it is still its head.        *)
RenderCommit ==
  /\ ui = "Idle" /\ rd \in {"CommitRedraw", "CommitPreview", "CommitPresent"}
  /\ shown' = rdFrame
  /\ decodePaused' = (decodePaused \/ rd = "CommitPreview")
  /\ buffer' = IF rd = "CommitPresent" /\ buffer # <<>> /\ Head(buffer) = rdFrame
               THEN Tail(buffer) ELSE buffer
  /\ rd' = "Idle" /\ rdFrame' = NoPacket
  /\ UNCHANGED <<notByRender, redraw>>

(* The pacing controller lets a held clock go on and resumes the decoder;  *)
(* it never does so with an empty buffer before the end of the stream.     *)
RenderResumeDecode ==
  /\ ui = "Idle" /\ rd = "Idle" /\ playing /\ decodePaused
  /\ state = "Error" \/ (state = "Ready" /\ (buffer # <<>> \/ queue.eof))
  /\ decodePaused' = FALSE
  /\ redraw' = TRUE
  /\ UNCHANGED <<notByRender, rd, rdFrame, shown, buffer>>

-----------------------------------------------------------------------------
(* DemuxThread::run.                                                       *)

(* take_pending. *)
DemuxTakeSeek ==
  /\ dx = "Loop" /\ request # 0
  /\ dxEpoch' = request
  /\ request' = 0
  /\ dx' = "Seek"
  /\ UNCHANGED <<notByDemux, queue, dxNext, dxEof, notice, cancelled, state>>

(* Mutant: the demuxer relies on the flush of the API thread. *)
DemuxSeekInputNoFlush ==
  /\ dx = "Seek"
  /\ \E key \in (1 .. Last) \cup {dxNext} : dxNext' = key
  /\ dx' = "Cancel"
  /\ UNCHANGED <<notByDemux, request, queue, dxEpoch, dxEof, notice, cancelled,
                 state>>

(* flush_outputs and input_.seek, after which the demuxer stands at some   *)
(* key frame, or where it was if the seek failed.                          *)
DemuxSeekInput ==
  /\ dx = "Seek"
  /\ queue' = Flush(queue)
  /\ \E key \in (1 .. Last) \cup {dxNext} : dxNext' = key
  /\ dx' = "Cancel"
  /\ UNCHANGED <<notByDemux, request, dxEpoch, dxEof, notice, cancelled, state>>

(* The seek callback, DecodeThread::notify_seek, in its two halves. *)
DemuxCancelDecode ==
  /\ dx = "Cancel"
  /\ cancelled' = TRUE
  /\ dx' = "Notify"
  /\ UNCHANGED <<notByDemux, request, queue, dxEpoch, dxNext, dxEof, notice,
                 state>>

DemuxNotify ==
  /\ dx = "Notify"
  /\ notice' = dxEpoch
  /\ dxEof' = FALSE
  /\ dx' = "Loop"
  /\ UNCHANGED <<notByDemux, request, queue, dxEpoch, dxNext, cancelled, state>>

(* No seek is pending: av_read_frame returns a packet, the end of the file *)
(* or an error.                                                            *)
DemuxRead ==
  /\ dx = "Loop" /\ request = 0 /\ ~dxEof
  /\ \/ dxNext <= Last /\ dx' = "Push"
     \/ dxNext > Last /\ dx' = "SignalEof"
     \/ ReadErrors /\ dx' = "ReportError"
  /\ UNCHANGED <<notByDemux, request, queue, dxEpoch, dxNext, dxEof, notice,
                 cancelled, state>>

(* PacketQueue::push, which blocks while the queue is full. *)
DemuxPush ==
  /\ dx = "Push" /\ PushReady(queue, Capacity)
  /\ queue' = IF queue.aborted THEN queue
              ELSE Enqueue(queue, [e |-> dxEpoch, p |-> dxNext])
  /\ dxNext' = dxNext + 1
  /\ dx' = "Loop"
  /\ UNCHANGED <<notByDemux, request, dxEpoch, dxEof, notice, cancelled, state>>

DemuxSignalEof ==
  /\ dx = "SignalEof"
  /\ queue' = SignalEof(queue)
  /\ dxEof' = TRUE
  /\ dx' = "Loop"
  /\ UNCHANGED <<notByDemux, request, dxEpoch, dxNext, notice, cancelled, state>>

(* emit_error: the callback of configure_track_error_callback. *)
DemuxReportError ==
  /\ dx = "ReportError"
  /\ state' = "Error"
  /\ dx' = "AbortOutputs"
  /\ UNCHANGED <<notByDemux, request, queue, dxEpoch, dxNext, dxEof, notice,
                 cancelled>>

(* The loop is left for good: seeks asked for later are never taken. *)
DemuxAbortOutputs ==
  /\ dx = "AbortOutputs"
  /\ queue' = Abort(queue)
  /\ dx' = "Stopped"
  /\ UNCHANGED <<notByDemux, request, dxEpoch, dxNext, dxEof, notice,
                 cancelled, state>>

-----------------------------------------------------------------------------
(* DecodeThread::run_decode_loop_step, from the top.                       *)

(* take_pending_seek_notification, then begin_seek_epoch in three stores.  *)
DecodeTakeSeek ==
  /\ dc = "Loop" /\ notice # 0
  /\ dcTaken' = notice
  /\ notice' = 0
  /\ dc' = "Begin"
  /\ UNCHANGED <<notByDecode, queue, cancelled, decodePaused, dcThen, dcEpoch,
                 dcItem, codec, draining, postSeek, eofFlushed, buffer, state>>

(* cancelled_ and what only the decode thread sees: the codec is flushed. *)
DecodeBeginSeek ==
  /\ dc = "Begin"
  /\ cancelled' = FALSE
  /\ dcEpoch' = dcTaken /\ dcTaken' = 0
  /\ codec' = <<>> /\ draining' = FALSE
  /\ postSeek' = TRUE /\ eofFlushed' = FALSE
  /\ dc' = "Unpause"
  /\ UNCHANGED <<notByDecode, queue, notice, decodePaused, dcThen, dcItem,
                 buffer, state>>

DecodeUnpause ==
  /\ dc = "Unpause"
  /\ decodePaused' = FALSE
  /\ dc' = "Rebuffer"
  /\ UNCHANGED <<notByDecode, queue, notice, cancelled, dcThen, dcEpoch,
                 dcTaken, dcItem, codec, draining, postSeek, eofFlushed,
                 buffer, state>>

DecodeRebuffer ==
  /\ dc = "Rebuffer"
  /\ state' = "Buffering"
  /\ dc' = "Loop"
  /\ UNCHANGED <<notByDecode, queue, notice, cancelled, decodePaused, dcThen,
                 dcEpoch, dcTaken, dcItem, codec, draining, postSeek,
                 eofFlushed, buffer>>

(* No notification: to the gate. *)
DecodeNoSeek ==
  /\ dc = "Loop" /\ notice = 0
  /\ dc' = "Gate"
  /\ UNCHANGED <<notByDecode, queue, notice, cancelled, decodePaused, dcThen,
                 dcEpoch, dcTaken, dcItem, codec, draining, postSeek,
                 eofFlushed, buffer, state>>

GateClosed == decodePaused /\ state # "Flushing"

(* should_pause_decode_consumption: sleep and start over. *)
DecodeGate ==
  /\ dc = "Gate" /\ GateClosed
  /\ dc' = "Loop"
  /\ UNCHANGED <<notByDecode, queue, notice, cancelled, decodePaused, dcThen,
                 dcEpoch, dcTaken, dcItem, codec, draining, postSeek,
                 eofFlushed, buffer, state>>

(* try_pop. *)
DecodePop ==
  /\ dc = "Gate" /\ ~GateClosed
  /\ queue' = AfterPop(queue, TryPopStatus(queue))
  /\ IF TryPopStatus(queue) = "Packet"
     THEN dcItem' = Head(queue.items) /\ eofFlushed' = FALSE /\ dc' = "Check"
     ELSE dc' = "Gap" /\ UNCHANGED <<dcItem, eofFlushed>>
  /\ UNCHANGED <<notByDecode, notice, cancelled, decodePaused, dcThen, dcEpoch,
                 dcTaken, codec, draining, postSeek, buffer, state>>

-----------------------------------------------------------------------------
(* process_decode_packet.                                                  *)

Discarding == notice # 0 \/ decodePaused \/ state = "Flushing"

(* should_discard_packet_before_decode. *)
DecodeCheck ==
  /\ dc = "Check"
  /\ IF Discarding THEN dc' = "Loop" /\ dcItem' = NoPacket
     ELSE dc' = "Send" /\ UNCHANGED dcItem
  /\ UNCHANGED <<notByDecode, queue, notice, cancelled, decodePaused, dcThen,
                 dcEpoch, dcTaken, codec, draining, postSeek, eofFlushed,
                 buffer, state>>

(* should_abort_packet_before_send, then send_packet; a codec being        *)
(* drained refuses the packet, which is lost.                              *)
DecodeSend ==
  /\ dc = "Send"
  /\ dcItem' = NoPacket
  /\ IF cancelled
     THEN dc' = "Loop" /\ UNCHANGED <<dcThen, codec>>
     ELSE /\ codec' = IF draining THEN codec ELSE Append(codec, dcItem)
          /\ dc' = "Receive" /\ dcThen' = "Receive"
  /\ UNCHANGED <<notByDecode, queue, notice, cancelled, decodePaused, dcEpoch,
                 dcTaken, draining, postSeek, eofFlushed, buffer, state>>

HasOutput == Len(codec) > (IF draining THEN 0 ELSE Delay)

(* One turn of receive_decode_frames_for_packet; when it ends,             *)
(* process_decode_packet checks the preroll once more.                     *)
DecodeReceive ==
  /\ dc = "Receive"
  /\ IF ~cancelled /\ HasOutput
     THEN /\ dcItem' = Head(codec) /\ codec' = Tail(codec)
          /\ dc' = "Publish" /\ UNCHANGED dcThen
     ELSE dc' = "Preroll" /\ dcThen' = "Loop" /\ UNCHANGED <<dcItem, codec>>
  /\ UNCHANGED <<notByDecode, queue, notice, cancelled, decodePaused, dcEpoch,
                 dcTaken, draining, postSeek, eofFlushed, buffer, state>>

(* Mutant: push_frame takes what comes in Flushing. *)
DecodePublishAnyState ==
  /\ dc = "Publish" /\ Len(buffer) < BufferFrames
  /\ dc' = "Insert"
  /\ UNCHANGED <<notByDecode, queue, notice, cancelled, decodePaused, dcThen,
                 dcEpoch, dcTaken, dcItem, codec, draining, postSeek,
                 eofFlushed, buffer, state>>

(* TrackBuffer::push_frame: it waits for room, then looks at the state. *)
DecodePublish ==
  /\ dc = "Publish" /\ Len(buffer) < BufferFrames
  /\ IF state = "Flushing"
     THEN dcItem' = NoPacket /\ dc' = IF dcThen = "Drain" THEN "Drain" ELSE "Preroll"
     ELSE dc' = "Insert" /\ UNCHANGED dcItem
  /\ UNCHANGED <<notByDecode, queue, notice, cancelled, decodePaused, dcThen,
                 dcEpoch, dcTaken, codec, draining, postSeek, eofFlushed,
                 buffer, state>>

DecodeInsert ==
  /\ dc = "Insert"
  /\ buffer' = Append(buffer, dcItem)
  /\ dcItem' = NoPacket
  /\ dc' = IF dcThen = "Drain" THEN "Drain" ELSE "Preroll"
  /\ UNCHANGED <<notByDecode, queue, notice, cancelled, decodePaused, dcThen,
                 dcEpoch, dcTaken, codec, draining, postSeek, eofFlushed, state>>

PrerollReady ==
  Len(buffer) >= (IF postSeek THEN PostSeekFrames ELSE PrerollFrames)

(* complete_preroll_if_ready: what it decides ... *)
DecodePreroll ==
  /\ dc = "Preroll"
  /\ dc' = IF state # "Buffering" \/ ~PrerollReady THEN dcThen
           ELSE IF pauseAfterPreroll THEN "ReadyPaused" ELSE "ReadyRunning"
  /\ UNCHANGED <<notByDecode, queue, notice, cancelled, decodePaused, dcThen,
                 dcEpoch, dcTaken, dcItem, codec, draining, postSeek,
                 eofFlushed, buffer, state>>

(* ... and its stores, which ask no more what the state is by now. *)
DecodeReady ==
  /\ dc \in {"ReadyPaused", "ReadyRunning"}
  /\ state' = "Ready"
  /\ postSeek' = FALSE
  /\ dc' = IF dc = "ReadyPaused" THEN "PauseSelf" ELSE dcThen
  /\ UNCHANGED <<notByDecode, queue, notice, cancelled, decodePaused, dcThen,
                 dcEpoch, dcTaken, dcItem, codec, draining, eofFlushed, buffer>>

DecodePauseSelf ==
  /\ dc = "PauseSelf"
  /\ decodePaused' = TRUE
  /\ dc' = dcThen
  /\ UNCHANGED <<notByDecode, queue, notice, cancelled, dcThen, dcEpoch,
                 dcTaken, dcItem, codec, draining, postSeek, eofFlushed,
                 buffer, state>>

-----------------------------------------------------------------------------
(* handle_queue_gap_or_eof, when try_pop gave no packet.                   *)

DecodeGap ==
  /\ dc = "Gap"
  /\ dc' = IF cancelled THEN "Loop" ELSE "Eof"
  /\ UNCHANGED <<notByDecode, queue, notice, cancelled, decodePaused, dcThen,
                 dcEpoch, dcTaken, dcItem, codec, draining, postSeek,
                 eofFlushed, buffer, state>>

(* Mutant: the end of the stream met in Buffering is only marked. *)
DecodeEofMarkOnly ==
  /\ dc = "Eof"
  /\ IF ~queue.eof \/ eofFlushed
     THEN dc' = "Loop" /\ UNCHANGED <<dcThen, draining, eofFlushed>>
     ELSE IF state = "Buffering"
     THEN eofFlushed' = TRUE /\ dc' = "Loop" /\ UNCHANGED <<dcThen, draining>>
     ELSE /\ draining' = TRUE
          /\ dc' = "Drain" /\ dcThen' = "Drain"
          /\ UNCHANGED eofFlushed
  /\ UNCHANGED <<notByDecode, queue, notice, cancelled, decodePaused, dcEpoch,
                 dcTaken, dcItem, codec, postSeek, buffer, state>>

(* choose_eof_drain_action without an exact seek.  In Buffering the end is *)
(* only marked as handled; otherwise the null packet is sent.              *)
DecodeEof ==
  /\ dc = "Eof"
  /\ IF ~queue.eof \/ eofFlushed
     THEN dc' = "Loop" /\ UNCHANGED <<dcThen, draining, eofFlushed>>
     ELSE IF state = "Buffering"
     THEN /\ eofFlushed' = TRUE
          /\ dc' = IF postSeek THEN "EofReady" ELSE "EofHold"
          /\ UNCHANGED <<dcThen, draining>>
     ELSE /\ draining' = TRUE
          /\ dc' = "Drain" /\ dcThen' = "Drain"
          /\ UNCHANGED eofFlushed
  /\ UNCHANGED <<notByDecode, queue, notice, cancelled, decodePaused, dcEpoch,
                 dcTaken, dcItem, codec, postSeek, buffer, state>>

(* handle_buffering_eof after a seek: Ready, even with no frame. *)
DecodeEofReady ==
  /\ dc = "EofReady"
  /\ state' = "Ready"
  /\ postSeek' = FALSE
  /\ dc' = "Loop"
  /\ UNCHANGED <<notByDecode, queue, notice, cancelled, decodePaused, dcThen,
                 dcEpoch, dcTaken, dcItem, codec, draining, eofFlushed, buffer>>

(* handle_buffering_eof otherwise: Ready if there is a frame, and then     *)
(* paused if pause_after_preroll_.                                         *)
DecodeEofHold ==
  /\ dc = "EofHold"
  /\ dc' = IF buffer = <<>> THEN "Loop" ELSE "EofHoldReady"
  /\ UNCHANGED <<notByDecode, queue, notice, cancelled, decodePaused, dcThen,
                 dcEpoch, dcTaken, dcItem, codec, draining, postSeek,
                 eofFlushed, buffer, state>>

DecodeEofHoldReady ==
  /\ dc = "EofHoldReady"
  /\ state' = "Ready"
  /\ dc' = "EofHoldPause"
  /\ UNCHANGED <<notByDecode, queue, notice, cancelled, decodePaused, dcThen,
                 dcEpoch, dcTaken, dcItem, codec, draining, postSeek,
                 eofFlushed, buffer>>

DecodeEofHoldPause ==
  /\ dc = "EofHoldPause"
  /\ dcThen' = "Loop"
  /\ dc' = IF pauseAfterPreroll THEN "PauseSelf" ELSE "Loop"
  /\ UNCHANGED <<notByDecode, queue, notice, cancelled, decodePaused, dcEpoch,
                 dcTaken, dcItem, codec, draining, postSeek, eofFlushed,
                 buffer, state>>

(* One turn of drain_codec_at_eof; the codec is not flushed afterwards and *)
(* cancelled_ is not looked at.                                            *)
DecodeDrain ==
  /\ dc = "Drain"
  /\ IF HasOutput
     THEN /\ dcItem' = Head(codec) /\ codec' = Tail(codec)
          /\ dc' = "Publish" /\ UNCHANGED <<dcThen, eofFlushed>>
     ELSE /\ eofFlushed' = TRUE
          /\ dc' = "Loop" /\ dcThen' = "Loop" /\ UNCHANGED <<dcItem, codec>>
  /\ UNCHANGED <<notByDecode, queue, notice, cancelled, decodePaused, dcEpoch,
                 dcTaken, draining, postSeek, buffer, state>>

-----------------------------------------------------------------------------
(* A frame that cannot be converted: fail_decoded_frame_publish, and the   *)
(* last store of DecodeThread::run.                                        *)

DecodeFail ==
  /\ DecodeErrors /\ dc = "Publish"
  /\ state' = "Error"
  /\ dcItem' = NoPacket
  /\ dc' = "FailPause"
  /\ UNCHANGED <<notByDecode, queue, notice, cancelled, decodePaused, dcThen,
                 dcEpoch, dcTaken, codec, draining, postSeek, eofFlushed,
                 buffer>>

DecodeFailPause ==
  /\ dc = "FailPause"
  /\ decodePaused' = TRUE
  /\ dc' = "Exit"
  /\ UNCHANGED <<notByDecode, queue, notice, cancelled, dcThen, dcEpoch,
                 dcTaken, dcItem, codec, draining, postSeek, eofFlushed,
                 buffer, state>>

DecodeExit ==
  /\ dc = "Exit"
  /\ state' = "Flushing"
  /\ dc' = "Stopped"
  /\ UNCHANGED <<notByDecode, queue, notice, cancelled, decodePaused, dcThen,
                 dcEpoch, dcTaken, dcItem, codec, draining, postSeek,
                 eofFlushed, buffer>>

-----------------------------------------------------------------------------
ApiContinue ==
  \/ SeekSetFlushing \/ SeekClearFrames \/ SeekFlushQueue \/ SeekPauseAfterPreroll
  \/ SeekRequest \/ ToggleDecode

DemuxNext ==
  \/ DemuxTakeSeek \/ DemuxSeekInput \/ DemuxCancelDecode \/ DemuxNotify \/ DemuxRead
  \/ DemuxPush \/ DemuxSignalEof \/ DemuxReportError \/ DemuxAbortOutputs

DecodeNext ==
  \/ DecodeTakeSeek \/ DecodeBeginSeek \/ DecodeUnpause \/ DecodeRebuffer
  \/ DecodeNoSeek \/ DecodeGate \/ DecodePop \/ DecodeCheck \/ DecodeSend
  \/ DecodeReceive \/ DecodePublish \/ DecodeInsert \/ DecodePreroll \/ DecodeReady
  \/ DecodePauseSelf \/ DecodeGap \/ DecodeEof \/ DecodeEofReady \/ DecodeEofHold
  \/ DecodeEofHoldReady \/ DecodeEofHoldPause \/ DecodeDrain
  \/ DecodeFail \/ DecodeFailPause \/ DecodeExit

RenderNext ==
  \/ RenderLook \/ RenderBeginPreview \/ RenderTick \/ RenderNothing
  \/ RenderPresented \/ RenderCommit

Next ==
  \/ SeekPauseDecode \/ Play \/ Pause \/ ApiContinue
  \/ RenderNext \/ RenderResumeDecode \/ DemuxNext \/ DecodeNext

Spec == Init /\ [][Next]_vars

(* Each thread keeps running: none of the waits of the demux thread and of *)
(* the decode thread can be withdrawn once its condition holds, except the *)
(* room in the queue and in the buffer, which only they use up.  The       *)
(* pacing does not hold the clock of a Ready track for ever, and while the *)
(* clock runs frames fall due.  The user need not press anything.          *)
FairSpec ==
  /\ Spec
  /\ WF_vars(ApiContinue) /\ WF_vars(DemuxNext) /\ WF_vars(DecodeNext)
  /\ WF_vars(RenderNext) /\ SF_vars(RenderLook /\ rd' = "Running") /\ SF_vars(RenderTick)

-----------------------------------------------------------------------------
ApiSteps == {"Idle", "SetFlushing", "ClearFrames", "FlushQueue", "PauseAfter",
             "Request", "PauseDecode"}
DemuxSteps == {"Loop", "Seek", "Cancel", "Notify", "Push", "SignalEof", "ReportError",
               "AbortOutputs", "Stopped"}
DecodeSteps == {"Loop", "Begin", "Unpause", "Rebuffer", "Gate", "Check", "Send", "Receive",
                "Publish", "Insert", "Preroll", "ReadyPaused", "ReadyRunning", "PauseSelf",
                "Gap", "Eof", "EofReady", "EofHold", "EofHoldReady", "EofHoldPause",
                "Drain", "FailPause", "Exit", "Stopped"}

RenderSteps == {"Idle", "Paused", "Held", "Running", "Redrawing", "Previewing",
                "Presenting", "CommitRedraw", "CommitPreview", "CommitPresent"}

ApiTypes ==
  ui \in ApiSteps /\ seeks \in 0 .. MaxSeeks /\ toggles \in 0 .. MaxToggles

DemuxTypes ==
  /\ dx \in DemuxSteps /\ dxEpoch \in 0 .. MaxSeeks
  /\ dxNext \in 1 .. Last + 1 /\ (dx = "Push" => dxNext <= Last)

DecodeTypes ==
  /\ dc \in DecodeSteps /\ dcThen \in {"Loop", "Receive", "Drain"}
  /\ dcEpoch \in 0 .. MaxSeeks /\ dcTaken \in 0 .. MaxSeeks
  /\ dcItem \in Packets \cup {NoPacket}
  /\ dc \in {"Check", "Send", "Publish", "Insert"} => dcItem \in Packets
  /\ codec \in Seq(Packets)

RenderTypes ==
  /\ rd \in RenderSteps /\ rdFrame \in Packets \cup {NoPacket}
  /\ rd \in {"Idle", "Paused", "Held", "Running"} <=> rdFrame = NoPacket
  /\ shown \in Packets \cup {NoPacket}

SharedTypes ==
  /\ request \in 0 .. MaxSeeks /\ notice \in 0 .. MaxSeeks
  /\ queue \in QueueType(Packets) /\ Len(queue.items) <= Capacity
  /\ buffer \in Seq(Packets) /\ Len(buffer) <= BufferFrames
  /\ state \in TrackStates

FlagTypes ==
  /\ playing \in BOOLEAN /\ redraw \in BOOLEAN /\ dxEof \in BOOLEAN
  /\ cancelled \in BOOLEAN /\ decodePaused \in BOOLEAN /\ pauseAfterPreroll \in BOOLEAN
  /\ draining \in BOOLEAN /\ postSeek \in BOOLEAN /\ eofFlushed \in BOOLEAN

(* Every variable has its type; the buffer never exceeds the ring and the  *)
(* queue its capacity.                                                     *)
TypeOK ==
  /\ ApiTypes /\ DemuxTypes /\ DecodeTypes /\ RenderTypes /\ SharedTypes
  /\ FlagTypes

(* The latest seek is never dropped between the threads: once its call has *)
(* returned it waits in the SeekController, or is being executed by the    *)
(* demuxer, or is notified, or the decode thread has it (SeekController,   *)
(* DecodeThread::notify_seek and take_pending replace what they hold).     *)
LatestSeekNotLost ==
  (seeks > 0 /\ ui \notin {"SetFlushing", "ClearFrames", "FlushQueue", "PauseAfter",
                           "Request"}) =>
    \/ request = seeks
    \/ dxEpoch = seeks /\ dx \in {"Seek", "Cancel", "Notify"}
    \/ notice = seeks \/ dcTaken = seeks \/ dcEpoch = seeks

(* The codec is only given packets read after the seek it was last flushed *)
(* for: demuxer, queue flush, notification, the checks of a packet and the *)
(* codec flush come in an order that lets no older or newer one through.   *)
CodecOneEpoch == \A i \in DOMAIN codec : codec[i].e = dcEpoch

StaleFrames == {i \in DOMAIN buffer : buffer[i].e < dcEpoch}

(* The buffer gets frames of before a seek only until the decode thread    *)
(* begins it: then at most one is there, the frame whose push_frame had    *)
(* passed its check, if Flushing has stood since the clear.  It may not:   *)
(* the Ready of complete_preroll_if_ready and of handle_buffering_eof, and *)
(* the Buffering of an earlier seek, are stored without another look, and  *)
(* a later seek may be between its Flushing and its clear.                 *)
AtMostOneStale ==
  [][\/ dcEpoch' = dcEpoch /\ Cardinality(StaleFrames') <= Cardinality(StaleFrames)
     \/ dcEpoch' # dcEpoch /\ (state # "Flushing" \/ ui = "ClearFrames")
     \/ dcEpoch' # dcEpoch /\ Cardinality(StaleFrames') <= 1]_vars

SeekServed == state = "Ready" /\ dcEpoch = seeks

(* Every seek leads to Ready for the latest seek, if the user stops asking *)
(* (seeks are bounded): no interleaving of the three threads leaves the    *)
(* track in Flushing or Buffering for ever.                                *)
SeekSettles == (seeks > 0) ~> SeekServed

(* The frames a seek of a playing track has brought in are shown: what was  *)
(* being presented when the seek came, and a frame it left in the buffer,  *)
(* may be shown after it, but not for ever.                                *)
PlayedSeekShows ==
  (\E i \in DOMAIN buffer : buffer[i].e = MaxSeeks) ~> (shown.e = MaxSeeks)
=============================================================================

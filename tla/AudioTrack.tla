----------------------------- MODULE AudioTrack -----------------------------
(***************************************************************************)
(* One audio track of src/native: the demux thread's audio route, the      *)
(* AudioDecodeThread, the PcmBuffer between it and the audio device's      *)
(* callback, and AudioEngine::remove_track, which stops the thread.        *)
(*                                                                         *)
(* The file has audio packets 1 .. LastPacket, each decoded to one frame   *)
(* of PacketFrames samples.  The route is optional: a packet that finds    *)
(* the queue full is dropped.  Packets carry, as a history value, the      *)
(* number of the seek the demuxer had executed when it read them.          *)
(***************************************************************************)
EXTENDS PcmBuffer, PacketQueueOps

CONSTANTS
  LastPacket, PacketFrames,
  FirstPts,         \* time stamp of packet 1
  Unstamped,        \* packets without a time stamp
  Corrupt,          \* packets avcodec_send_packet refuses
  QueueCapacity,    \* max_packets_ of the audio queue
  Requests,         \* the seeks that may be asked for: a target, exact or not
  LandingSlackUs,   \* how far from a target the first audio packet may be
  DeviceFrames,     \* samples the device asks for at a time
  MaxSeeks, MaxToggles   \* bounds: seeks, pauses and resumes

(* A packet and the silence before it fit the buffer, which the code does  *)
(* not look at: packets of up to 250 ms.                                   *)
ASSUME AudioAssumption ==
  /\ LastPacket \in Nat /\ PacketFrames \in Nat \ {0} /\ FirstPts \in Nat
  /\ Unstamped \subseteq 1 .. LastPacket /\ Corrupt \subseteq 1 .. LastPacket
  /\ QueueCapacity \in Nat \ {0} /\ Requests \subseteq [target : Nat, exact : BOOLEAN]
  /\ LandingSlackUs \in Nat
  /\ DeviceFrames \in Nat \ {0} /\ MaxSeeks \in Nat /\ MaxToggles \in Nat
  /\ PacketFrames + UsToFrames(SmallSeekGapUs) <= CapacityFrames

VARIABLES
  dx, dxNext, dxEof, seeks,     \* demux thread: where it is, next packet, seeks taken
  sought,                       \* the request it executes
  queue,                        \* the audio PacketQueue
  seekPending, paused, running, \* the atomics of the decode thread
  pc, packet, codec, serial, chunk,   \* the decode thread
  pcm,                          \* the PcmBuffer
  engine, toggles               \* AudioEngine: where remove_track is

demuxVars  == <<dx, dxNext, dxEof, seeks, sought>>
decodeVars == <<pc, packet, codec, serial, chunk>>
engineVars == <<engine, toggles>>
vars == <<demuxVars, queue, seekPending, paused, running, decodeVars, pcm, engineVars>>

Packet(p, e) == [p |-> p, e |-> e]
NoPacket     == Packet(0, 0)
NoChunk      == Chunk(0, NoPts, Silence, 0)
PacketPts(p) == IF p \in Unstamped THEN NoPts
                ELSE FirstPts + (p - 1) * FramesToUs(PacketFrames)

Init ==
  /\ dx = "Loop" /\ dxNext = 1 /\ dxEof = FALSE /\ seeks = 0
  /\ sought = [target |-> 0, exact |-> FALSE]
  /\ queue = NewQueue
  /\ seekPending = FALSE /\ paused \in BOOLEAN /\ running = TRUE
  /\ pc = "Loop" /\ packet = NoPacket /\ codec = <<>> /\ serial = 0 /\ chunk = NoChunk
  /\ pcm = NewBuffer
  /\ engine = "Registered" /\ toggles = 0

-----------------------------------------------------------------------------
(* The demux thread.                                                       *)

TryPush(p) ==
  queue' = IF queue.aborted \/ ~HasRoom(queue, QueueCapacity) THEN queue
           ELSE Enqueue(queue, p)

ReadPacket ==
  /\ dx = "Loop" /\ ~dxEof /\ dxNext <= LastPacket
  /\ TryPush(Packet(dxNext, seeks))
  /\ dxNext' = dxNext + 1
  /\ UNCHANGED <<dx, dxEof, seeks, sought, seekPending, paused, running, decodeVars, pcm,
                 engineVars>>

ReadEof ==
  /\ dx = "Loop" /\ ~dxEof /\ dxNext = LastPacket + 1
  /\ queue' = SignalEof(queue)
  /\ dxEof' = TRUE
  /\ UNCHANGED <<dx, dxNext, seeks, sought, seekPending, paused, running, decodeVars, pcm,
                 engineVars>>

(* Where the file is read on from after a seek to target: the video stream *)
(* is sought, the audio packet that comes first may be on either side.     *)
Landings(target) ==
  {p \in 1 .. LastPacket :
     LET off == FirstPts + (p - 1) * FramesToUs(PacketFrames) - target
     IN  off <= LandingSlackUs /\ -off <= LandingSlackUs}

(* Mutant: the outputs are not flushed.                                    *)
SeekInputKeepsQueue(request) ==
  /\ dx = "Loop" /\ seeks < MaxSeeks
  /\ dxNext' \in Landings(request.target) \union {dxNext}
  /\ dxEof' = FALSE
  /\ seeks' = seeks + 1
  /\ dx' = "Notify" /\ sought' = request
  /\ UNCHANGED <<queue, seekPending, paused, running, decodeVars, pcm, engineVars>>

(* take_pending hands over a request: flush_outputs and the input's seek,  *)
(* which may fail and leave the position.                                  *)
SeekInput(request) ==
  /\ dx = "Loop" /\ seeks < MaxSeeks
  /\ queue' = Flush(queue)
  /\ dxNext' \in Landings(request.target) \union {dxNext}
  /\ dxEof' = FALSE
  /\ seeks' = seeks + 1
  /\ dx' = "Notify" /\ sought' = request
  /\ UNCHANGED <<seekPending, paused, running, decodeVars, pcm, engineVars>>

(* The seek callback reaches the thread through the engine's registry,     *)
(* under the engine's mutex, or not at all.                                *)
NotifyUnregistered ==
  /\ dx = "Notify" /\ engine # "Registered"
  /\ dx' = "Loop"
  /\ UNCHANGED <<dxNext, dxEof, seeks, sought, queue, seekPending, paused, running,
                 decodeVars, pcm, engineVars>>

(* notify_seek, first line.                                                *)
NotifyPending ==
  /\ dx = "Notify" /\ engine = "Registered"
  /\ seekPending' = TRUE
  /\ dx' = "Begin"
  /\ UNCHANGED <<dxNext, dxEof, seeks, sought, queue, paused, running, decodeVars, pcm,
                 engineVars>>

(* notify_seek, second line: PcmBuffer::begin_seek.                        *)
NotifyBegin ==
  /\ dx = "Begin"
  /\ pcm' = BeginSeek(pcm, sought.target, sought.exact)
  /\ dx' = "Loop"
  /\ UNCHANGED <<dxNext, dxEof, seeks, sought, queue, seekPending, paused, running, decodeVars,
                 engineVars>>

-----------------------------------------------------------------------------
(* The decode thread.                                                      *)

(* Mutant: a paused thread does not look whether it is to stop.            *)
LoopEndUnlessPaused ==
  /\ pc = "Loop" /\ ~running /\ ~paused
  /\ pc' = "Ended"
  /\ UNCHANGED <<demuxVars, queue, seekPending, paused, running, packet, codec, serial, chunk,
                 pcm, engineVars>>

LoopEnd ==
  /\ pc = "Loop" /\ ~running
  /\ pc' = "Ended"
  /\ UNCHANGED <<demuxVars, queue, seekPending, paused, running, packet, codec, serial, chunk,
                 pcm, engineVars>>

(* flush_after_seek_if_needed: codec, resampler and buffer are emptied.    *)
LoopFlush ==
  /\ pc = "Loop" /\ running /\ ~paused
  /\ seekPending' = FALSE
  /\ codec' = IF seekPending THEN <<>> ELSE codec
  /\ pcm' = IF seekPending THEN FlushBuffer(pcm) ELSE pcm
  /\ pc' = "Pop"
  /\ UNCHANGED <<demuxVars, queue, paused, running, packet, serial, chunk, engineVars>>

PopPacket ==
  /\ pc = "Pop" /\ PopReady(queue)
  /\ queue' = AfterPop(queue, PopStatus(queue))
  /\ IF PopStatus(queue) = "Packet"
       THEN packet' = Head(queue.items) /\ pc' = "Send"
       ELSE packet' = packet /\ pc' = "Loop"
  /\ UNCHANGED <<demuxVars, seekPending, paused, running, codec, serial, chunk, pcm,
                 engineVars>>

(* flush_after_seek_if_needed once more, then the packet in hand goes to   *)
(* the codec, which no other thread touches.                               *)
SendPacket ==
  /\ pc = "Send"
  /\ seekPending' = FALSE
  /\ pcm' = IF seekPending THEN FlushBuffer(pcm) ELSE pcm
  /\ LET left == IF seekPending THEN <<>> ELSE codec IN
       IF packet.p \in Corrupt
         THEN codec' = left /\ pc' = "Loop"
         ELSE codec' = Append(left, packet) /\ pc' = "Receive"
  /\ packet' = NoPacket
  /\ UNCHANGED <<demuxVars, queue, paused, running, serial, chunk, engineVars>>

(* receive_frames ends: nothing more from the codec, or the thread is to   *)
(* stop.                                                                   *)
ReceiveEnd ==
  /\ pc = "Receive" /\ (~running \/ codec = <<>>)
  /\ pc' = "Loop"
  /\ UNCHANGED <<demuxVars, queue, seekPending, paused, running, packet, codec, serial, chunk,
                 pcm, engineVars>>

(* A frame is received and resampled; the serial it is pushed with is the  *)
(* buffer's serial at this moment.                                         *)
ReceiveFrame ==
  /\ pc = "Receive" /\ running /\ codec # <<>>
  /\ chunk' = Chunk(PacketFrames, PacketPts(Head(codec).p), Head(codec).p, Head(codec).e)
  /\ serial' = pcm.serial
  /\ codec' = Tail(codec)
  /\ pc' = "Push"
  /\ UNCHANGED <<demuxVars, queue, seekPending, paused, running, packet, pcm, engineVars>>

(* push up to its wait: dropped when the buffer was aborted, when a seek   *)
(* came since the serial was read, or when alignment leaves nothing.       *)
PushEnter ==
  LET a == AlignAfterSeek(pcm, chunk) IN
  /\ pc = "Push"
  /\ IF pcm.aborted \/ serial # pcm.serial
       THEN pcm' = pcm /\ chunk' = NoChunk /\ pc' = "Receive"
       ELSE /\ pcm' = a.buf
            /\ chunk' = IF a.keep THEN CappedChunk(a.chunk) ELSE NoChunk
            /\ pc' = IF a.keep THEN "Append" ELSE "Receive"
  /\ UNCHANGED <<demuxVars, queue, seekPending, paused, running, packet, codec, serial,
                 engineVars>>

(* Mutant: an aborted buffer is appended to.                               *)
PushAppendAborted ==
  /\ pc = "Append" /\ (pcm.aborted \/ HasRoomFor(pcm, chunk))
  /\ pcm' = AppendChunk(pcm, chunk)
  /\ chunk' = NoChunk /\ pc' = "Receive"
  /\ UNCHANGED <<demuxVars, queue, seekPending, paused, running, packet, codec, serial,
                 engineVars>>

(* push from its wait on: it polls until there is room or an abort, and    *)
(* does not look at the serial again.                                      *)
PushAppend ==
  /\ pc = "Append" /\ (pcm.aborted \/ HasRoomFor(pcm, chunk))
  /\ pcm' = IF pcm.aborted THEN pcm ELSE AppendChunk(pcm, chunk)
  /\ chunk' = NoChunk /\ pc' = "Receive"
  /\ UNCHANGED <<demuxVars, queue, seekPending, paused, running, packet, codec, serial,
                 engineVars>>

-----------------------------------------------------------------------------
(* The device's callback takes samples, to be heard or not: AudioMixer.    *)
Render ==
  /\ pcm.chunks # <<>>
  /\ pcm' = TakeFrames(pcm, DeviceFrames)
  /\ UNCHANGED <<demuxVars, queue, seekPending, paused, running, decodeVars, engineVars>>

(* AudioEngine: set_paused, and remove_track step by step.                 *)
SetPaused ==
  /\ engine = "Registered" /\ toggles < MaxToggles
  /\ paused' = ~paused /\ toggles' = toggles + 1
  /\ UNCHANGED <<demuxVars, queue, seekPending, running, decodeVars, pcm, engine>>

Unregister ==
  /\ engine = "Registered" /\ dx # "Begin"
  /\ engine' = "Stop"
  /\ UNCHANGED <<demuxVars, queue, seekPending, paused, running, decodeVars, pcm, toggles>>

StopRunning ==
  /\ engine = "Stop"
  /\ running' = FALSE
  /\ engine' = "AbortQueue"
  /\ UNCHANGED <<demuxVars, queue, seekPending, paused, decodeVars, pcm, toggles>>

StopAbortQueue ==
  /\ engine = "AbortQueue"
  /\ queue' = Abort(queue)
  /\ engine' = "AbortBuffer"
  /\ UNCHANGED <<demuxVars, seekPending, paused, running, decodeVars, pcm, toggles>>

StopAbortBuffer ==
  /\ engine = "AbortBuffer"
  /\ pcm' = AbortBuffer(pcm)
  /\ engine' = "Join"
  /\ UNCHANGED <<demuxVars, queue, seekPending, paused, running, decodeVars, toggles>>

StopJoin ==
  /\ engine = "Join" /\ pc = "Ended"
  /\ engine' = "Removed"
  /\ UNCHANGED <<demuxVars, queue, seekPending, paused, running, decodeVars, pcm, toggles>>

-----------------------------------------------------------------------------
Demux ==
  \/ ReadPacket \/ ReadEof
  \/ \E request \in Requests : SeekInput(request)
  \/ NotifyUnregistered \/ NotifyPending \/ NotifyBegin

Decode ==
  \/ LoopEnd \/ LoopFlush \/ PopPacket \/ SendPacket
  \/ ReceiveEnd \/ ReceiveFrame \/ PushEnter \/ PushAppend

Engine ==
  \/ SetPaused \/ Unregister
  \/ StopRunning \/ StopAbortQueue \/ StopAbortBuffer \/ StopJoin

Next == Demux \/ Decode \/ Render \/ Engine

Spec == Init /\ [][Next]_vars

(* Both threads and the device's callback keep running, a call that was    *)
(* made goes on; nobody has to seek, pause or remove.                      *)
FairSpec ==
  /\ Spec
  /\ WF_vars(ReadPacket \/ ReadEof)
  /\ WF_vars(NotifyUnregistered \/ NotifyPending \/ NotifyBegin)
  /\ WF_vars(Decode) /\ WF_vars(Render)
  /\ WF_vars(StopRunning \/ StopAbortQueue \/ StopAbortBuffer \/ StopJoin)

-----------------------------------------------------------------------------
(* The chunks decoded from packets of before the last seek.                *)
StaleChunks == {k \in 1 .. Len(pcm.chunks) : pcm.chunks[k].epoch < pcm.serial}
StalePackets == {pcm.chunks[k].packet : k \in StaleChunks} \ {Silence}

(* Once the decode thread has answered the last seek, the buffer holds     *)
(* samples of at most one packet of before it, the one that was in its     *)
(* hands, and they come before everything else: receive_frames pushes with *)
(* the serial of the moment, so the serial check does not catch them.      *)
OneStalePacket ==
  ~seekPending /\ dx = "Loop" =>
    /\ Cardinality(StalePackets) <= 1
    /\ StaleChunks \subseteq 1 .. Cardinality(StaleChunks)

(* Within a seek the chunks follow each other in time, less than a sample  *)
(* frame of rounding apart: nothing is heard twice or out of order,        *)
(* whatever the queue or the alignment dropped.  And when it is a packet   *)
(* of after the seek whose time stamp ends the alignment, no sample of     *)
(* before the target stays in the buffer.                                  *)
FreshExact ==
  /\ \A i, j \in 1 .. Len(pcm.chunks) :
       LET a == pcm.chunks[i]
           b == pcm.chunks[j]
       IN  i < j /\ a.epoch = b.epoch /\ a.pts # NoPts /\ b.pts # NoPts
             => (a.pts + FramesToUs(a.frames) - b.pts) * FramesOf < UsOf
  /\ pcm.alignedBy = pcm.serial =>
       \A k \in 1 .. Len(pcm.chunks) :
         pcm.chunks[k].epoch = pcm.serial /\ pcm.chunks[k].pts # NoPts
           => pcm.chunks[k].pts >= pcm.target

(* The count of queued frames, which is kept beside the chunks, is what    *)
(* they hold and stays within the capacity, although the silence of a seek *)
(* is appended without looking for room.  And an aborted buffer stays      *)
(* empty: the device cannot get a sample of a removed track, not even from *)
(* a push that was waiting for room.                                       *)
HoldsNoMore ==
  /\ pcm.queued = FramesIn(pcm.chunks, Len(pcm.chunks)) /\ pcm.queued <= CapacityFrames
  /\ pcm.aborted => pcm.chunks = <<>>

(* remove_track returns: the decode thread leaves its wait for a packet or *)
(* for room, even paused.                                                  *)
RemoveCompletes == engine = "Stop" ~> engine = "Removed"
=============================================================================

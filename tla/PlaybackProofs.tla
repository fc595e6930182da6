--------------------------- MODULE PlaybackProofs ---------------------------
(***************************************************************************)
(* The transport of Playback, and the two buffers on the way of a frame to *)
(* it: PacketQueue, for any number of producers, consumers and packets and *)
(* any capacity, and TrackBuffer, for any forward depth, any number of     *)
(* frames and the backward depths 0 and 1, of which the renderer uses the  *)
(* second.  The three share no variable.                                   *)
(***************************************************************************)
EXTENDS Playback, PacketQueue, TrackBuffer, FiniteSetTheorems, TLAPS

-----------------------------------------------------------------------------
(* PacketQueue. *)

(* One lemma per operator on the queue value: what it returns is a queue,  *)
(* and how it changes the number of packets.                               *)
LEMMA EnqueueType ==
  ASSUME NEW Pkts, NEW r \in QueueType(Pkts), NEW p \in Pkts
  PROVE  /\ Enqueue(r, p) \in QueueType(Pkts)
         /\ Enqueue(r, p).aborted = r.aborted
         /\ ~Enqueue(r, p).flushed
         /\ Enqueue(r, p).items = Append(r.items, p)
         /\ Len(Enqueue(r, p).items) = Len(r.items) + 1
<1>1. /\ Append(r.items, p) \in Seq(Pkts)
      /\ Len(Append(r.items, p)) = Len(r.items) + 1
  BY DEF QueueType
<1> QED BY <1>1 DEF Enqueue, QueueType

LEMMA AfterPopType ==
  ASSUME NEW Pkts, NEW r \in QueueType(Pkts), NEW status \in PopStatuses,
         status = "Packet" => r.items # <<>>
  PROVE  /\ AfterPop(r, status) \in QueueType(Pkts)
         /\ AfterPop(r, status).aborted = r.aborted
         /\ ~r.flushed => ~AfterPop(r, status).flushed
         /\ status = "Packet" =>
              /\ AfterPop(r, status).items = Tail(r.items)
              /\ Len(AfterPop(r, status).items) = Len(r.items) - 1
         /\ status # "Packet" => AfterPop(r, status).items = r.items
<1>1. CASE status = "Packet"
  <2>1. AfterPop(r, status) = [r EXCEPT !.items = Tail(@)]
    BY <1>1 DEF AfterPop
  <2>2. /\ Tail(r.items) \in Seq(Pkts)
        /\ Len(Tail(r.items)) = Len(r.items) - 1
    BY <1>1 DEF QueueType
  <2> QED BY <1>1, <2>1, <2>2 DEF QueueType
<1>2. CASE status = "Flushed"
  <2>1. AfterPop(r, status) = [r EXCEPT !.flushed = FALSE]
    BY <1>2 DEF AfterPop
  <2> QED BY <1>2, <2>1 DEF QueueType
<1>3. CASE status \notin {"Packet", "Flushed"}
  <2>1. AfterPop(r, status) = r
    BY <1>3 DEF AfterPop
  <2> QED BY <1>3, <2>1
<1> QED BY <1>1, <1>2, <1>3

LEMMA StatusType ==
  ASSUME NEW Pkts, NEW r \in QueueType(Pkts)
  PROVE  /\ PopStatus(r) \in PopStatuses
         /\ TryPopStatus(r) \in PopStatuses
         /\ PopStatus(r) = "Packet" => r.items # <<>>
         /\ PopStatus(r) = "Eof" => r.items = <<>>
         /\ TryPopStatus(r) = "Packet" => r.items # <<>>
         /\ TryPopStatus(r) \in {"Eof", "Empty"} =>
              r.items = <<>> /\ ~r.aborted /\ ~r.flushed
  BY DEF PopStatus, TryPopStatus, PopStatuses, QueueType

LEMMA QueueOpsType ==
  ASSUME NEW Pkts, NEW r \in QueueType(Pkts)
  PROVE  /\ Flush(r) \in QueueType(Pkts) /\ Flush(r).items = <<>>
         /\ Abort(r) \in QueueType(Pkts) /\ Abort(r).items = r.items
         /\ Reset(r) \in QueueType(Pkts) /\ Reset(r).items = <<>>
         /\ SignalEof(r) \in QueueType(Pkts)
         /\ SignalEof(r).items = r.items
         /\ SignalEof(r).aborted = r.aborted
         /\ SignalEof(r).flushed = r.flushed
<1>1. <<>> \in Seq(Pkts)
  OBVIOUS
<1>2. Flush(r) \in QueueType(Pkts) /\ Flush(r).items = <<>>
  BY <1>1 DEF Flush, QueueType
<1>3. Abort(r) \in QueueType(Pkts) /\ Abort(r).items = r.items
  BY DEF Abort, QueueType
<1>4. Reset(r) \in QueueType(Pkts) /\ Reset(r).items = <<>>
  BY <1>1 DEF Reset, NewQueue, QueueType
<1>5. /\ SignalEof(r) \in QueueType(Pkts)
      /\ SignalEof(r).items = r.items
      /\ SignalEof(r).aborted = r.aborted
      /\ SignalEof(r).flushed = r.flushed
  BY DEF SignalEof, QueueType
<1> QED BY <1>2, <1>3, <1>4, <1>5
-----------------------------------------------------------------------------
(* A thread is in at most one of the roles. *)
LEMMA Roles ==
  /\ \A p \in Producers : p \in Threads /\ p \notin Consumers
  /\ \A c \in Consumers : c \in Threads /\ c \notin Producers
  BY ConstantsAssumption DEF Threads

LEMMA FinishPopType ==
  ASSUME TypeOK, NEW c \in Consumers, NEW status \in PopStatuses,
         status = "Packet" => q.items # <<>>,
         c \notin waitNotEmpty,
         FinishPop(c, status), UNCHANGED <<arg, waitNotEmpty, clearing>>
  PROVE  TypeOK'
<1>1. q' \in QueueType(Packets)
  BY AfterPopType DEF FinishPop, TypeOK
<1>2. ret' \in [Consumers -> Results]
  <2>1. (IF status = "Packet" THEN <<Head(q.items)>> ELSE <<>>) \in Seq(Packets)
    <3>1. CASE status = "Packet"
      <4>1. Head(q.items) \in Packets
        BY <3>1 DEF TypeOK, QueueType
      <4> QED BY <3>1, <4>1
    <3>2. CASE status # "Packet"
      BY <3>2
    <3> QED BY <3>1, <3>2
  <2> QED BY <2>1 DEF FinishPop, TypeOK, Results
<1>3. waitNotFull' \subseteq waitNotFull
  BY DEF FinishPop, NotifyOne
<1>4. pc' = [pc EXCEPT ![c] = "idle"] /\ c \in Threads /\ c \notin Producers
  BY Roles DEF FinishPop, Return
<1> QED
  BY <1>1, <1>2, <1>3, <1>4 DEF TypeOK, MutexHeldAt

(* The state of the program keeps its types: in particular a producer has  *)
(* a packet in hand exactly while it is inside push, and only threads      *)
(* inside a blocking call sleep on a condition variable.                   *)
THEOREM TypeCorrect == QueueSpec => []TypeOK
<1>1. QueueInit => TypeOK
  <2> SUFFICES ASSUME QueueInit PROVE TypeOK
    OBVIOUS
  <2>1. <<>> \in Seq(Packets) /\ Len(<<>>) = 0
    OBVIOUS
  <2>2. q \in QueueType(Packets)
    BY <2>1 DEF QueueInit, NewQueue, QueueType
  <2>3. ret \in [Consumers -> Results]
    BY <2>1 DEF QueueInit, Results, PopStatuses
  <2>4. /\ arg \in [Producers -> Seq(Packets)]
        /\ \A p \in Producers : pc[p] = "idle" /\ Len(arg[p]) = 0
        /\ \A c \in Consumers : pc[c] = "idle"
    BY <2>1, Roles DEF QueueInit
  <2> QED BY <2>2, <2>3, <2>4 DEF QueueInit, TypeOK
<1>2. TypeOK /\ [QueueNext]_queueVars => TypeOK'
  <2> SUFFICES ASSUME TypeOK, [QueueNext]_queueVars PROVE TypeOK'
    OBVIOUS
  <2> USE Roles
  <2>1. ASSUME NEW p \in Producers, PushCall(p) PROVE TypeOK'
    <3>1. PICK pkt \in Packets : arg' = [arg EXCEPT ![p] = <<pkt>>]
      BY <2>1 DEF PushCall
    <3>2. <<pkt>> \in Seq(Packets) /\ Len(<<pkt>>) = 1
      OBVIOUS
    <3>3. /\ arg' \in [Producers -> Seq(Packets)]
          /\ Len(arg'[p]) = 1
          /\ \A r \in Producers \ {p} : arg'[r] = arg[r]
      BY <3>1, <3>2 DEF TypeOK
    <3>4. /\ pc' = [pc EXCEPT ![p] = "push"] /\ pc[p] = "idle"
          /\ UNCHANGED <<q, ret, waitNotFull, waitNotEmpty, clearing>>
      BY <2>1 DEF PushCall
    <3>5. /\ pc' \in [Threads -> {"idle", "push", "pop", "eof_notify"} \cup MutexHeldAt]
          /\ pc'[p] = "push"
          /\ \A t \in Threads \ {p} : pc'[t] = pc[t]
      BY <3>4 DEF TypeOK
    <3>6. /\ \A r \in Producers : pc'[r] \in {"idle", "push", "eof_notify"}
          /\ \A c \in Consumers : pc'[c] \in {"idle", "pop"} \cup MutexHeldAt
          /\ \A r \in Producers : Len(arg'[r]) = (IF pc'[r] = "push" THEN 1 ELSE 0)
      <4>1. \A r \in Producers : pc'[r] \in {"idle", "push", "eof_notify"}
        BY <3>5 DEF TypeOK
      <4>2. \A c \in Consumers : pc'[c] \in {"idle", "pop"} \cup MutexHeldAt
        BY <3>5 DEF TypeOK
      <4>3. \A r \in Producers : Len(arg'[r]) = (IF pc'[r] = "push" THEN 1 ELSE 0)
        BY <3>3, <3>5 DEF TypeOK
      <4> QED BY <4>1, <4>2, <4>3
    <3>7. /\ waitNotFull' \subseteq {r \in Producers : pc'[r] = "push"}
          /\ waitNotEmpty' \subseteq {c \in Consumers : pc'[c] = "pop"}
      BY <3>4, <3>5 DEF TypeOK
    <3> QED BY <3>3, <3>4, <3>5, <3>6, <3>7 DEF TypeOK
  <2>2. ASSUME NEW p \in Producers, TryPush(p) PROVE TypeOK'
    <3>1. q' \in QueueType(Packets)
      BY <2>2, EnqueueType DEF TryPush, TypeOK
    <3>2. waitNotEmpty' \subseteq waitNotEmpty
      BY <2>2 DEF TryPush, NotifyOne
    <3> QED BY <2>2, <3>1, <3>2 DEF TryPush, TypeOK
  <2>3. ASSUME NEW p \in Producers, SignalEofStore(p) PROVE TypeOK'
    <3>1. q' \in QueueType(Packets)
      BY <2>3, QueueOpsType DEF SignalEofStore, TypeOK
    <3> QED BY <2>3, <3>1 DEF SignalEofStore, TypeOK, MutexHeldAt
  <2>4. ASSUME NEW p \in Producers, PushWait(p) PROVE TypeOK'
    BY <2>4 DEF PushWait, TypeOK
  <2>5. ASSUME NEW p \in Producers, PushReturn(p) PROVE TypeOK'
    <3>1. arg[p][1] \in Packets
      BY <2>5 DEF PushReturn, TypeOK
    <3>2. q' \in QueueType(Packets) /\ waitNotEmpty' \subseteq waitNotEmpty
      BY <2>5, <3>1, EnqueueType DEF PushReturn, NotifyOne, TypeOK
    <3>3. p \notin waitNotFull /\ p \notin waitNotEmpty
      BY <2>5 DEF PushReturn, Awake
    <3>4. /\ pc' \in [Threads -> {"idle", "push", "pop", "eof_notify"}
                               \cup MutexHeldAt]
          /\ pc'[p] = "idle"
          /\ \A t \in Threads \ {p} : pc'[t] = pc[t]
      BY <2>5 DEF PushReturn, Return, TypeOK
    <3>5. <<>> \in Seq(Packets) /\ Len(<<>>) = 0
      OBVIOUS
    <3>6. /\ arg' \in [Producers -> Seq(Packets)]
          /\ Len(arg'[p]) = 0
          /\ \A r \in Producers \ {p} : arg'[r] = arg[r]
      BY <2>5, <3>5 DEF PushReturn, TypeOK
    <3>7. UNCHANGED <<ret, waitNotFull, clearing>>
      BY <2>5 DEF PushReturn
    <3>8. /\ \A r \in Producers : pc'[r] \in {"idle", "push", "eof_notify"}
          /\ \A c \in Consumers : pc'[c] \in {"idle", "pop"} \cup MutexHeldAt
          /\ \A r \in Producers : Len(arg'[r]) = (IF pc'[r] = "push" THEN 1 ELSE 0)
      <4>1. \A r \in Producers : pc'[r] \in {"idle", "push", "eof_notify"}
        BY <3>4 DEF TypeOK
      <4>2. \A c \in Consumers : pc'[c] \in {"idle", "pop"} \cup MutexHeldAt
        BY <3>4 DEF TypeOK
      <4>3. \A r \in Producers : Len(arg'[r]) = (IF pc'[r] = "push" THEN 1 ELSE 0)
        BY <3>4, <3>6 DEF TypeOK
      <4> QED BY <4>1, <4>2, <4>3
    <3>9. /\ waitNotFull' \subseteq {r \in Producers : pc'[r] = "push"}
          /\ waitNotEmpty' \subseteq {c \in Consumers : pc'[c] = "pop"}
      BY <3>2, <3>3, <3>4, <3>7 DEF TypeOK
    <3> QED BY <3>2, <3>4, <3>6, <3>7, <3>8, <3>9 DEF TypeOK
  <2>6. ASSUME NEW p \in Producers, SignalEofNotify(p) PROVE TypeOK'
    BY <2>6 DEF SignalEofNotify, NotifyAll, Return, TypeOK, MutexHeldAt
  <2>7. ASSUME NEW c \in Consumers, PopCall(c) PROVE TypeOK'
    BY <2>7 DEF PopCall, TypeOK, MutexHeldAt
  <2>8. ASSUME NEW c \in Consumers, TryPop(c) PROVE TypeOK'
    <3>1. c \notin waitNotEmpty
      BY <2>8 DEF TryPop, TypeOK
    <3> QED BY <2>8, <3>1, FinishPopType, StatusType DEF TryPop, TypeOK
  <2>9. ASSUME NEW c \in Consumers, TryPopEmpty(c) PROVE TypeOK'
    BY <2>9 DEF TryPopEmpty, TypeOK, MutexHeldAt
  <2>10. ASSUME NEW c \in Consumers, PopReturn(c) PROVE TypeOK'
    BY <2>10, FinishPopType, StatusType DEF PopReturn, TypeOK, Awake
  <2>11. ASSUME NEW c \in Consumers, PopUnready(c) PROVE TypeOK'
    BY <2>11 DEF PopUnready, TypeOK, MutexHeldAt, Awake
  <2>12. ASSUME NEW c \in Consumers, PopBlock(c) PROVE TypeOK'
    BY <2>12 DEF PopBlock, TypeOK, MutexHeldAt
  <2>13. ASSUME NEW c \in Consumers, TryPopReadEof(c) PROVE TypeOK'
    <3>1. c \notin waitNotEmpty
      BY <2>13 DEF TryPopReadEof, TypeOK
    <3>2. PICK status \in {"Eof", "Empty"} : FinishPop(c, status)
      BY <2>13 DEF TryPopReadEof
    <3>3. status \in PopStatuses /\ status # "Packet"
      BY <3>2 DEF PopStatuses
    <3> QED BY <2>13, <3>1, <3>2, <3>3, FinishPopType DEF TryPopReadEof
  <2>14. ASSUME FlushQueue \/ AbortQueue \/ ResetQueue PROVE TypeOK'
    <3>1. q' \in QueueType(Packets)
      BY <2>14, QueueOpsType DEF FlushQueue, AbortQueue, ResetQueue, TypeOK
    <3> QED
      BY <2>14, <3>1
      DEF FlushQueue, AbortQueue, ResetQueue, WakeEveryone, NotifyAll, TypeOK
  <2>15. ASSUME ClearEofStore \/ ClearEofFlushed PROVE TypeOK'
    <3>1. q' \in QueueType(Packets)
      BY <2>15 DEF ClearEofStore, ClearEofFlushed, TypeOK, QueueType
    <3> QED BY <2>15, <3>1 DEF ClearEofStore, ClearEofFlushed, TypeOK
  <2>16. ASSUME NEW t \in Threads, SpuriousWake(t) PROVE TypeOK'
    BY <2>16 DEF SpuriousWake, TypeOK
  <2>17. CASE UNCHANGED queueVars
    BY <2>17 DEF queueVars, TypeOK
  <2> QED
    BY <2>1, <2>2, <2>3, <2>4, <2>5, <2>6, <2>7, <2>8, <2>9, <2>10, <2>11,
       <2>12, <2>13, <2>14, <2>15, <2>16, <2>17
    DEF QueueNext, ProducerStep, ConsumerStep
<1> QED BY <1>1, <1>2, PTL DEF QueueSpec
-----------------------------------------------------------------------------
(* The number of packets stays within the capacity. *)
THEOREM CapacityCorrect == QueueSpec => []CapacityRespected
<1>1. QueueInit => CapacityRespected
  <2>1. Len(<<>>) = 0 /\ 0 <= Capacity
    BY ConstantsAssumption
  <2> QED BY <2>1 DEF QueueInit, CapacityRespected, NewQueue
<1>2. TypeOK /\ CapacityRespected /\ [QueueNext]_queueVars => CapacityRespected'
  <2> SUFFICES ASSUME TypeOK, CapacityRespected, [QueueNext]_queueVars
               PROVE  CapacityRespected'
    OBVIOUS
  <2> USE ConstantsAssumption
  <2>0. q \in QueueType(Packets) /\ Len(q.items) \in Nat
    BY DEF TypeOK, QueueType
  <2>1. ASSUME NEW p \in Producers, TryPush(p) PROVE CapacityRespected'
    <3>1. PICK pkt \in Packets : q' = Enqueue(q, pkt)
      BY <2>1 DEF TryPush
    <3> QED
      BY <2>0, <2>1, <3>1, EnqueueType DEF TryPush, HasRoom, CapacityRespected
  <2>2. ASSUME NEW p \in Producers, PushReturn(p) PROVE CapacityRespected'
    <3>1. CASE q' = q
      BY <3>1 DEF CapacityRespected
    <3>2. CASE q' # q
      <4>1. q' = Enqueue(q, arg[p][1]) /\ HasRoom(q, Capacity)
        BY <2>2, <3>2 DEF PushReturn, PushReady
      <4>2. arg[p][1] \in Packets
        BY <2>2 DEF PushReturn, TypeOK
      <4> QED
        BY <2>0, <4>1, <4>2, EnqueueType DEF HasRoom, CapacityRespected
    <3> QED BY <3>1, <3>2
  <2>3. ASSUME NEW c \in Consumers, TryPop(c) \/ PopReturn(c) \/ TryPopReadEof(c)
        PROVE  CapacityRespected'
    <3>1. PICK status \in PopStatuses :
            /\ q' = AfterPop(q, status)
            /\ status = "Packet" => q.items # <<>>
      BY <2>0, <2>3, StatusType
      DEF TryPop, PopReturn, TryPopReadEof, FinishPop, PopStatuses
    <3>2. Len(q'.items) <= Len(q.items)
      BY <2>0, <3>1, AfterPopType
    <3> QED BY <2>0, <3>1, <3>2, AfterPopType DEF CapacityRespected, QueueType
  <2>4. ASSUME FlushQueue \/ ResetQueue PROVE CapacityRespected'
    <3>1. q'.items = <<>>
      BY <2>0, <2>4, QueueOpsType DEF FlushQueue, ResetQueue
    <3> QED BY <3>1 DEF CapacityRespected
  <2>5. ASSUME q'.items = q.items PROVE CapacityRespected'
    BY <2>5 DEF CapacityRespected
  <2>6. ASSUME \/ UNCHANGED q
               \/ \E p \in Producers : SignalEofStore(p)
               \/ AbortQueue \/ ClearEofStore \/ ClearEofFlushed
        PROVE  q'.items = q.items
    BY <2>0, <2>6, QueueOpsType
    DEF SignalEofStore, AbortQueue, ClearEofStore, ClearEofFlushed, QueueType
  <2> QED
    BY <2>1, <2>2, <2>3, <2>4, <2>5, <2>6
    DEF QueueNext, ProducerStep, ConsumerStep, queueVars, PushCall, PushWait,
        SignalEofNotify, PopCall, PopUnready, PopBlock, TryPopEmpty,
        SpuriousWake
<1> QED BY <1>1, <1>2, TypeCorrect, PTL DEF QueueSpec
-----------------------------------------------------------------------------
(* The only steps another thread can take on the queue while a consumer is *)
(* between its look at queue_ and its next move are those on eof_.         *)
LEMMA UnderMutexOnlyEofChanges ==
  ASSUME TypeOK, [QueueNext]_queueVars, ~MutexFree, SeenUnderMutex
  PROVE  /\ q'.items = q.items
         /\ q'.aborted = q.aborted
         /\ q'.flushed = q.flushed
<1>0. q \in QueueType(Packets)
  BY DEF TypeOK
<1>1. ASSUME NEW c \in Consumers, TryPopReadEof(c) PROVE q' = q
  BY <1>1 DEF TryPopReadEof, FinishPop, AfterPop
<1>2. ASSUME ClearEofStore \/ \E p \in Producers : SignalEofStore(p)
      PROVE  /\ q'.items = q.items
             /\ q'.aborted = q.aborted
             /\ q'.flushed = q.flushed
  BY <1>0, <1>2 DEF ClearEofStore, SignalEofStore, SignalEof, QueueType
<1> QED
  BY <1>1, <1>2
  DEF QueueNext, ProducerStep, ConsumerStep, queueVars, PushCall, PushWait, PushReturn,
      TryPush, SignalEofNotify, PopCall, PopReturn, PopUnready, PopBlock, TryPop,
      TryPopEmpty, FlushQueue, AbortQueue, ResetQueue, ClearEofFlushed,
      SpuriousWake

(* What a consumer saw under the mutex stays true while it holds it. *)
THEOREM SeenCorrect == QueueSpec => []SeenUnderMutex
<1>1. QueueInit => SeenUnderMutex
  BY Roles DEF QueueInit, SeenUnderMutex, MutexHeldAt
<1>2. TypeOK /\ SeenUnderMutex /\ [QueueNext]_queueVars => SeenUnderMutex'
  <2> SUFFICES ASSUME TypeOK, SeenUnderMutex, [QueueNext]_queueVars,
                      NEW c \in Consumers, pc'[c] \in MutexHeldAt
               PROVE  q'.items = <<>> /\ ~q'.aborted /\ ~q'.flushed
    BY DEF SeenUnderMutex
  <2>1. CASE pc[c] \in MutexHeldAt
    <3>1. ~MutexFree
      BY <2>1, Roles DEF MutexFree
    <3> QED BY <2>1, <3>1, UnderMutexOnlyEofChanges DEF SeenUnderMutex
  <2>2. CASE pc[c] \notin MutexHeldAt
    <3>1. PopUnready(c) \/ TryPopEmpty(c)
      BY <2>2, Roles
      DEF QueueNext, ProducerStep, ConsumerStep, queueVars, PushCall, PushWait, PushReturn,
          TryPush, SignalEofStore, SignalEofNotify, PopCall, PopReturn, PopUnready,
          PopBlock, TryPop, TryPopEmpty, TryPopReadEof, FinishPop, FlushQueue,
          AbortQueue, ResetQueue, ClearEofStore, ClearEofFlushed, SpuriousWake,
          Return, TypeOK, MutexHeldAt
    <3>2. q' = q
      BY <3>1 DEF PopUnready, TryPopEmpty
    <3>3. q.items = <<>> /\ ~q.aborted /\ ~q.flushed
      BY <3>1, StatusType DEF PopUnready, TryPopEmpty, PopReady, TypeOK
    <3> QED BY <3>2, <3>3
  <2> QED BY <2>1, <2>2
<1> QED BY <1>1, <1>2, TypeCorrect, PTL DEF QueueSpec

(* A pop or try_pop that reports Eof leaves nothing behind, although eof_  *)
(* is written without the mutex.                                           *)
THEOREM EofCorrect == QueueSpec => EofMeansDrained
<1>1. ASSUME TypeOK, SeenUnderMutex, [QueueNext]_queueVars, NEW c \in Consumers,
             pc[c] # "idle", pc'[c] = "idle", ret'[c].status = "Eof"
      PROVE  q.items = <<>>
  <2>1. PopReturn(c) \/ TryPopReadEof(c)
    BY <1>1, Roles
    DEF QueueNext, ProducerStep, ConsumerStep, queueVars, PushCall, PushWait, PushReturn,
        TryPush, SignalEofStore, SignalEofNotify, PopCall, PopReturn, PopUnready,
        PopBlock, TryPop, TryPopEmpty, TryPopReadEof, FinishPop, FlushQueue,
        AbortQueue, ResetQueue, ClearEofStore, ClearEofFlushed, SpuriousWake,
        Return, TypeOK
  <2>2. CASE TryPopReadEof(c)
    BY <1>1, <2>2 DEF TryPopReadEof, SeenUnderMutex, MutexHeldAt
  <2>3. CASE PopReturn(c)
    <3>1. ret'[c].status = PopStatus(q)
      BY <1>1, <2>3 DEF PopReturn, FinishPop, TypeOK
    <3> QED BY <1>1, <3>1, StatusType DEF TypeOK
  <2> QED BY <2>1, <2>2, <2>3
<1>2. TypeOK /\ SeenUnderMutex /\ [QueueNext]_queueVars
        => [\A c \in Consumers :
              pc[c] # "idle" /\ pc'[c] = "idle" /\ ret'[c].status = "Eof"
                => q.items = <<>>]_queueVars
  BY <1>1
<1> QED BY <1>2, TypeCorrect, SeenCorrect, PTL DEF QueueSpec, EofMeansDrained
-----------------------------------------------------------------------------
(* The counting that notify_one has to get right. *)
LEMMA CountGrows ==
  ASSUME NEW S, NEW T, IsFiniteSet(T), S \subseteq T
  PROVE  /\ Cardinality(S) \in Nat /\ Cardinality(T) \in Nat
         /\ Cardinality(S) <= Cardinality(T)
  BY FS_Subset, FS_CardinalityType

LEMMA CountDrops ==
  ASSUME NEW S, NEW T, NEW x, IsFiniteSet(S), IsFiniteSet(T), S \ {x} \subseteq T
  PROVE  /\ Cardinality(S) \in Nat /\ Cardinality(T) \in Nat
         /\ Cardinality(S) - 1 <= Cardinality(T)
<1>1. Cardinality(S) \in Nat
  BY FS_CardinalityType
<1>2. Cardinality(S \ {x}) =
        IF x \in S THEN Cardinality(S) - 1 ELSE Cardinality(S)
  BY FS_RemoveElement
<1>3. Cardinality(T) \in Nat /\ Cardinality(S \ {x}) <= Cardinality(T)
  BY CountGrows
<1> QED BY <1>1, <1>2, <1>3

LEMMA CountRises ==
  ASSUME NEW S, NEW T, NEW x, IsFiniteSet(T), S \cup {x} \subseteq T, x \notin S
  PROVE  /\ Cardinality(S) \in Nat /\ Cardinality(T) \in Nat
         /\ Cardinality(S) + 1 <= Cardinality(T)
<1>1. IsFiniteSet(S)
  BY FS_Subset
<1>2. Cardinality(S \cup {x}) = Cardinality(S) + 1
  BY <1>1, FS_AddElement
<1> QED BY <1>1, <1>2, CountGrows, FS_CardinalityType

LEMMA AwakeFinite ==
  /\ IsFiniteSet(AwakePushers) /\ IsFiniteSet(AwakePushers')
  /\ IsFiniteSet(AwakePoppers) /\ IsFiniteSet(AwakePoppers')
<1>1. /\ AwakePushers \in SUBSET Producers /\ AwakePushers' \in SUBSET Producers
      /\ AwakePoppers \in SUBSET Consumers /\ AwakePoppers' \in SUBSET Consumers
  BY DEF AwakePushers, AwakePoppers
<1>2. IsFiniteSet(Producers) /\ IsFiniteSet(Consumers)
  BY ConstantsAssumption
<1> QED BY ONLY <1>1, <1>2, FS_Subset

LEMMA LengthType ==
  ASSUME TypeOK PROVE Len(q.items) \in Nat
  BY DEF TypeOK, QueueType

(* A step that wakes or admits producers and takes no slot. *)
LEMMA PushersCalm ==
  ASSUME TypeOK, TypeOK', NoStrandedPusher, waitNotFull' \subseteq waitNotFull,
         q'.aborted = q.aborted, Len(q'.items) >= Len(q.items),
         AwakePushers \subseteq AwakePushers'
  PROVE  NoStrandedPusher'
<1> SUFFICES ASSUME waitNotFull' # {}
             PROVE  ~q'.aborted /\ Capacity - Len(q'.items) <= Cardinality(AwakePushers')
  BY DEF NoStrandedPusher
<1>1. ~q.aborted /\ Capacity - Len(q.items) <= Cardinality(AwakePushers)
  BY DEF NoStrandedPusher
<1>2. /\ Cardinality(AwakePushers) \in Nat /\ Cardinality(AwakePushers') \in Nat
      /\ Cardinality(AwakePushers) <= Cardinality(AwakePushers')
  BY AwakeFinite, CountGrows
<1>3. Len(q.items) \in Nat /\ Len(q'.items) \in Nat /\ Capacity \in Nat
  BY ConstantsAssumption DEF TypeOK, QueueType
<1> QED BY <1>1, <1>2, <1>3

(* One notify_one for each packet that leaves the queue. *)
LEMMA PushersAfterPop ==
  ASSUME TypeOK, TypeOK', NoStrandedPusher, NEW c \in Consumers,
         NEW status \in PopStatuses, status = "Packet" => q.items # <<>>,
         FinishPop(c, status)
  PROVE  NoStrandedPusher'
<1>0. /\ q'.aborted = q.aborted
      /\ \A p \in Producers : pc'[p] = pc[p]
  BY AfterPopType, Roles DEF FinishPop, Return, TypeOK
<1>1. CASE status # "Packet" \/ waitNotFull = {}
  <2>1. CASE status # "Packet"
    <3>1. q'.items = q.items /\ waitNotFull' = waitNotFull
      BY <2>1, AfterPopType DEF FinishPop, TypeOK
    <3>2. AwakePushers' = AwakePushers
      BY <1>0, <3>1 DEF AwakePushers
    <3>3. Len(q'.items) >= Len(q.items)
      BY <3>1, LengthType
    <3> QED BY <1>0, <3>1, <3>2, <3>3, PushersCalm
  <2>2. CASE waitNotFull = {}
    <3>1. waitNotFull' = {}
      BY <2>2 DEF FinishPop, NotifyOne
    <3> QED BY <3>1 DEF NoStrandedPusher
  <2> QED BY <1>1, <2>1, <2>2
<1>2. CASE status = "Packet" /\ waitNotFull # {}
  <2>1. PICK p \in waitNotFull : waitNotFull' = waitNotFull \ {p}
    BY <1>2 DEF FinishPop, NotifyOne
  <2>2. Len(q'.items) = Len(q.items) - 1
    BY <1>2, AfterPopType DEF FinishPop, TypeOK
  <2>3. AwakePushers \cup {p} \subseteq AwakePushers' /\ p \notin AwakePushers
    BY <1>0, <2>1 DEF AwakePushers, TypeOK
  <2>4. /\ Cardinality(AwakePushers) \in Nat /\ Cardinality(AwakePushers') \in Nat
        /\ Cardinality(AwakePushers) + 1 <= Cardinality(AwakePushers')
    BY <2>3, AwakeFinite, CountRises
  <2>5. ~q.aborted /\ Capacity - Len(q.items) <= Cardinality(AwakePushers)
    BY <1>2 DEF NoStrandedPusher
  <2>6. Len(q.items) \in Nat /\ Capacity \in Nat
    BY LengthType, ConstantsAssumption
  <2>7. Capacity - Len(q'.items) <= Cardinality(AwakePushers')
    <3> DEFINE n == Len(q'.items)
               a == Cardinality(AwakePushers)
               b == Cardinality(AwakePushers')
               m == Len(q.items)
    <3>1. n = m - 1 /\ a \in Nat /\ b \in Nat /\ a + 1 <= b
          /\ Capacity - m <= a /\ m \in Nat /\ Capacity \in Nat
      BY <2>2, <2>4, <2>5, <2>6
    <3> HIDE DEF n, a, b, m
    <3>2. Capacity - n <= b
      BY ONLY <3>1
    <3> QED BY <3>2 DEF n, b
  <2> QED BY <1>0, <2>5, <2>7 DEF NoStrandedPusher
<1> QED BY <1>1, <1>2

(* A producer that inserts uses up one slot and stops being one of those   *)
(* awake.                                                                  *)
LEMMA PushersAfterPush ==
  ASSUME TypeOK, TypeOK', NoStrandedPusher, NEW p \in Producers, PushReturn(p)
  PROVE  NoStrandedPusher'
<1> SUFFICES ASSUME waitNotFull' # {}
             PROVE  ~q'.aborted /\ Capacity - Len(q'.items) <= Cardinality(AwakePushers')
  BY DEF NoStrandedPusher
<1>1. waitNotFull' = waitNotFull
  BY DEF PushReturn
<1>2. ~q.aborted /\ Capacity - Len(q.items) <= Cardinality(AwakePushers)
  BY <1>1 DEF NoStrandedPusher
<1>3. arg[p][1] \in Packets /\ q' = Enqueue(q, arg[p][1])
  BY <1>2 DEF PushReturn, TypeOK
<1>4. Len(q'.items) = Len(q.items) + 1 /\ q'.aborted = q.aborted
  BY <1>3, EnqueueType DEF TypeOK
<1>5. AwakePushers \ {p} \subseteq AwakePushers'
  BY <1>1 DEF AwakePushers, PushReturn, Return, TypeOK, Threads
<1> DEFINE n == Len(q'.items)
           m == Len(q.items)
           a == Cardinality(AwakePushers)
           b == Cardinality(AwakePushers')
<1>6. a \in Nat /\ b \in Nat /\ a - 1 <= b
  BY <1>5, AwakeFinite, CountDrops
<1>7. n = m + 1 /\ Capacity - m <= a /\ m \in Nat /\ Capacity \in Nat
  BY <1>2, <1>4, LengthType, ConstantsAssumption
<1> HIDE DEF n, m, a, b
<1>8. Capacity - n <= b
  BY ONLY <1>6, <1>7
<1> QED BY <1>2, <1>4, <1>8 DEF n, b

(* Nobody sleeps in push beside a slot no awake producer will take, or     *)
(* through an abort.                                                       *)
THEOREM PushersCorrect == QueueSpec => []NoStrandedPusher
<1>1. QueueInit => NoStrandedPusher
  BY DEF QueueInit, NoStrandedPusher
<1>2. TypeOK /\ TypeOK' /\ NoStrandedPusher /\ [QueueNext]_queueVars => NoStrandedPusher'
  <2> SUFFICES ASSUME TypeOK, TypeOK', NoStrandedPusher, [QueueNext]_queueVars
               PROVE  NoStrandedPusher'
    OBVIOUS
  <2> USE Roles
  <2>0. q \in QueueType(Packets) /\ Len(q.items) \in Nat
    BY LengthType DEF TypeOK
  <2>1. ASSUME NEW p \in Producers, PushReturn(p) PROVE NoStrandedPusher'
    BY <2>1, PushersAfterPush
  <2>2. ASSUME NEW c \in Consumers, TryPop(c) \/ PopReturn(c) \/ TryPopReadEof(c)
        PROVE  NoStrandedPusher'
    <3>1. PICK status \in PopStatuses :
            /\ FinishPop(c, status)
            /\ status = "Packet" => q.items # <<>>
      BY <2>0, <2>2, StatusType DEF TryPop, PopReturn, TryPopReadEof, PopStatuses
    <3> QED BY <3>1, PushersAfterPop
  <2>3. ASSUME NEW p \in Producers, PushWait(p) PROVE NoStrandedPusher'
    <3>1. ~q.aborted /\ q' = q /\ Len(q.items) >= Capacity
      BY <2>0, <2>3, ConstantsAssumption DEF PushWait, PushReady, HasRoom
    <3>2. Cardinality(AwakePushers') \in Nat
      BY AwakeFinite, FS_CardinalityType
    <3>3. Capacity - Len(q'.items) <= Cardinality(AwakePushers')
      BY <2>0, <3>1, <3>2, ConstantsAssumption
    <3> QED BY <3>1, <3>3 DEF NoStrandedPusher
  <2>4. ASSUME FlushQueue \/ AbortQueue \/ ResetQueue PROVE NoStrandedPusher'
    BY <2>4
    DEF FlushQueue, AbortQueue, ResetQueue, WakeEveryone, NotifyAll, NoStrandedPusher
  <2>5. ASSUME NEW p \in Producers, TryPush(p) PROVE NoStrandedPusher'
    <3>1. PICK pkt \in Packets : q' = Enqueue(q, pkt)
      BY <2>5 DEF TryPush
    <3>2. q'.aborted = q.aborted /\ Len(q'.items) >= Len(q.items)
      BY <2>0, <3>1, EnqueueType
    <3>3. AwakePushers' = AwakePushers /\ waitNotFull' = waitNotFull
      BY <2>5 DEF TryPush, AwakePushers
    <3> QED BY <3>2, <3>3, PushersCalm
  <2>6. ASSUME q'.aborted = q.aborted, q'.items = q.items,
               waitNotFull' \subseteq waitNotFull, AwakePushers \subseteq AwakePushers'
        PROVE  NoStrandedPusher'
    BY <2>0, <2>6, PushersCalm
  <2>7. ASSUME NEW p \in Producers,
               PushCall(p) \/ SignalEofStore(p) \/ SignalEofNotify(p)
        PROVE  NoStrandedPusher'
    <3>1. q'.aborted = q.aborted /\ q'.items = q.items /\ waitNotFull' = waitNotFull
      BY <2>0, <2>7, QueueOpsType DEF PushCall, SignalEofStore, SignalEofNotify
    <3>2. AwakePushers \subseteq AwakePushers'
      BY <2>7, <3>1
      DEF PushCall, SignalEofStore, SignalEofNotify, AwakePushers, Return, TypeOK
    <3> QED BY <2>6, <3>1, <3>2
  <2>8. ASSUME NEW c \in Consumers,
               PopCall(c) \/ TryPopEmpty(c) \/ PopUnready(c) \/ PopBlock(c)
        PROVE  NoStrandedPusher'
    <3>1. q' = q /\ waitNotFull' = waitNotFull
      BY <2>8 DEF PopCall, TryPopEmpty, PopUnready, PopBlock
    <3>2. AwakePushers \subseteq AwakePushers'
      BY <2>8, <3>1
      DEF PopCall, TryPopEmpty, PopUnready, PopBlock, AwakePushers, TypeOK
    <3> QED BY <2>6, <3>1, <3>2
  <2>9. ASSUME ClearEofStore \/ ClearEofFlushed PROVE NoStrandedPusher'
    <3>1. q'.aborted = q.aborted /\ q'.items = q.items
      BY <2>0, <2>9 DEF ClearEofStore, ClearEofFlushed, QueueType
    <3>2. waitNotFull' = waitNotFull /\ AwakePushers' = AwakePushers
      BY <2>9 DEF ClearEofStore, ClearEofFlushed, AwakePushers
    <3> QED BY <2>6, <3>1, <3>2
  <2>10. ASSUME NEW t \in Threads, SpuriousWake(t) PROVE NoStrandedPusher'
    <3>1. q' = q /\ waitNotFull' \subseteq waitNotFull
      BY <2>10 DEF SpuriousWake
    <3>2. AwakePushers \subseteq AwakePushers'
      BY <2>10, <3>1 DEF SpuriousWake, AwakePushers
    <3> QED BY <2>6, <3>1, <3>2
  <2>11. CASE UNCHANGED queueVars
    BY <2>11 DEF queueVars, NoStrandedPusher, AwakePushers
  <2> QED
    BY <2>1, <2>2, <2>3, <2>4, <2>5, <2>7, <2>8, <2>9, <2>10, <2>11
    DEF QueueNext, ProducerStep, ConsumerStep
<1> QED BY <1>1, <1>2, TypeCorrect, PTL DEF QueueSpec
-----------------------------------------------------------------------------
(* The same count on the consumers' side. *)
LEMMA PoppersCalm ==
  ASSUME TypeOK, TypeOK', NoStrandedPopper, waitNotEmpty' \subseteq waitNotEmpty,
         q'.aborted = q.aborted, ~q.flushed => ~q'.flushed,
         Len(q'.items) <= Len(q.items), AwakePoppers \subseteq AwakePoppers'
  PROVE  NoStrandedPopper'
<1> SUFFICES ASSUME waitNotEmpty' # {}
             PROVE  /\ ~q'.aborted /\ ~q'.flushed
                    /\ Len(q'.items) <= Cardinality(AwakePoppers')
  BY DEF NoStrandedPopper
<1>1. ~q.aborted /\ ~q.flushed /\ Len(q.items) <= Cardinality(AwakePoppers)
  BY DEF NoStrandedPopper
<1>2. /\ Cardinality(AwakePoppers) \in Nat /\ Cardinality(AwakePoppers') \in Nat
      /\ Cardinality(AwakePoppers) <= Cardinality(AwakePoppers')
  BY AwakeFinite, CountGrows
<1>3. Len(q.items) \in Nat /\ Len(q'.items) \in Nat
  BY DEF TypeOK, QueueType
<1> QED BY <1>1, <1>2, <1>3

(* An empty queue strands nobody. *)
LEMMA PoppersEmpty ==
  ASSUME q'.items = <<>>, ~q'.aborted, ~q'.flushed
  PROVE  NoStrandedPopper'
<1>1. Cardinality(AwakePoppers') \in Nat
  BY AwakeFinite, FS_CardinalityType
<1>2. Len(q'.items) <= Cardinality(AwakePoppers')
  BY <1>1
<1> QED BY <1>2 DEF NoStrandedPopper

LEMMA PoppersAfterInsert ==
  ASSUME TypeOK, TypeOK', NoStrandedPopper, NEW pkt \in Packets,
         q' = Enqueue(q, pkt), ~q.aborted,
         waitNotEmpty' \in NotifyOne(waitNotEmpty),
         \A c \in Consumers : pc'[c] = pc[c]
  PROVE  NoStrandedPopper'
<1>1. CASE waitNotEmpty = {}
  BY <1>1 DEF NotifyOne, NoStrandedPopper
<1>2. CASE waitNotEmpty # {}
  <2>1. PICK c \in waitNotEmpty : waitNotEmpty' = waitNotEmpty \ {c}
    BY <1>2 DEF NotifyOne
  <2>2. Len(q'.items) = Len(q.items) + 1 /\ ~q'.aborted /\ ~q'.flushed
    BY EnqueueType DEF TypeOK
  <2>3. AwakePoppers \cup {c} \subseteq AwakePoppers' /\ c \notin AwakePoppers
    BY <2>1 DEF AwakePoppers, TypeOK
  <2> DEFINE n == Len(q'.items)
             m == Len(q.items)
             a == Cardinality(AwakePoppers)
             b == Cardinality(AwakePoppers')
  <2>4. a \in Nat /\ b \in Nat /\ a + 1 <= b
    BY <2>3, AwakeFinite, CountRises
  <2>5. n = m + 1 /\ m <= a /\ m \in Nat
    BY <1>2, <2>2, LengthType DEF NoStrandedPopper
  <2> HIDE DEF n, m, a, b
  <2>6. n <= b
    BY ONLY <2>4, <2>5
  <2> QED BY <2>2, <2>6 DEF NoStrandedPopper, n, b
<1> QED BY <1>1, <1>2

LEMMA PoppersAfterPop ==
  ASSUME TypeOK, TypeOK', NoStrandedPopper, NEW c \in Consumers,
         NEW status \in PopStatuses, status = "Packet" => q.items # <<>>,
         pc[c] \in {"idle", "pop", "try_pop_eof"},
         pc[c] = "pop" => PopReady(q) /\ status = PopStatus(q),
         FinishPop(c, status), waitNotEmpty' = waitNotEmpty, c \notin waitNotEmpty
  PROVE  NoStrandedPopper'
<1>0. /\ q \in QueueType(Packets)
      /\ q'.aborted = q.aborted /\ (~q.flushed => ~q'.flushed)
      /\ \A d \in Consumers \ {c} : pc'[d] = pc[d]
  BY AfterPopType DEF FinishPop, Return, TypeOK
<1>1. CASE status = "Packet"
  <2> SUFFICES ASSUME waitNotEmpty' # {}
               PROVE  /\ ~q'.aborted /\ ~q'.flushed
                      /\ Len(q'.items) <= Cardinality(AwakePoppers')
    BY DEF NoStrandedPopper
  <2>1. ~q.aborted /\ ~q.flushed /\ Len(q.items) <= Cardinality(AwakePoppers)
    BY DEF NoStrandedPopper
  <2>2. Len(q'.items) = Len(q.items) - 1
    BY <1>0, <1>1, AfterPopType DEF FinishPop
  <2>3. AwakePoppers \ {c} \subseteq AwakePoppers'
    BY <1>0 DEF AwakePoppers
  <2> DEFINE n == Len(q'.items)
             m == Len(q.items)
             a == Cardinality(AwakePoppers)
             b == Cardinality(AwakePoppers')
  <2>4. a \in Nat /\ b \in Nat /\ a - 1 <= b
    BY <2>3, AwakeFinite, CountDrops
  <2>5. n = m - 1 /\ m <= a /\ m \in Nat
    BY <2>1, <2>2, LengthType
  <2> HIDE DEF n, m, a, b
  <2>6. n <= b
    BY ONLY <2>4, <2>5
  <2> QED BY <1>0, <2>1, <2>6 DEF n, b
<1>2. CASE status # "Packet" /\ pc[c] # "pop"
  <2>1. q'.items = q.items
    BY <1>0, <1>2, AfterPopType DEF FinishPop
  <2>2. AwakePoppers \subseteq AwakePoppers'
    BY <1>0, <1>2 DEF AwakePoppers
  <2>3. Len(q'.items) <= Len(q.items)
    BY <2>1, LengthType
  <2> QED BY <1>0, <2>2, <2>3, PoppersCalm
<1>3. CASE status # "Packet" /\ pc[c] = "pop"
  <2>1. q.items = <<>>
    BY <1>3 DEF PopStatus
  <2>2. q'.items = <<>>
    BY <1>0, <1>3, <2>1, AfterPopType DEF FinishPop
  <2>3. CASE waitNotEmpty = {}
    BY <2>3 DEF NoStrandedPopper
  <2>4. CASE waitNotEmpty # {}
    BY <1>0, <2>2, <2>4, PoppersEmpty DEF NoStrandedPopper
  <2> QED BY <2>3, <2>4
<1> QED BY <1>1, <1>2, <1>3

(* Nobody sleeps in pop beside a packet no awake consumer will take, or    *)
(* through a flush or an abort.  It needs SeenUnderMutex: a consumer joins *)
(* the wait set some time after it found the queue empty.                  *)
THEOREM PoppersCorrect == QueueSpec => []NoStrandedPopper
<1>1. QueueInit => NoStrandedPopper
  BY DEF QueueInit, NoStrandedPopper
<1>2. TypeOK /\ TypeOK' /\ SeenUnderMutex /\ NoStrandedPopper /\ [QueueNext]_queueVars
        => NoStrandedPopper'
  <2> SUFFICES ASSUME TypeOK, TypeOK', SeenUnderMutex, NoStrandedPopper,
                      [QueueNext]_queueVars
               PROVE  NoStrandedPopper'
    OBVIOUS
  <2> USE Roles
  <2>0. q \in QueueType(Packets) /\ Len(q.items) \in Nat
    BY LengthType DEF TypeOK
  <2>1. ASSUME NEW p \in Producers, TryPush(p) PROVE NoStrandedPopper'
    <3>1. PICK pkt \in Packets : q' = Enqueue(q, pkt)
      BY <2>1 DEF TryPush
    <3> QED BY <2>1, <3>1, PoppersAfterInsert DEF TryPush
  <2>2. ASSUME NEW p \in Producers, PushReturn(p) PROVE NoStrandedPopper'
    <3>1. CASE q.aborted
      BY <2>2, <3>1 DEF PushReturn, NoStrandedPopper
    <3>2. CASE ~q.aborted
      <4>1. arg[p][1] \in Packets /\ q' = Enqueue(q, arg[p][1])
        BY <2>2, <3>2 DEF PushReturn, TypeOK
      <4>2. \A c \in Consumers : pc'[c] = pc[c]
        BY <2>2 DEF PushReturn, Return, TypeOK
      <4>3. waitNotEmpty' \in NotifyOne(waitNotEmpty)
        BY <2>2, <3>2 DEF PushReturn
      <4> QED BY <3>2, <4>1, <4>2, <4>3, PoppersAfterInsert
    <3> QED BY <3>1, <3>2
  <2>3. ASSUME NEW c \in Consumers, TryPop(c) PROVE NoStrandedPopper'
    BY <2>0, <2>3, StatusType, PoppersAfterPop DEF TryPop, TypeOK
  <2>4. ASSUME NEW c \in Consumers, PopReturn(c) PROVE NoStrandedPopper'
    BY <2>0, <2>4, StatusType, PoppersAfterPop DEF PopReturn, Awake
  <2>5. ASSUME NEW c \in Consumers, TryPopReadEof(c) PROVE NoStrandedPopper'
    <3>1. PICK status \in {"Eof", "Empty"} : FinishPop(c, status)
      BY <2>5 DEF TryPopReadEof
    <3>2. status \in PopStatuses /\ status # "Packet"
      BY <3>1 DEF PopStatuses
    <3> QED BY <2>5, <3>1, <3>2, PoppersAfterPop DEF TryPopReadEof, TypeOK
  <2>6. ASSUME NEW c \in Consumers, PopUnready(c) \/ PopBlock(c)
        PROVE  NoStrandedPopper'
    <3>1. q' = q /\ q.items = <<>> /\ ~q.aborted /\ ~q.flushed
      BY <2>0, <2>6
      DEF PopUnready, PopBlock, PopReady, SeenUnderMutex, MutexHeldAt
    <3> QED BY <3>1, PoppersEmpty
  <2>7. ASSUME FlushQueue \/ AbortQueue \/ ResetQueue PROVE NoStrandedPopper'
    BY <2>7
    DEF FlushQueue, AbortQueue, ResetQueue, WakeEveryone, NotifyAll, NoStrandedPopper
  <2>8. ASSUME q'.aborted = q.aborted, q'.items = q.items, ~q.flushed => ~q'.flushed,
               waitNotEmpty' \subseteq waitNotEmpty, AwakePoppers \subseteq AwakePoppers'
        PROVE  NoStrandedPopper'
    BY <2>0, <2>8, PoppersCalm
  <2>9. ASSUME NEW p \in Producers,
               PushCall(p) \/ PushWait(p) \/ SignalEofStore(p) \/ SignalEofNotify(p)
        PROVE  NoStrandedPopper'
    <3>1. q'.aborted = q.aborted /\ q'.items = q.items /\ (~q.flushed => ~q'.flushed)
      BY <2>0, <2>9, QueueOpsType
      DEF PushCall, PushWait, SignalEofStore, SignalEofNotify
    <3>2. waitNotEmpty' \subseteq waitNotEmpty
      BY <2>9 DEF PushCall, PushWait, SignalEofStore, SignalEofNotify, NotifyAll
    <3>3. AwakePoppers \subseteq AwakePoppers'
      BY <2>9, <3>2
      DEF PushCall, PushWait, SignalEofStore, SignalEofNotify, AwakePoppers,
          Return, TypeOK
    <3> QED BY <2>8, <3>1, <3>2, <3>3
  <2>10. ASSUME NEW c \in Consumers, PopCall(c) \/ TryPopEmpty(c)
         PROVE  NoStrandedPopper'
    <3>1. q' = q /\ waitNotEmpty' = waitNotEmpty
      BY <2>10 DEF PopCall, TryPopEmpty
    <3>2. AwakePoppers \subseteq AwakePoppers'
      BY <2>10, <3>1 DEF PopCall, TryPopEmpty, AwakePoppers, TypeOK
    <3> QED BY <2>8, <3>1, <3>2
  <2>11. ASSUME ClearEofStore \/ ClearEofFlushed PROVE NoStrandedPopper'
    <3>1. q'.aborted = q.aborted /\ q'.items = q.items /\ (~q.flushed => ~q'.flushed)
      BY <2>0, <2>11 DEF ClearEofStore, ClearEofFlushed, QueueType
    <3>2. waitNotEmpty' = waitNotEmpty /\ AwakePoppers' = AwakePoppers
      BY <2>11 DEF ClearEofStore, ClearEofFlushed, AwakePoppers
    <3> QED BY <2>8, <3>1, <3>2
  <2>12. ASSUME NEW t \in Threads, SpuriousWake(t) PROVE NoStrandedPopper'
    <3>1. q' = q /\ waitNotEmpty' \subseteq waitNotEmpty
      BY <2>12 DEF SpuriousWake
    <3>2. AwakePoppers \subseteq AwakePoppers'
      BY <2>12, <3>1 DEF SpuriousWake, AwakePoppers
    <3> QED BY <2>8, <3>1, <3>2
  <2>13. CASE UNCHANGED queueVars
    BY <2>13 DEF queueVars, NoStrandedPopper, AwakePoppers
  <2> QED
    BY <2>1, <2>2, <2>3, <2>4, <2>5, <2>6, <2>7, <2>9, <2>10, <2>11, <2>12, <2>13
    DEF QueueNext, ProducerStep, ConsumerStep
<1> QED BY <1>1, <1>2, TypeCorrect, SeenCorrect, PTL DEF QueueSpec
-----------------------------------------------------------------------------
(* The queue with its condition variables implements the bounded FIFO.     *)
THEOREM FifoCorrect == QueueSpec => ImplementsFifo
<1> DEFINE got == [c \in Consumers |-> ret[c].packets]
<1>1. QueueInit => Fifo!Init
  BY DEF QueueInit, Fifo!Init, NewQueue
<1>2. ASSUME TypeOK, NEW c \in Consumers, NEW status \in PopStatuses,
             status = "Packet" => q.items # <<>>, FinishPop(c, status)
      PROVE  Fifo!Take(c) \/ Fifo!Miss(c)
  <2>1. q \in QueueType(Packets) /\ q' = AfterPop(q, status)
    BY <1>2 DEF FinishPop, TypeOK
  <2>2. CASE status = "Packet"
    <3>1. got' = [got EXCEPT ![c] = <<Head(q.items)>>]
      BY <1>2, <2>2 DEF FinishPop, TypeOK, Results
    <3>2. q.items # <<>> /\ q'.items = Tail(q.items)
      BY <1>2, <2>1, <2>2, AfterPopType
    <3> QED BY <3>1, <3>2 DEF Fifo!Take
  <2>3. CASE status # "Packet"
    <3>1. got' = [got EXCEPT ![c] = <<>>]
      BY <1>2, <2>3 DEF FinishPop, TypeOK, Results
    <3>2. q'.items = q.items
      BY <1>2, <2>1, <2>3, AfterPopType
    <3> QED BY <3>1, <3>2 DEF Fifo!Miss
  <2> QED BY <2>2, <2>3
<1>3. TypeOK /\ [QueueNext]_queueVars => [Fifo!Next]_<<q.items, got>>
  <2> SUFFICES ASSUME TypeOK, [QueueNext]_queueVars PROVE [Fifo!Next]_<<q.items, got>>
    OBVIOUS
  <2>0. q \in QueueType(Packets)
    BY DEF TypeOK
  <2>1. ASSUME NEW pkt \in Packets, q' = Enqueue(q, pkt), HasRoom(q, Capacity),
               ret' = ret
        PROVE  Fifo!Next
    <3>1. q'.items = Append(q.items, pkt) /\ got' = got
      BY <2>0, <2>1, EnqueueType
    <3> QED BY <2>1, <3>1 DEF HasRoom, Fifo!Put, Fifo!Next
  <2>2. ASSUME NEW p \in Producers, TryPush(p) PROVE Fifo!Next
    <3>1. PICK pkt \in Packets : q' = Enqueue(q, pkt)
      BY <2>2 DEF TryPush
    <3> QED BY <2>1, <2>2, <3>1 DEF TryPush
  <2>3. ASSUME NEW p \in Producers, PushReturn(p), ~q.aborted PROVE Fifo!Next
    <3>1. arg[p][1] \in Packets /\ q' = Enqueue(q, arg[p][1])
      BY <2>3 DEF PushReturn, TypeOK
    <3>2. HasRoom(q, Capacity) /\ ret' = ret
      BY <2>3 DEF PushReturn, PushReady
    <3> QED BY <2>1, <3>1, <3>2
  <2>4. ASSUME NEW c \in Consumers, TryPop(c) \/ PopReturn(c) \/ TryPopReadEof(c)
        PROVE  Fifo!Next
    <3>1. PICK status \in PopStatuses :
            /\ FinishPop(c, status)
            /\ status = "Packet" => q.items # <<>>
      BY <2>0, <2>4, StatusType DEF TryPop, PopReturn, TryPopReadEof, PopStatuses
    <3> QED BY <1>2, <3>1 DEF Fifo!Next
  <2>5. ASSUME FlushQueue \/ ResetQueue PROVE Fifo!Next
    <3>1. q'.items = <<>> /\ got' = got
      BY <2>0, <2>5, QueueOpsType DEF FlushQueue, ResetQueue
    <3> QED BY <3>1 DEF Fifo!Discard, Fifo!Next
  <2>6. ASSUME q'.items = q.items, ret' = ret PROVE UNCHANGED <<q.items, got>>
    BY <2>6
  <2>7. ASSUME \/ UNCHANGED <<q, ret>>
               \/ \E p \in Producers : SignalEofStore(p) \/ (PushReturn(p) /\ q.aborted)
               \/ AbortQueue \/ ClearEofStore \/ ClearEofFlushed
        PROVE  UNCHANGED <<q.items, got>>
    <3>1. q'.items = q.items /\ ret' = ret
      BY <2>0, <2>7, QueueOpsType
      DEF SignalEofStore, PushReturn, AbortQueue, ClearEofStore, ClearEofFlushed,
          QueueType
    <3> QED BY <2>6, <3>1
  <2> QED
    BY <2>2, <2>3, <2>4, <2>5, <2>7
    DEF QueueNext, ProducerStep, ConsumerStep, queueVars, PushCall, PushWait,
        SignalEofNotify, PopCall, PopUnready, PopBlock, TryPopEmpty,
        SpuriousWake
<1> QED BY <1>1, <1>3, TypeCorrect, PTL DEF QueueSpec, ImplementsFifo, Fifo!Spec
-----------------------------------------------------------------------------
(* TrackBuffer: the indices never leave the frames they stand for,         *)
(* whatever is pushed, shown, stepped back to and cleared.  And, for every *)
(* depth, at most one frame slips through a flush or an abort.             *)

(* The slot of an index that has gone round at most once.                  *)
Wrap(x) == IF x < RingCapacity THEN x ELSE x - RingCapacity

RingTypes ==
  /\ ring \in [slots : [Slots -> Nat \union {NoFrame}], writeIdx : Slots, readIdx : Slots,
              count : Nat, retreated : Nat, advanced : Nat]
  /\ given \in Seq(Nat) /\ cursor \in Nat /\ frame \in Nat

(* count_ and the indices describe the frames from the cursor on.          *)
Span ==
  /\ cursor + ring.count = Len(given)
  /\ ring.writeIdx = Wrap(ring.readIdx + ring.count)
  /\ \A i \in 0 .. ring.count - 1 :
       ring.slots[Wrap(ring.readIdx + i)] = given[cursor + 1 + i]

(* A step back makes room for one frame more than push may fill; it is not *)
(* repeated, and leaves the frame it went back over in front of it.        *)
Room ==
  /\ ring.retreated <= BackwardDepth
  /\ ring.count <= MaxCount + ring.retreated

(* What was shown before is still there to step back to.                   *)
Behind ==
  /\ ring.retreated = 0 /\ ring.advanced > 0 => cursor >= 1
  /\ BackwardDepth = 1 /\ ring.retreated = 0 /\ cursor >= 1 =>
       ring.slots[Wrap(ring.readIdx + RingCapacity - 1)] = given[cursor]

RingInv == RingTypes /\ Span /\ Room /\ Behind

(* A push that is past the looks at aborted_ and state_ may still insert;  *)
(* after it has, the next one is turned away at those looks.               *)
Slips ==
  /\ sinceClear \in {Unset, 0, 1} /\ sinceAbort \in {Unset, 0, 1}
  /\ sinceClear # Unset => state = "Flushing"
  /\ sinceClear = 1 => dpc # "inserting"
  /\ sinceAbort # Unset => aborted
  /\ sinceAbort = 1 => dpc \notin {"checked", "inserting"}
-----------------------------------------------------------------------------
LEMMA Depths ==
  /\ ForwardDepth \in Nat /\ ForwardDepth > 0 /\ BackwardDepth \in Nat
  /\ RingCapacity \in Nat /\ RingCapacity > 0
  /\ RingCapacity = MaxCount + BackwardDepth /\ MaxCount \in Nat /\ MaxCount > 0
  /\ Slots = 0 .. RingCapacity - 1
  BY DepthAssumption DEF RingCapacity, MaxCount, Slots

LEMMA Modulo ==
  ASSUME NEW n \in Nat, n > 0, NEW x \in Nat
  PROVE  /\ x < n => x % n = x
         /\ n <= x /\ x < 2 * n => x % n = x - n
         /\ 2 * n <= x /\ x < 3 * n => x % n = x - 2 * n
  OBVIOUS

(* What the ring's methods do to the indices, without the modulus.         *)
LEMMA Indices ==
  ASSUME RingTypes
  PROVE  /\ (ring.writeIdx + 1) % RingCapacity = Wrap(ring.writeIdx + 1)
         /\ (ring.readIdx + 1) % RingCapacity = Wrap(ring.readIdx + 1)
         /\ (ring.readIdx + RingCapacity - 1) % RingCapacity
              = Wrap(ring.readIdx + RingCapacity - 1)
         /\ \A i \in 0 .. RingCapacity - 1 : Peek(ring, i) = ring.slots[Wrap(ring.readIdx + i)]
         /\ Peek(ring, -1) = ring.slots[Wrap(ring.readIdx + RingCapacity - 1)]
         /\ ring.count > 0 /\ ring.count < RingCapacity
            /\ ring.writeIdx = Wrap(ring.readIdx + ring.count)
              => (ring.writeIdx + RingCapacity - ring.readIdx) % RingCapacity = ring.count
<1> DEFINE C == RingCapacity
           R == ring.readIdx
           W == ring.writeIdx
<1>1. C \in Nat /\ C > 0 /\ R \in 0 .. C - 1 /\ W \in 0 .. C - 1 /\ ring.count \in Nat
  BY Depths DEF RingTypes
<1> HIDE DEF C, R, W
<1> DEFINE wrap(x) == IF x < C THEN x ELSE x - C
<1>2. /\ (W + 1) % C = wrap(W + 1)
      /\ (R + 1) % C = wrap(R + 1)
      /\ (R + C - 1) % C = wrap(R + C - 1)
  BY <1>1, Modulo
<1>3. \A i \in 0 .. C - 1 : (R + C + i) % C = wrap(R + i)
  BY <1>1, Modulo
<1>4. (R + C + (-1)) % C = wrap(R + C - 1)
  BY <1>1, Modulo
<1>5. ASSUME ring.count > 0, ring.count < C, W = wrap(R + ring.count)
      PROVE  (W + C - R) % C = ring.count
  <2>1. CASE R + ring.count < C
    <3>1. W + C - R \in Nat /\ W + C - R = ring.count + C
      BY <1>1, <1>5, <2>1
    <3> QED BY <3>1, <1>1, <1>5, Modulo
  <2>2. CASE R + ring.count >= C
    <3>1. W + C - R \in Nat /\ W + C - R = ring.count
      BY <1>1, <1>5, <2>2
    <3> QED BY <3>1, <1>1, <1>5, Modulo
  <2> QED BY <1>1, <2>1, <2>2
<1> QED BY <1>2, <1>3, <1>4, <1>5 DEF C, R, W, Wrap, Peek

LEMMA Sequences ==
  ASSUME NEW s \in Seq(Nat), NEW x \in Nat
  PROVE  /\ Len(s) \in Nat /\ Append(s, x) \in Seq(Nat)
         /\ Len(Append(s, x)) = Len(s) + 1
         /\ \A i \in 1 .. Len(s) : Append(s, x)[i] = s[i]
         /\ Append(s, x)[Len(s) + 1] = x
  OBVIOUS

(* Where the slots lie that the steps of the indices lead to.              *)
LEMMA Wraps ==
  ASSUME NEW r \in Slots
  PROVE  /\ \A i \in 0 .. RingCapacity : Wrap(r + i) \in Slots
         /\ \A i, j \in 0 .. RingCapacity - 1 : i # j => Wrap(r + i) # Wrap(r + j)
         /\ \A i \in 0 .. RingCapacity - 1 : Wrap(Wrap(r + i) + 1) = Wrap(r + (i + 1))
         /\ \A i \in 0 .. RingCapacity - 1 : Wrap(Wrap(r + 1) + i) = Wrap(r + (i + 1))
         /\ \A i \in 1 .. RingCapacity :
              Wrap(Wrap(r + RingCapacity - 1) + i) = Wrap(r + (i - 1))
         /\ Wrap(Wrap(r + RingCapacity - 1) + 0) = Wrap(r + RingCapacity - 1)
         /\ Wrap(r + RingCapacity - 1) = Wrap(r + (RingCapacity - 1))
         /\ Wrap(r + RingCapacity - 1) \in Slots
<1> DEFINE C == RingCapacity
<1>1. C \in Nat /\ C > 0 /\ r \in 0 .. C - 1 /\ Slots = 0 .. C - 1
  BY Depths
<1> HIDE DEF C
<1> DEFINE wrap(x) == IF x < C THEN x ELSE x - C
<1>2. \A i \in 0 .. C : wrap(r + i) \in 0 .. C - 1
  BY <1>1
<1>3. \A i, j \in 0 .. C - 1 : i # j => wrap(r + i) # wrap(r + j)
  BY <1>1
<1>4. \A i \in 0 .. C - 1 : wrap(wrap(r + i) + 1) = wrap(r + (i + 1))
  BY <1>1
<1>5. \A i \in 0 .. C - 1 : wrap(wrap(r + 1) + i) = wrap(r + (i + 1))
  BY <1>1
<1>6. \A i \in 1 .. C : wrap(wrap(r + C - 1) + i) = wrap(r + (i - 1))
  BY <1>1
<1>7. /\ wrap(wrap(r + C - 1) + 0) = wrap(r + C - 1)
      /\ wrap(r + C - 1) = wrap(r + (C - 1))
      /\ wrap(r + C - 1) \in 0 .. C - 1
  BY <1>1
<1> QED BY <1>1, <1>2, <1>3, <1>4, <1>5, <1>6, <1>7 DEF C, Wrap
-----------------------------------------------------------------------------
LEMMA InsertKeeps ==
  ASSUME BackwardDepth <= 1, RingInv, PushFrameInsert
  PROVE  RingInv'
<1>1. CASE UNCHANGED <<ring, given, cursor, frame>>
  BY <1>1 DEF RingInv, RingTypes, Span, Room, Behind
<1>2. CASE /\ CanPush(ring) /\ ring' = RingPush(ring, frame) /\ given' = Append(given, frame)
           /\ UNCHANGED <<cursor, frame>>
  <2> DEFINE C == RingCapacity
             R == ring.readIdx
             n == ring.count
  <2>1. /\ ring.slots \in [Slots -> Nat \union {NoFrame}]
        /\ ring.writeIdx \in Slots /\ R \in Slots /\ n \in Nat
        /\ ring.retreated \in Nat /\ ring.advanced \in Nat
        /\ cursor \in Nat /\ frame \in Nat /\ given \in Seq(Nat)
    BY DEF RingInv, RingTypes
  <2>2. /\ C \in Nat /\ n < C - BackwardDepth /\ n < C /\ BackwardDepth \in Nat
        /\ MaxCount \in Nat /\ n < MaxCount
    BY <1>2, <2>1, Depths DEF CanPush
  <2>3. ring' = [slots |-> [ring.slots EXCEPT ![ring.writeIdx] = frame],
                 writeIdx |-> Wrap(ring.writeIdx + 1), readIdx |-> R, count |-> n + 1,
                 retreated |-> ring.retreated, advanced |-> ring.advanced]
    BY <1>2, Indices DEF RingPush, RingInv, RingTypes
  <2>4. /\ given' \in Seq(Nat) /\ Len(given') = Len(given) + 1 /\ Len(given) \in Nat
        /\ \A i \in 1 .. Len(given) : given'[i] = given[i]
        /\ given'[Len(given) + 1] = frame
    BY <1>2, <2>1, Sequences
  <2>5. ring.writeIdx = Wrap(R + n) /\ cursor + n = Len(given)
    BY DEF RingInv, Span
  <2>6. Wrap(ring.writeIdx + 1) = Wrap(R + (n + 1)) /\ Wrap(ring.writeIdx + 1) \in Slots
    <3>1. n \in 0 .. C - 1 /\ n + 1 \in 0 .. C
      BY <2>1, <2>2
    <3>2. R \in Slots
      BY <2>1
    <3> HIDE DEF C, R, n
    <3>3. Wrap(Wrap(R + n) + 1) = Wrap(R + (n + 1)) /\ Wrap(R + (n + 1)) \in Slots
      BY <3>1, <3>2, Wraps DEF C
    <3> QED BY <2>5, <3>3
  <2> HIDE DEF C, R, n
  <2>7. RingTypes'
    <3>1. [ring.slots EXCEPT ![ring.writeIdx] = frame] \in [Slots -> Nat \union {NoFrame}]
      BY <2>1
    <3>2. n + 1 \in Nat
      BY <2>1
    <3> QED BY <1>2, <2>1, <2>3, <2>4, <2>6, <3>1, <3>2 DEF RingTypes
  <2>8. Span'
    <3>1. ring'.writeIdx = Wrap(ring'.readIdx + ring'.count)
      BY <2>3, <2>6
    <3>2. ASSUME NEW i \in 0 .. n - 1
          PROVE  ring'.slots[Wrap(R + i)] = given'[cursor + 1 + i]
      <4>1. i \in 0 .. C - 1 /\ n \in 0 .. C - 1 /\ i # n /\ i \in 0 .. C
        BY <2>1, <2>2
      <4>2. Wrap(R + i) # Wrap(R + n) /\ Wrap(R + i) \in Slots
        BY <2>1, <4>1, Wraps DEF C
      <4>3. cursor + 1 + i \in 1 .. Len(given)
        <5>1. /\ i \in Nat /\ n \in Nat /\ i < n /\ cursor \in Nat
              /\ Len(given) = cursor + n
          BY <2>1, <2>2, <2>5
        <5> QED BY <5>1
      <4>4. ring.slots[Wrap(R + i)] = given[cursor + 1 + i]
        BY DEF RingInv, Span, R, n
      <4> QED BY <2>1, <2>3, <2>4, <2>5, <4>2, <4>3, <4>4
    <3>3. ring'.slots[Wrap(R + n)] = given'[cursor + 1 + n]
      BY <2>1, <2>3, <2>4, <2>5
    <3>4. ASSUME NEW i \in 0 .. n
          PROVE  ring'.slots[Wrap(R + i)] = given'[cursor + 1 + i]
      <4>1. i = n \/ i \in 0 .. n - 1
        BY <2>1
      <4> QED BY <3>2, <3>3, <4>1
    <3>5. ring'.count = n + 1 /\ ring'.readIdx = R /\ cursor' = cursor
      BY <1>2, <2>3
    <3>6. ring'.count - 1 = n /\ cursor + ring'.count = Len(given')
      BY <2>1, <2>4, <2>5, <3>5
    <3> QED BY <3>1, <3>4, <3>5, <3>6 DEF Span
  <2>9. Room'
    <3>1. ring.retreated <= BackwardDepth
      BY DEF RingInv, Room
    <3>2. ring'.retreated = ring.retreated /\ ring'.count = n + 1
      BY <2>3
    <3> QED BY <2>1, <2>2, <3>1, <3>2 DEF Room, MaxCount, RingCapacity
  <2>10. Behind'
    <3>1. /\ ring'.retreated = ring.retreated /\ ring'.advanced = ring.advanced
          /\ ring'.readIdx = R /\ cursor' = cursor
      BY <1>2, <2>3
    <3>2. ASSUME BackwardDepth = 1, ring.retreated = 0, cursor >= 1
          PROVE  ring'.slots[Wrap(R + C - 1)] = given'[cursor]
      <4>1. n \in 0 .. C - 1 /\ C - 1 \in 0 .. C - 1 /\ n # C - 1
        BY <2>1, <2>2, <3>2
      <4>2. Wrap(R + C - 1) # ring.writeIdx /\ Wrap(R + C - 1) \in Slots
        BY <2>1, <2>5, <4>1, Wraps DEF C
      <4>3. cursor \in 1 .. Len(given)
        BY <2>1, <2>4, <2>5, <3>2
      <4>4. ring.slots[Wrap(R + C - 1)] = given[cursor]
        BY <3>2 DEF RingInv, Behind, R, C
      <4> QED BY <2>1, <2>3, <2>4, <2>5, <4>2, <4>3, <4>4
    <3>3. ring.retreated = 0 /\ ring.advanced > 0 => cursor >= 1
      BY DEF RingInv, Behind
    <3> QED BY <3>1, <3>2, <3>3 DEF Behind, C
  <2> QED BY <2>7, <2>8, <2>9, <2>10 DEF RingInv
<1> QED BY <1>1, <1>2 DEF PushFrameInsert

LEMMA AdvanceKeeps ==
  ASSUME BackwardDepth <= 1, RingInv, Advance
  PROVE  RingInv'
<1> DEFINE C == RingCapacity
           R == ring.readIdx
           n == ring.count
<1>1. /\ ring.slots \in [Slots -> Nat \union {NoFrame}]
      /\ ring.writeIdx \in Slots /\ R \in Slots /\ n \in Nat /\ n > 0
      /\ ring.retreated \in Nat /\ ring.advanced \in Nat
      /\ cursor \in Nat /\ frame \in Nat /\ given \in Seq(Nat)
  BY DEF RingInv, RingTypes, Advance, CanAdvance
<1>2. /\ ring.retreated <= BackwardDepth /\ n <= MaxCount + ring.retreated
      /\ C \in Nat /\ n <= C /\ C > 0 /\ MaxCount \in Nat
      /\ BackwardDepth = 0 \/ BackwardDepth = 1
  BY <1>1, Depths DEF RingInv, Room
<1>3. ring' = [slots |-> ring.slots, writeIdx |-> ring.writeIdx,
               readIdx |-> Wrap(R + 1), count |-> n - 1,
               retreated |-> IF ring.retreated > 0 THEN ring.retreated - 1 ELSE 0,
               advanced |-> ring.advanced + 1]
  BY Indices DEF Advance, RingAdvance, RingInv, RingTypes
<1>4. given' = given /\ frame' = frame /\ cursor' = cursor + 1
  BY DEF Advance
<1>5. ring.writeIdx = Wrap(R + n) /\ cursor + n = Len(given)
  BY DEF RingInv, Span
<1>6. Wrap(R + 1) \in Slots
  BY <1>1, <1>2, Wraps DEF C
<1> HIDE DEF C, R, n
<1>7. RingTypes'
  <2>1. /\ n - 1 \in Nat /\ ring.advanced + 1 \in Nat /\ cursor + 1 \in Nat
        /\ (IF ring.retreated > 0 THEN ring.retreated - 1 ELSE 0) \in Nat
    BY <1>1
  <2> QED BY <1>1, <1>3, <1>4, <1>6, <2>1 DEF RingTypes
<1>8. Span'
  <2>1. /\ ring'.slots = ring.slots /\ ring'.readIdx = Wrap(R + 1) /\ ring'.count = n - 1
        /\ ring'.writeIdx = Wrap(R + n)
    BY <1>3, <1>5
  <2>6. cursor + 1 + (n - 1) = Len(given)
    BY <1>1, <1>5
  <2>2. n - 1 \in 0 .. C - 1 /\ n - 1 + 1 = n
    BY <1>1, <1>2
  <2>3. ring'.writeIdx = Wrap(ring'.readIdx + ring'.count)
    BY <1>1, <2>1, <2>2, Wraps DEF C
  <2>4. ASSUME NEW i \in 0 .. n - 2
        PROVE  ring.slots[Wrap(Wrap(R + 1) + i)] = given[cursor + 1 + 1 + i]
    <3>1. i \in 0 .. C - 1 /\ i + 1 \in 0 .. n - 1 /\ cursor + 1 + (i + 1) = cursor + 1 + 1 + i
      BY <1>1, <1>2
    <3>2. Wrap(Wrap(R + 1) + i) = Wrap(R + (i + 1))
      BY <1>1, <3>1, Wraps DEF C
    <3>3. ring.slots[Wrap(R + (i + 1))] = given[cursor + 1 + (i + 1)]
      BY <3>1 DEF RingInv, Span, R, n
    <3> QED BY <3>1, <3>2, <3>3
  <2>5. n - 1 - 1 = n - 2
    BY <1>1
  <2> QED BY <1>4, <2>1, <2>3, <2>4, <2>5, <2>6 DEF Span
<1>9. Room'
  <2>1. /\ ring'.count = n - 1
        /\ ring'.retreated = IF ring.retreated > 0 THEN ring.retreated - 1 ELSE 0
    BY <1>3
  <2> QED BY <1>1, <1>2, <2>1 DEF Room, MaxCount, RingCapacity
<1>10. Behind'
  <2>1. ring'.slots = ring.slots /\ ring'.readIdx = Wrap(R + 1)
    BY <1>3
  <2>2. Wrap(Wrap(R + 1) + C - 1) = Wrap(R + 0)
    <3>1. C - 1 \in 0 .. C - 1 /\ 0 \in 0 .. C - 1
      BY <1>2
    <3>2. Wrap(R + 1) + C - 1 = Wrap(R + 1) + (C - 1) /\ R + C = R + (C - 1 + 1)
      BY <1>1, <1>2, <1>6, Depths
    <3>3. Wrap(R + C) = Wrap(R + 0)
      BY <1>1, Depths DEF Wrap, C
    <3> QED BY <1>1, <3>1, <3>2, <3>3, Wraps DEF C
  <2>3. ring.slots[Wrap(R + 0)] = given[cursor + 1]
    <3>1. 0 \in 0 .. n - 1 /\ cursor + 1 + 0 = cursor + 1
      BY <1>1
    <3> QED BY <3>1 DEF RingInv, Span, R, n
  <2>4. cursor + 1 >= 1
    BY <1>1
  <2> QED BY <1>4, <2>1, <2>2, <2>3, <2>4 DEF Behind, C
<1> QED BY <1>7, <1>8, <1>9, <1>10 DEF RingInv

LEMMA RetreatKeeps ==
  ASSUME BackwardDepth <= 1, RingInv, Retreat
  PROVE  RingInv'
<1> DEFINE C == RingCapacity
           R == ring.readIdx
           n == ring.count
<1>1. /\ ring.slots \in [Slots -> Nat \union {NoFrame}]
      /\ ring.writeIdx \in Slots /\ R \in Slots /\ n \in Nat
      /\ ring.retreated \in Nat /\ ring.advanced \in Nat
      /\ cursor \in Nat /\ frame \in Nat /\ given \in Seq(Nat)
  BY DEF RingInv, RingTypes
<1>2. /\ BackwardDepth = 1 /\ ring.retreated = 0 /\ n <= MaxCount
      /\ C \in Nat /\ n + 1 <= C /\ C > 0 /\ MaxCount \in Nat
  <2>1. ring.retreated < BackwardDepth
    BY DEF Retreat, CanRetreat
  <2> QED BY <1>1, <2>1, Depths DEF RingInv, Room
<1>3. cursor >= 1 /\ ring.slots[Wrap(R + C - 1)] = given[cursor]
  <2>1. ring.retreated < ring.advanced
    BY DEF Retreat, CanRetreat
  <2>2. ring.advanced > 0
    BY <1>1, <1>2, <2>1
  <2> QED BY <1>2, <2>2 DEF RingInv, Behind
<1>4. ring' = [slots |-> ring.slots, writeIdx |-> ring.writeIdx,
               readIdx |-> Wrap(R + C - 1), count |-> n + 1,
               retreated |-> 1, advanced |-> ring.advanced]
  <2>1. RingTypes /\ ring.retreated + 1 = 1
    BY <1>2 DEF RingInv
  <2> QED BY <2>1, Indices DEF Retreat, RingRetreat, RingTypes
<1>5. given' = given /\ frame' = frame /\ cursor' = cursor - 1
  BY DEF Retreat
<1>6. ring.writeIdx = Wrap(R + n) /\ cursor + n = Len(given)
  BY DEF RingInv, Span
<1>7. Wrap(R + C - 1) \in Slots
  BY <1>1, Wraps DEF C
<1> HIDE DEF C, R, n
<1>8. RingTypes'
  <2>1. n + 1 \in Nat /\ cursor - 1 \in Nat /\ 1 \in Nat
    BY <1>1, <1>3
  <2> QED BY <1>1, <1>4, <1>5, <1>7, <2>1 DEF RingTypes
<1>9. Span'
  <2>1. /\ ring'.slots = ring.slots /\ ring'.readIdx = Wrap(R + C - 1) /\ ring'.count = n + 1
        /\ ring'.writeIdx = Wrap(R + n)
    BY <1>4, <1>6
  <2>6. cursor - 1 + (n + 1) = Len(given)
    BY <1>1, <1>6
  <2>2. n + 1 \in 1 .. C /\ n + 1 - 1 = n
    BY <1>1, <1>2
  <2>3. ring'.writeIdx = Wrap(ring'.readIdx + ring'.count)
    BY <1>1, <2>1, <2>2, Wraps DEF C
  <2>4. ASSUME NEW i \in 0 .. n
        PROVE  ring.slots[Wrap(Wrap(R + C - 1) + i)] = given[cursor - 1 + 1 + i]
    <3>1. CASE i = 0
      <4>1. cursor - 1 + 1 + i = cursor
        BY <1>1, <3>1
      <4> QED BY <1>1, <1>3, <3>1, <4>1, Wraps DEF C
    <3>2. CASE i > 0
      <4>1. i \in 1 .. C /\ i - 1 \in 0 .. n - 1 /\ cursor - 1 + 1 + i = cursor + 1 + (i - 1)
        BY <1>1, <1>2, <3>2
      <4>2. Wrap(Wrap(R + C - 1) + i) = Wrap(R + (i - 1))
        BY <1>1, <4>1, Wraps DEF C
      <4>3. ring.slots[Wrap(R + (i - 1))] = given[cursor + 1 + (i - 1)]
        BY <4>1 DEF RingInv, Span, R, n
      <4> QED BY <4>1, <4>2, <4>3
    <3> QED BY <1>1, <3>1, <3>2
  <2>5. ring'.count - 1 = n
    BY <1>1, <2>1
  <2> QED BY <1>5, <2>1, <2>3, <2>4, <2>5, <2>6 DEF Span
<1>10. Room'
  <2>1. ring'.count = n + 1 /\ ring'.retreated = 1
    BY <1>4
  <2> QED BY <1>1, <1>2, <2>1 DEF Room, MaxCount, RingCapacity
<1>11. Behind'
  BY <1>4 DEF Behind
<1> QED BY <1>8, <1>9, <1>10, <1>11 DEF RingInv

LEMMA EmptyRing ==
  ASSUME ring = NewRing, given = <<>>, cursor = 0, frame \in Nat
  PROVE  RingInv
<1>1. RingTypes
  BY Depths DEF NewRing, RingTypes
<1>2. Span /\ Room /\ Behind
  BY Depths DEF NewRing, Span, Room, Behind, Wrap
<1> QED BY <1>1, <1>2 DEF RingInv
-----------------------------------------------------------------------------
LEMMA RingInit ==
  BufferInit => RingInv
  BY EmptyRing DEF BufferInit

LEMMA RingStep ==
  ASSUME BackwardDepth <= 1, RingInv, [BufferNext]_bufferVars
  PROVE  RingInv'
<1>1. CASE UNCHANGED <<contents, frame>>
  BY <1>1 DEF contents, RingInv, RingTypes, Span, Room, Behind
<1>2. CASE UNCHANGED bufferVars
  BY <1>1, <1>2 DEF bufferVars
<1>3. CASE PushFrameCall
  BY <1>3 DEF PushFrameCall, contents, RingInv, RingTypes, Span, Room, Behind
<1>4. CASE PushFrameInsert
  BY <1>4, InsertKeeps
<1>5. CASE Advance
  BY <1>5, AdvanceKeeps
<1>6. CASE Retreat
  BY <1>6, RetreatKeeps
<1>7. ASSUME ring' = NewRing, Emptied, UNCHANGED frame
      PROVE  RingInv'
  <2>1. frame' \in Nat
    BY <1>7 DEF RingInv, RingTypes
  <2>2. RingTypes'
    BY <1>7, <2>1, Depths DEF Emptied, NewRing, RingTypes
  <2>3. (Span /\ Room /\ Behind)'
    BY <1>7, Depths DEF Emptied, NewRing, Span, Room, Behind, Wrap
  <2> QED BY <2>2, <2>3 DEF RingInv
<1>8. CASE ClearFrames
  BY <1>7, <1>8 DEF ClearFrames
<1>9. CASE ResetBuffer
  BY <1>7, <1>9 DEF ResetBuffer
<1>10. CASE PushFramePredicate \/ PushFrameSleep \/ PushFrameCheckAborted
            \/ PushFrameCheckState \/ PushSpuriousWake \/ (\E s \in TrackStates : SetState(s))
            \/ AbortBuffer \/ Notify
  BY <1>1, <1>10 DEF PushFramePredicate, PushFrameSleep, PushFrameCheckAborted,
                     PushFrameCheckState, PushSpuriousWake, SetState, AbortBuffer, Notify
<1> QED BY <1>2, <1>3, <1>4, <1>5, <1>6, <1>8, <1>9, <1>10 DEF BufferNext, DecodeStep

LEMMA RingExact ==
  ASSUME BackwardDepth <= 1, RingInv
  PROVE  ForwardExact /\ BackwardExact
<1> DEFINE C == RingCapacity
           R == ring.readIdx
           n == ring.count
<1>1. /\ R \in Slots /\ n \in Nat /\ ring.retreated \in Nat /\ ring.advanced \in Nat
      /\ cursor \in Nat /\ Len(given) \in Nat /\ RingTypes
  BY DEF RingInv, RingTypes
<1>2. /\ ring.retreated <= BackwardDepth /\ n <= C /\ C \in Nat /\ C > 0
      /\ BackwardDepth = 0 \/ BackwardDepth = 1
  BY <1>1, Depths DEF RingInv, Room
<1>3. ring.writeIdx = Wrap(R + n) /\ cursor + n = Len(given)
  BY DEF RingInv, Span
<1>4. ForwardCount(ring) = n
  <2>1. CASE n = C
    <3>1. ring.writeIdx = R
      BY <1>1, <1>3, <2>1, Depths DEF Wrap
    <3> QED BY <2>1, <3>1 DEF ForwardCount
  <2>2. CASE n # C /\ n # 0
    <3>1. n > 0 /\ n < C
      BY <1>1, <1>2, <2>2
    <3> QED BY <1>1, <1>3, <2>2, <3>1, Indices DEF ForwardCount
  <2>3. CASE n = 0
    BY <2>3 DEF ForwardCount
  <2> QED BY <2>1, <2>2, <2>3
<1>5. ASSUME NEW i \in 0 .. n - 1
      PROVE  Peek(ring, i) = given[cursor + i + 1]
  <2>1. i \in 0 .. C - 1 /\ cursor + 1 + i = cursor + i + 1
    BY <1>1, <1>2
  <2>2. Peek(ring, i) = ring.slots[Wrap(R + i)]
    BY <1>1, <2>1, Indices
  <2>3. ring.slots[Wrap(R + i)] = given[cursor + 1 + i]
    BY DEF RingInv, Span
  <2> QED BY <2>1, <2>2, <2>3
<1>6. ForwardExact
  <2>1. n = Len(given) - cursor
    BY <1>1, <1>3
  <2> QED BY <1>4, <1>5, <2>1 DEF ForwardExact
<1>7. CanRetreat(ring) => BackwardDepth = 1 /\ cursor >= 1
  BY <1>1, <1>2 DEF CanRetreat, RingInv, Behind
<1>8. ASSUME NEW k \in 1 .. AvailableRetreats(ring)
      PROVE  cursor >= k /\ Peek(ring, -k) = given[cursor + 1 - k]
  <2>1. k = 1 /\ CanRetreat(ring)
    BY <1>1, <1>2 DEF AvailableRetreats, Lesser, CanRetreat
  <2>2. ring.retreated = 0 /\ BackwardDepth = 1
    BY <1>1, <1>7, <2>1 DEF CanRetreat
  <2>3. Peek(ring, -1) = given[cursor]
    BY <1>1, <1>7, <2>1, <2>2, Indices DEF RingInv, Behind
  <2>4. cursor + 1 - k = cursor
    BY <1>1, <2>1
  <2> QED BY <1>7, <2>1, <2>3, <2>4
<1> QED BY <1>6, <1>7, <1>8 DEF BackwardExact

(* Whatever the sizes of the forward buffer, the frames from the read       *)
(* position on are the ones pushed, in order, and count_ and the indices    *)
(* agree: push, advance, retreat and clear of bidi_ring_buffer.cpp.         *)
THEOREM ForwardCorrect ==
  ASSUME BackwardDepth <= 1
  PROVE  BufferSpec => []ForwardExact
<1>1. BufferInit => RingInv
  BY RingInit
<1>2. RingInv /\ [BufferNext]_bufferVars => RingInv'
  BY RingStep
<1>3. RingInv => ForwardExact
  BY RingExact
<1> QED BY <1>1, <1>2, <1>3, PTL DEF BufferSpec

(* A step back, whenever can_retreat or available_retreat_count allows one, *)
(* shows the frame shown before: track_buffer.cpp peek, retreat.            *)
THEOREM BackwardCorrect ==
  ASSUME BackwardDepth <= 1
  PROVE  BufferSpec => []BackwardExact
<1>1. BufferInit => RingInv
  BY RingInit
<1>2. RingInv /\ [BufferNext]_bufferVars => RingInv'
  BY RingStep
<1>3. RingInv => BackwardExact
  BY RingExact
<1> QED BY <1>1, <1>2, <1>3, PTL DEF BufferSpec
-----------------------------------------------------------------------------
LEMMA SlipsStep ==
  ASSUME Slips, [BufferNext]_bufferVars
  PROVE  Slips'
<1> USE DEF Slips, Unset, counted
<1>1. CASE UNCHANGED bufferVars
  BY <1>1 DEF bufferVars
<1>2. CASE PushFrameCall
  BY <1>2 DEF PushFrameCall
<1>3. CASE PushFramePredicate \/ PushFrameSleep \/ PushSpuriousWake
  BY <1>3 DEF PushFramePredicate, PushFrameSleep, PushSpuriousWake
<1>4. CASE PushFrameCheckAborted
  BY <1>4 DEF PushFrameCheckAborted
<1>5. CASE PushFrameCheckState
  BY <1>5 DEF PushFrameCheckState
<1>6. CASE PushFrameInsert
  BY <1>6 DEF PushFrameInsert, Count
<1>7. ASSUME NEW s \in TrackStates, SetState(s)
      PROVE  Slips'
  BY <1>7 DEF SetState
<1>8. CASE AbortBuffer
  BY <1>8 DEF AbortBuffer
<1>9. CASE ClearFrames
  BY <1>9 DEF ClearFrames
<1>10. CASE ResetBuffer
  BY <1>10 DEF ResetBuffer
<1>11. CASE Advance
  BY <1>11 DEF Advance
<1>12. CASE Retreat
  BY <1>12 DEF Retreat
<1>13. CASE Notify
  BY <1>13 DEF Notify
<1> QED BY <1>1, <1>2, <1>3, <1>4, <1>5, <1>6, <1>7, <1>8, <1>9, <1>10, <1>11, <1>12, <1>13
        DEF BufferNext, DecodeStep

(* For every depth: of the pushes that a flush or an abort overtakes, at    *)
(* most the one that had already looked is inserted (track_buffer.cpp       *)
(* push_frame against clear_frames, set_state and abort).                   *)
THEOREM SlipsCorrect ==
  BufferSpec => []AtMostOneSlipsThrough
<1>1. BufferInit => Slips
  BY DEF BufferInit, Slips, Unset
<1>2. Slips /\ [BufferNext]_bufferVars => Slips'
  BY SlipsStep
<1>3. Slips => AtMostOneSlipsThrough
  BY DEF Slips, AtMostOneSlipsThrough, Unset
<1> QED BY <1>1, <1>2, <1>3, PTL DEF BufferSpec
-----------------------------------------------------------------------------
(* Playback, for any tracks, offsets, targets, loop ranges and calls.      *)

Transport ==
  /\ clock = [pts |-> clock.pts, paused |-> clock.paused]
  /\ {playing, clock.paused, held, output} \subseteq BOOLEAN
  /\ OneTransport

(* Only the clock's time is set.                                           *)
LEMMA ClockSet ==
  ASSUME Transport, NEW time, clock' = [clock EXCEPT !.pts = time],
         UNCHANGED <<playing, held, output>>
  PROVE  Transport'
<1>1. clock' = [pts |-> time, paused |-> clock.paused] BY DEF Transport
<1>2. clock'.paused = clock.paused /\ clock' = [pts |-> clock'.pts, paused |-> clock'.paused]
  BY <1>1
<1> QED BY <1>2 DEF Transport, OneTransport

LEMMA ClockStopped ==
  ASSUME Transport, clock' = [clock EXCEPT !.paused = TRUE]
  PROVE  clock'.paused = TRUE /\ clock' = [pts |-> clock'.pts, paused |-> clock'.paused]
<1>1. clock' = [pts |-> clock.pts, paused |-> TRUE] BY DEF Transport
<1> QED BY <1>1

LEMMA ClockStarted ==
  ASSUME Transport, clock' = [clock EXCEPT !.paused = FALSE]
  PROVE  clock'.paused = FALSE /\ clock' = [pts |-> clock'.pts, paused |-> clock'.paused]
<1>1. clock' = [pts |-> clock.pts, paused |-> FALSE] BY DEF Transport
<1> QED BY <1>1

LEMMA TransportPlay == Transport /\ Play => Transport'
<1> SUFFICES ASSUME Transport, Play PROVE Transport' OBVIOUS
<1>1. ~playing /\ playing' = TRUE /\ held' = held /\ clock.paused = TRUE
  BY DEF Play, Transport, OneTransport
<1>2. CASE held
  <2>1. UNCHANGED <<output, clock>> BY <1>2 DEF Play, StartClock
  <2> QED BY <1>1, <1>2, <2>1 DEF Transport, OneTransport
<1>3. CASE ~held
  <2>1. output' = TRUE /\ clock' = [clock EXCEPT !.paused = FALSE]
    BY <1>3 DEF Play, StartClock
  <2> QED BY <1>1, <1>3, <2>1, ClockStarted DEF Transport, OneTransport
<1> QED BY <1>2, <1>3

LEMMA TransportPause == Transport /\ Pause => Transport'
<1> SUFFICES ASSUME Transport, Pause PROVE Transport' OBVIOUS
<1>1. playing' = FALSE /\ held' = held /\ output' = FALSE
      /\ clock' = [clock EXCEPT !.paused = TRUE]
  BY DEF Pause
<1> QED BY <1>1, ClockStopped DEF Transport, OneTransport

(* evaluate holds and resumes a playing player only.                       *)
LEMMA TransportPacing == Transport /\ RenderPacing => Transport'
<1> SUFFICES ASSUME Transport, RenderPacing PROVE Transport' OBVIOUS
<1>1. playing' = playing BY DEF RenderPacing
<1>2. Evaluation.do # "nothing" => playing
  <2> SUFFICES ASSUME ~playing PROVE Evaluation.do = "nothing"
    BY DEF Transport
  <2>1. Evaluation = [state |-> IF held THEN pacing ELSE "Idle", do |-> "nothing"]
    BY DEF Evaluation
  <2> QED BY <2>1
<1>3. CASE Evaluation.do = "hold"
  <2>1. HoldForPacing BY <1>3 DEF RenderPacing
  <2>2. CASE held
    <3>1. UNCHANGED <<held, output, clock>> BY <2>1, <2>2 DEF HoldForPacing
    <3> QED BY <1>1, <3>1 DEF Transport, OneTransport
  <2>3. CASE ~held
    <3>1. held' = TRUE /\ output' = FALSE /\ clock' = [clock EXCEPT !.paused = TRUE]
      BY <2>1, <2>3 DEF HoldForPacing
    <3> QED BY <1>1, <3>1, ClockStopped DEF Transport, OneTransport
  <2> QED BY <2>2, <2>3
<1>4. CASE Evaluation.do = "resume"
  <2>1. ReleaseHold BY <1>4 DEF RenderPacing
  <2>2. CASE ~held
    <3>1. UNCHANGED <<held, output, clock>> BY <2>1, <2>2 DEF ReleaseHold
    <3> QED BY <1>1, <3>1 DEF Transport, OneTransport
  <2>3. CASE held
    <3>1. held' = FALSE /\ output' = TRUE /\ clock' = [clock EXCEPT !.paused = FALSE]
      BY <2>1, <2>3 DEF ReleaseHold
    <3>2. playing = TRUE BY <1>2, <1>4 DEF Transport
    <3> QED BY <1>1, <3>1, <3>2, ClockStarted DEF Transport, OneTransport
  <2> QED BY <2>2, <2>3
<1>5. CASE Evaluation.do \notin {"hold", "resume"}
  <2>1. UNCHANGED <<held, output, clock>> BY <1>5 DEF RenderPacing
  <2> QED BY <1>1, <2>1 DEF Transport, OneTransport
<1> QED BY <1>3, <1>4, <1>5

LEMMA TransportSettle == Transport /\ RenderSettle => Transport'
<1> SUFFICES ASSUME Transport, RenderSettle PROVE Transport' OBVIOUS
<1>1. playing' = FALSE /\ UNCHANGED <<held, output>>
      /\ clock' = [pts |-> Boundary, paused |-> TRUE]
  BY DEF RenderSettle
<1>2. clock'.paused = TRUE /\ clock' = [pts |-> clock'.pts, paused |-> clock'.paused]
  BY <1>1
<1> QED BY <1>1, <1>2 DEF Transport, OneTransport

LEMMA TransportStep == Transport /\ [Next]_vars => Transport'
<1> SUFFICES ASSUME Transport, [Next]_vars PROVE Transport' OBVIOUS
<1>1. CASE UNCHANGED <<playing, clock, held, output>>
  BY <1>1 DEF Transport, OneTransport
<1>2. CASE UNCHANGED vars BY <1>1, <1>2 DEF vars, transport
<1>3. CASE Play \/ Pause BY <1>3, TransportPlay, TransportPause
<1>4. CASE RenderPacing BY <1>4, TransportPacing
<1>5. CASE RenderSettle BY <1>5, TransportSettle
<1>6. ASSUME NEW target, NEW type, Seek(target, type) PROVE Transport'
  <2>1. UNCHANGED <<playing, held, output>> BY <1>6 DEF Seek
  <2>2. clock' = [clock EXCEPT !.pts = Clamped(target)]
    BY <1>6 DEF Seek, SeekCommand
  <2> QED BY <2>1, <2>2, ClockSet
<1>7. CASE RenderDeferredSeek BY <1>7, ClockSet DEF RenderDeferredSeek
<1>8. CASE RenderLoopSeek
  <2>1. UNCHANGED <<playing, held, output>> BY <1>8 DEF RenderLoopSeek
  <2>2. clock' = [clock EXCEPT !.pts = Clamped(loop.start)]
    BY <1>8 DEF RenderLoopSeek, SeekCommand
  <2> QED BY <2>1, <2>2, ClockSet
<1>9. CASE RenderPreviewClock BY <1>9, ClockSet DEF RenderPreviewClock
<1>10. CASE RenderEof BY <1>10, ClockSet DEF RenderEof
<1>11. CASE Tick BY <1>11, ClockSet DEF Tick
<1>12. CASE RenderTop \/ RenderPreview \/ RenderPresented \/ RenderCommitCached
            \/ RenderCommitPreview \/ RenderTick \/ RenderCommitPlay
  BY <1>1, <1>12
  DEF RenderTop, RenderPreview, RenderPresented, RenderCommitCached,
      RenderCommitPreview, RenderTick, RenderCommitPlay, transport
<1>13. CASE Pipeline \/ SettleOver \/ InFlightTimeout
  BY <1>1, <1>13
  DEF Pipeline, SeekLands, Decode, SettleOver, InFlightTimeout, transport
<1> QED
  BY <1>2, <1>3, <1>4, <1>5, <1>6, <1>7, <1>8, <1>9, <1>10, <1>11, <1>12, <1>13
  DEF Next, Calls, Render, Timers

(* OneTransport: however plays, pauses, holds and releases of the pacing   *)
(* controller, seeks, loops and the end of the file follow each other,     *)
(* clock and audio output run together, a held player is silent, and a     *)
(* paused player's clock stands still: PlaybackController and its callers. *)
THEOREM TransportCorrect == Spec => []OneTransport
<1>1. Init => Transport
  <2> SUFFICES ASSUME Init PROVE Transport OBVIOUS
  <2>1. /\ playing = FALSE /\ clock = [pts |-> 0, paused |-> TRUE]
        /\ held = FALSE /\ output = FALSE
    BY DEF Init
  <2>2. clock.paused = TRUE /\ clock = [pts |-> clock.pts, paused |-> clock.paused]
    BY <2>1
  <2> QED BY <2>1, <2>2 DEF Transport, OneTransport
<1>2. Transport => OneTransport BY DEF Transport
<1> QED BY <1>1, <1>2, TransportStep, PTL DEF Spec
=============================================================================

---------------------------- MODULE PacketQueue ----------------------------
(***************************************************************************)
(* src/native/media/packet_queue.cpp: the bounded queue between a          *)
(* DemuxThread and a DecodeThread or AudioDecodeThread, with its mutex and *)
(* its two condition variables.                                            *)
(*                                                                         *)
(* A critical section that never waits in the middle is one step.  Three   *)
(* places are finer, because eof_ is an atomic that signal_eof and         *)
(* clear_eof write without the mutex: pop evaluates its predicate and only *)
(* then joins not_empty_, try_pop finds the queue empty and only then      *)
(* reads eof_, and signal_eof stores and then notifies.                    *)
(***************************************************************************)
EXTENDS PacketQueueOps, FiniteSets

CONSTANTS Producers, Consumers, Packets, Capacity

ASSUME ConstantsAssumption ==
  /\ Producers \cap Consumers = {}
  /\ IsFiniteSet(Producers) /\ IsFiniteSet(Consumers)
  /\ Capacity \in Nat \ {0}

VARIABLES
  q,             (* the queue's fields *)
  pc,            (* the call each thread is in, "idle" outside of one *)
  arg,           (* the packet each producer is pushing *)
  ret,           (* what each consumer's last call returned *)
  waitNotFull,   (* the producers asleep on not_full_ *)
  waitNotEmpty,  (* the consumers asleep on not_empty_ *)
  clearing       (* clear_eof has stored eof_ and not yet locked the mutex *)

queueVars == <<q, pc, arg, ret, waitNotFull, waitNotEmpty, clearing>>

Threads == Producers \cup Consumers

(* Mutant: try_pop drops the mutex before it loads eof_. *)
MutexHeldAtBlockOnly == {"pop_block"}

(* pop between its predicate and the wait, and try_pop between its test of *)
(* queue_ and the load of eof_, hold the mutex.                            *)
MutexHeldAt == {"pop_block", "try_pop_eof"}

MutexFree == \A t \in Threads : pc[t] \notin MutexHeldAt

(* A thread woken by a notification, or not yet asleep, can run. *)
Awake(t) == t \notin waitNotFull \cup waitNotEmpty

(* Mutant: the notification is forgotten. *)
NotifyNobody(waiters) == {waiters}

NotifyOne(waiters) ==
  IF waiters = {} THEN {{}} ELSE {waiters \ {t} : t \in waiters}

NotifyAll(waiters) == {}

Return(t) == pc' = [pc EXCEPT ![t] = "idle"]

Results == [status : PopStatuses, packets : Seq(Packets)]

TypeOK ==
  /\ q \in QueueType(Packets)
  /\ pc \in [Threads -> {"idle", "push", "pop", "eof_notify"} \cup MutexHeldAt]
  /\ \A p \in Producers : pc[p] \in {"idle", "push", "eof_notify"}
  /\ \A c \in Consumers : pc[c] \in {"idle", "pop"} \cup MutexHeldAt
  /\ arg \in [Producers -> Seq(Packets)]
  /\ \A p \in Producers : Len(arg[p]) = (IF pc[p] = "push" THEN 1 ELSE 0)
  /\ ret \in [Consumers -> Results]
  /\ waitNotFull \subseteq {p \in Producers : pc[p] = "push"}
  /\ waitNotEmpty \subseteq {c \in Consumers : pc[c] = "pop"}
  /\ clearing \in BOOLEAN

QueueInit ==
  /\ q = NewQueue
  /\ pc = [t \in Threads |-> "idle"]
  /\ arg = [p \in Producers |-> <<>>]
  /\ ret = [c \in Consumers |-> [status |-> "Empty", packets |-> <<>>]]
  /\ waitNotFull = {}
  /\ waitNotEmpty = {}
  /\ clearing = FALSE
-----------------------------------------------------------------------------
(* Producers: the demux thread. *)

PushCall(p) ==
  /\ pc[p] = "idle"
  /\ \E pkt \in Packets : arg' = [arg EXCEPT ![p] = <<pkt>>]
  /\ pc' = [pc EXCEPT ![p] = "push"]
  /\ UNCHANGED <<q, ret, waitNotFull, waitNotEmpty, clearing>>

PushWait(p) ==
  /\ pc[p] = "push" /\ Awake(p) /\ MutexFree
  /\ ~PushReady(q, Capacity)
  /\ waitNotFull' = waitNotFull \cup {p}
  /\ UNCHANGED <<q, pc, arg, ret, waitNotEmpty, clearing>>

PushReturn(p) ==
  /\ pc[p] = "push" /\ Awake(p) /\ MutexFree
  /\ PushReady(q, Capacity)
  /\ \/ /\ q.aborted
        /\ UNCHANGED <<q, waitNotEmpty>>
     \/ /\ ~q.aborted
        /\ q' = Enqueue(q, arg[p][1])
        /\ waitNotEmpty' \in NotifyOne(waitNotEmpty)
  /\ arg' = [arg EXCEPT ![p] = <<>>]
  /\ Return(p)
  /\ UNCHANGED <<ret, waitNotFull, clearing>>

(* A try_push that fails changes nothing. *)
TryPush(p) ==
  /\ pc[p] = "idle" /\ MutexFree
  /\ ~q.aborted /\ HasRoom(q, Capacity)
  /\ \E pkt \in Packets : q' = Enqueue(q, pkt)
  /\ waitNotEmpty' \in NotifyOne(waitNotEmpty)
  /\ UNCHANGED <<pc, arg, ret, waitNotFull, clearing>>

SignalEofStore(p) ==
  /\ pc[p] = "idle"
  /\ q' = SignalEof(q)
  /\ pc' = [pc EXCEPT ![p] = "eof_notify"]
  /\ UNCHANGED <<arg, ret, waitNotFull, waitNotEmpty, clearing>>

SignalEofNotify(p) ==
  /\ pc[p] = "eof_notify"
  /\ waitNotEmpty' = NotifyAll(waitNotEmpty)
  /\ Return(p)
  /\ UNCHANGED <<q, arg, ret, waitNotFull, clearing>>
-----------------------------------------------------------------------------
(* Consumers: the video decode thread (try_pop), the audio one (pop). *)

(* The common end of pop and try_pop: the result, the queue left behind,   *)
(* and not_full_.notify_one() when a packet left it.                       *)
FinishPop(c, status) ==
  /\ ret' = [ret EXCEPT ![c] =
               [status |-> status,
                packets |-> IF status = "Packet" THEN <<Head(q.items)>> ELSE <<>>]]
  /\ q' = AfterPop(q, status)
  /\ IF status = "Packet"
     THEN waitNotFull' \in NotifyOne(waitNotFull)
     ELSE UNCHANGED waitNotFull
  /\ Return(c)

PopCall(c) ==
  /\ pc[c] = "idle"
  /\ pc' = [pc EXCEPT ![c] = "pop"]
  /\ UNCHANGED <<q, arg, ret, waitNotFull, waitNotEmpty, clearing>>

PopReturn(c) ==
  /\ pc[c] = "pop" /\ Awake(c) /\ MutexFree
  /\ PopReady(q)
  /\ FinishPop(c, PopStatus(q))
  /\ UNCHANGED <<arg, waitNotEmpty, clearing>>

PopUnready(c) ==
  /\ pc[c] = "pop" /\ Awake(c) /\ MutexFree
  /\ ~PopReady(q)
  /\ pc' = [pc EXCEPT ![c] = "pop_block"]
  /\ UNCHANGED <<q, arg, ret, waitNotFull, waitNotEmpty, clearing>>

(* condition_variable::wait releases the mutex and sleeps in one step. *)
PopBlock(c) ==
  /\ pc[c] = "pop_block"
  /\ waitNotEmpty' = waitNotEmpty \cup {c}
  /\ pc' = [pc EXCEPT ![c] = "pop"]
  /\ UNCHANGED <<q, arg, ret, waitNotFull, clearing>>

TryPop(c) ==
  /\ pc[c] = "idle" /\ MutexFree
  /\ TryPopStatus(q) \notin {"Eof", "Empty"}
  /\ FinishPop(c, TryPopStatus(q))
  /\ UNCHANGED <<arg, waitNotEmpty, clearing>>

TryPopEmpty(c) ==
  /\ pc[c] = "idle" /\ MutexFree
  /\ TryPopStatus(q) \in {"Eof", "Empty"}
  /\ pc' = [pc EXCEPT ![c] = "try_pop_eof"]
  /\ UNCHANGED <<q, arg, ret, waitNotFull, waitNotEmpty, clearing>>

TryPopReadEof(c) ==
  /\ pc[c] = "try_pop_eof"
  /\ FinishPop(c, IF q.eof THEN "Eof" ELSE "Empty")
  /\ UNCHANGED <<arg, waitNotEmpty, clearing>>
-----------------------------------------------------------------------------
(* Any other thread: a seek (flush), a stop (clear_eof, abort), a reuse. *)

(* Mutant: not_empty_ is not notified. *)
WakeProducersOnly ==
  /\ waitNotFull' = NotifyAll(waitNotFull)
  /\ UNCHANGED waitNotEmpty

WakeEveryone ==
  /\ waitNotFull' = NotifyAll(waitNotFull)
  /\ waitNotEmpty' = NotifyAll(waitNotEmpty)

FlushQueue ==
  /\ MutexFree
  /\ q' = Flush(q)
  /\ WakeEveryone
  /\ UNCHANGED <<pc, arg, ret, clearing>>

(* Mutant: abort does not notify. *)
AbortQueueSilently ==
  /\ MutexFree
  /\ q' = Abort(q)
  /\ UNCHANGED <<pc, arg, ret, waitNotFull, waitNotEmpty, clearing>>

AbortQueue ==
  /\ MutexFree
  /\ q' = Abort(q)
  /\ WakeEveryone
  /\ UNCHANGED <<pc, arg, ret, clearing>>

ResetQueue ==
  /\ MutexFree
  /\ q' = Reset(q)
  /\ WakeEveryone
  /\ UNCHANGED <<pc, arg, ret, clearing>>

ClearEofStore ==
  /\ ~clearing
  /\ q' = [q EXCEPT !.eof = FALSE]
  /\ clearing' = TRUE
  /\ UNCHANGED <<pc, arg, ret, waitNotFull, waitNotEmpty>>

ClearEofFlushed ==
  /\ clearing /\ MutexFree
  /\ q' = [q EXCEPT !.flushed = FALSE]
  /\ clearing' = FALSE
  /\ UNCHANGED <<pc, arg, ret, waitNotFull, waitNotEmpty>>

(* condition_variable::wait may return without a notification; the         *)
(* predicate loop then runs again.                                         *)
SpuriousWake(t) ==
  /\ ~Awake(t)
  /\ waitNotFull' = waitNotFull \ {t}
  /\ waitNotEmpty' = waitNotEmpty \ {t}
  /\ UNCHANGED <<q, pc, arg, ret, clearing>>
-----------------------------------------------------------------------------
ProducerStep(p) ==
  \/ PushWait(p) \/ PushReturn(p) \/ SignalEofNotify(p)

ConsumerStep(c) ==
  \/ PopReturn(c) \/ PopUnready(c) \/ PopBlock(c) \/ TryPopReadEof(c)

QueueNext ==
  \/ \E p \in Producers :
       PushCall(p) \/ TryPush(p) \/ SignalEofStore(p) \/ ProducerStep(p)
  \/ \E c \in Consumers :
       PopCall(c) \/ TryPop(c) \/ TryPopEmpty(c) \/ ConsumerStep(c)
  \/ FlushQueue \/ AbortQueue \/ ResetQueue
  \/ ClearEofStore \/ ClearEofFlushed
  \/ \E t \in Threads : SpuriousWake(t)

QueueSpec == QueueInit /\ [][QueueNext]_queueVars

(* A thread inside a call runs on, and gets the mutex when it keeps being  *)
(* released: nobody holds it for longer than a critical section.           *)
Fairness ==
  /\ \A p \in Producers : SF_queueVars(ProducerStep(p))
  /\ \A c \in Consumers : SF_queueVars(ConsumerStep(c))

FairQueueSpec == QueueSpec /\ Fairness
-----------------------------------------------------------------------------
AwakePushers == {p \in Producers \ waitNotFull : pc[p] = "push"}

AwakePoppers == {c \in Consumers \ waitNotEmpty : pc[c] = "pop"}

(* The queue never holds more than capacity_ packets, whatever mix of      *)
(* woken and newly arrived producers races for the last slot               *)
(* (packet_queue.cpp push and try_push).                                   *)
CapacityRespected == Len(q.items) <= Capacity

(* A producer sleeps in push only while the free slots are all spoken for  *)
(* by producers already awake: notify_one per packet taken is enough, and  *)
(* neither flush, abort nor reset leaves a producer asleep on a queue it   *)
(* may push to (packet_queue.cpp push/pop/flush/abort/reset).              *)
NoStrandedPusher ==
  waitNotFull # {} =>
    /\ ~q.aborted
    /\ Capacity - Len(q.items) <= Cardinality(AwakePushers)

(* Likewise a consumer sleeps in pop only while every queued packet is     *)
(* spoken for, and never through a flush or an abort.                      *)
NoStrandedPopper ==
  waitNotEmpty # {} =>
    /\ ~q.aborted /\ ~q.flushed
    /\ Len(q.items) <= Cardinality(AwakePoppers)

(* What a consumer saw under the mutex stays true until it lets go of it:  *)
(* the queue is empty, and neither aborted nor flushed, although eof_ may  *)
(* change under its eyes (packet_queue.cpp pop and try_pop).               *)
SeenUnderMutex ==
  \A c \in Consumers :
    pc[c] \in MutexHeldAt => q.items = <<>> /\ ~q.aborted /\ ~q.flushed

(* pop and try_pop report Eof only when every packet pushed before the EOF *)
(* signal has left the queue, although try_pop reads eof_ after it looked  *)
(* at queue_ and signal_eof does not take the mutex.                       *)
EofMeansDrained ==
  [][\A c \in Consumers :
       pc[c] # "idle" /\ pc'[c] = "idle" /\ ret'[c].status = "Eof"
         => q.items = <<>>]_queueVars

(* Whatever the threads do, the queue is a bounded FIFO to its two ends:   *)
(* no packet is duplicated, reordered, or lost except by flush or reset.   *)
Fifo == INSTANCE BoundedFifo
          WITH contents <- q.items, got <- [c \in Consumers |-> ret[c].packets]

ImplementsFifo == Fifo!Spec

(* After abort() every thread blocked in push or pop returns, unless the   *)
(* queue is reset first: DecodeThread::stop and DemuxThread::stop join     *)
(* their thread on the strength of it.                                     *)
AbortUnblocks ==
  \A t \in Threads :
    (q.aborted /\ pc[t] # "idle") ~> (pc[t] = "idle" \/ ~q.aborted)
=============================================================================

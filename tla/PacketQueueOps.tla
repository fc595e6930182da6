--------------------------- MODULE PacketQueueOps ---------------------------
(***************************************************************************)
(* The value of one src/native/media/packet_queue.h PacketQueue, and what  *)
(* each of its critical sections computes.  The mutex, the two condition   *)
(* variables and the threads are added by PacketQueue; the pipeline        *)
(* modules, in which a critical section is one step, use these operators   *)
(* directly.                                                               *)
(***************************************************************************)
EXTENDS Integers, Sequences

(* PacketPopStatus *)
PopStatuses == {"Packet", "Flushed", "Eof", "Aborted", "Empty"}

(* queue_, aborted_, flushed_ and eof_ of a queue of packets of Packets. *)
QueueType(Packets) ==
  [items : Seq(Packets), aborted : BOOLEAN, flushed : BOOLEAN, eof : BOOLEAN]

NewQueue == [items |-> <<>>, aborted |-> FALSE, flushed |-> FALSE, eof |-> FALSE]

HasRoom(q, capacity) == Len(q.items) < capacity

(* The predicate push waits for. *)
PushReady(q, capacity) == HasRoom(q, capacity) \/ q.aborted

(* The predicate pop waits for. *)
PopReady(q) == q.items # <<>> \/ q.aborted \/ q.flushed \/ q.eof

(* The body push and try_push share once they may insert. *)
Enqueue(q, p) == [q EXCEPT !.items = Append(@, p), !.flushed = FALSE]

(* What pop returns when its predicate holds: an aborted queue still hands *)
(* out the packets it has.                                                 *)
PopStatus(q) ==
  CASE q.items # <<>>                -> "Packet"
    [] q.items = <<>> /\ q.aborted   -> "Aborted"
    [] q.items = <<>> /\ ~q.aborted /\ q.flushed -> "Flushed"
    [] OTHER                         -> "Eof"

(* What try_pop returns: an aborted queue hands out nothing. *)
TryPopStatus(q) ==
  CASE q.aborted                                  -> "Aborted"
    [] ~q.aborted /\ q.items # <<>>               -> "Packet"
    [] ~q.aborted /\ q.items = <<>> /\ q.flushed  -> "Flushed"
    [] OTHER                                      -> IF q.eof THEN "Eof" ELSE "Empty"

(* Mutant: the newest packet is taken, queue_.back() for queue_.front(). *)
AfterPopBack(q, status) ==
  CASE status = "Packet"  -> [q EXCEPT !.items = SubSeq(@, 1, Len(@) - 1)]
    [] status = "Flushed" -> [q EXCEPT !.flushed = FALSE]
    [] OTHER              -> q

(* The queue a pop or try_pop with that status leaves behind. *)
AfterPop(q, status) ==
  CASE status = "Packet"  -> [q EXCEPT !.items = Tail(@)]
    [] status = "Flushed" -> [q EXCEPT !.flushed = FALSE]
    [] OTHER              -> q

Flush(q) == [q EXCEPT !.items = <<>>, !.flushed = TRUE, !.eof = FALSE]

Abort(q) == [q EXCEPT !.aborted = TRUE]

Reset(q) == NewQueue

SignalEof(q) == [q EXCEPT !.eof = TRUE]
=============================================================================

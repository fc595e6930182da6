---------------------------- MODULE BoundedFifo ----------------------------
(***************************************************************************)
(* What a packet queue promises its two ends: packets come out in the      *)
(* order they went in, each at most once, at most Capacity of them are     *)
(* kept, and a packet that does not come out went with everything before   *)
(* it and after it that was in the queue at that moment.                   *)
(***************************************************************************)
EXTENDS Naturals, Sequences

CONSTANTS Consumers, Packets, Capacity

VARIABLES
  contents,  (* the packets inside *)
  got        (* what each consumer's last call took: one packet or none *)

Init ==
  /\ contents = <<>>
  /\ got = [c \in Consumers |-> <<>>]

Put(p) ==
  /\ Len(contents) < Capacity
  /\ contents' = Append(contents, p)
  /\ UNCHANGED got

Take(c) ==
  /\ contents # <<>>
  /\ got' = [got EXCEPT ![c] = <<Head(contents)>>]
  /\ contents' = Tail(contents)

Miss(c) ==
  /\ got' = [got EXCEPT ![c] = <<>>]
  /\ UNCHANGED contents

Discard ==
  /\ contents' = <<>>
  /\ UNCHANGED got

Next ==
  \/ \E p \in Packets : Put(p)
  \/ \E c \in Consumers : Take(c) \/ Miss(c)
  \/ Discard

Spec == Init /\ [][Next]_<<contents, got>>
=============================================================================

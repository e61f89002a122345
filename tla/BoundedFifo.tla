---------------------------- MODULE BoundedFifo ----------------------------
(***************************************************************************)
(* What the single-producer/single-consumer rings of lcr/lockfree promise  *)
(* their callers: a bounded first-in first-out buffer.  A producer writes  *)
(* a batch and appends it when there is room for all of it, or gives it up; *)
(* the consumer takes a batch from the front; a quiescent owner may empty  *)
(* the buffer.  Nothing is lost, duplicated, reordered or overwritten.     *)
(***************************************************************************)
EXTENDS Naturals, Sequences

CONSTANTS Value,    \* the values a caller stores
          Limit     \* the number of values the buffer holds at most

VARIABLES q,        \* the committed values, oldest first
          offer,    \* the values the producer has written and not committed
          out       \* the batch the last release handed to the consumer

vars == <<q, offer, out>>

Init == q = <<>> /\ offer = <<>> /\ out = <<>>

Write(v) ==
  /\ offer' = Append(offer, v)
  /\ UNCHANGED <<q, out>>

Push ==
  /\ Len(q) + Len(offer) <= Limit
  /\ q' = q \o offer
  /\ offer' = <<>>
  /\ out' = out

Discard == offer' = <<>> /\ UNCHANGED <<q, out>>

Pop(n) ==
  /\ n <= Len(q)
  /\ out' = SubSeq(q, 1, n)
  /\ q' = SubSeq(q, n + 1, Len(q))
  /\ offer' = offer

Clear == q' = <<>> /\ UNCHANGED <<offer, out>>

Next ==
  \/ \E v \in Value : Write(v)
  \/ Push
  \/ Discard
  \/ \E n \in 1 .. Limit : Pop(n)
  \/ Clear

Spec == Init /\ [][Next]_vars

=============================================================================

------------------------------ MODULE FanoutRing ------------------------------
(***************************************************************************)
(* lcr::lockfree::spmc_fanout_ring: one producer, several consumers that   *)
(* each receive every item.  head_ and the consumers' tails count items;   *)
(* the producer scans the tails for the slowest consumer before it         *)
(* overwrites a cell.  The item pushed when head_ is h is the number h.    *)
(***************************************************************************)
EXTENDS Integers, FiniteSets

CONSTANTS Capacity,      \* a power of two, at least 2
          MaxConsumers,  \* the tails the ring has room for
          MaxItems       \* bound: items pushed in a behaviour

(* A second bound: at most one registration beyond MaxConsumers.           *)

VARIABLES buffer, head, tails,
          consumer_count,
          pc,        \* where each consumer is: in register_consumer() or pop()
          out,       \* the head it loaded, or the item it moved out
          producer,  \* where the producer is in push()
          scan,      \* the next tail min_consumer_tail() reads
          count,     \* the consumer_count_ it loaded
          min_tail   \* the least tail it has read; Infinite: none

vars == <<buffer, head, tails, consumer_count, pc, out, producer, scan, count, min_tail>>

Id == 0 .. MaxConsumers - 1

Infinite == -1

Masked(i) == i % Capacity

Init ==
    /\ buffer = [i \in 0 .. Capacity - 1 |-> Infinite]
    /\ head = 0
    /\ tails = [c \in Id |-> 0]
    /\ consumer_count = 0
    /\ pc = [c \in Id |-> "absent"]
    /\ out = [c \in Id |-> 0]
    /\ producer = "idle" /\ scan = 0 /\ count = 0 /\ min_tail = Infinite

-----------------------------------------------------------------------------
(* register_consumer(): the id, then the head, then the tail.              *)

(* Beyond MaxConsumers the call fails, but the consumer is counted.        *)
register_id ==
    /\ consumer_count <= MaxConsumers
    /\ consumer_count' = consumer_count + 1
    /\ pc' = IF consumer_count < MaxConsumers
             THEN [pc EXCEPT ![consumer_count] = "register"] ELSE pc
    /\ UNCHANGED <<buffer, head, tails, out, producer, scan, count, min_tail>>

register_head(c) ==
    /\ pc[c] = "register"
    /\ out' = [out EXCEPT ![c] = head]
    /\ pc' = [pc EXCEPT ![c] = "store"]
    /\ UNCHANGED <<buffer, head, tails, consumer_count, producer, scan, count, min_tail>>

register_tail(c) ==
    /\ pc[c] = "store"
    /\ tails' = [tails EXCEPT ![c] = out[c]]
    /\ pc' = [pc EXCEPT ![c] = "idle"]
    /\ UNCHANGED <<buffer, head, consumer_count, out, producer, scan, count, min_tail>>

-----------------------------------------------------------------------------
(* push(): min_consumer_tail() reads the tails one by one.                 *)

push_begin ==
    /\ producer = "idle" /\ head < MaxItems
    /\ producer' = "scan" /\ scan' = 0 /\ count' = consumer_count
    /\ min_tail' = Infinite
    /\ UNCHANGED <<buffer, head, tails, consumer_count, pc, out>>

(* The scan trusts the count: past the last tail it reads any value.       *)
push_scan ==
    /\ producer = "scan" /\ scan < count
    /\ scan' = scan + 1
    /\ \E t \in IF scan \in Id THEN {tails[scan]} ELSE 0 .. head :
          min_tail' = IF min_tail = Infinite \/ t < min_tail THEN t ELSE min_tail
    /\ UNCHANGED <<buffer, head, tails, consumer_count, pc, out, producer, count>>

(* A mutant: the ring takes one item more than it has cells.               *)
AdmitOneMore ==
    /\ producer = "scan" /\ scan = count
    /\ LET least == IF min_tail = Infinite THEN head ELSE min_tail
       IN  producer' = IF head - least > Capacity THEN "idle" ELSE "write"
    /\ UNCHANGED <<buffer, head, tails, consumer_count, pc, out, scan, count, min_tail>>

(* With no consumer the ring is never full.                                *)
push_admit ==
    /\ producer = "scan" /\ scan = count
    /\ LET least == IF min_tail = Infinite THEN head ELSE min_tail
       IN  producer' = IF head - least >= Capacity THEN "idle" ELSE "write"
    /\ UNCHANGED <<buffer, head, tails, consumer_count, pc, out, scan, count, min_tail>>

push_write ==
    /\ producer = "write"
    /\ buffer' = [buffer EXCEPT ![Masked(head)] = head]
    /\ producer' = "publish"
    /\ UNCHANGED <<head, tails, consumer_count, pc, out, scan, count, min_tail>>

push_publish ==
    /\ producer = "publish"
    /\ head' = head + 1
    /\ producer' = "idle"
    /\ UNCHANGED <<buffer, tails, consumer_count, pc, out, scan, count, min_tail>>

-----------------------------------------------------------------------------
(* pop(): the emptiness test, the move, the store of the tail.             *)

pop_test(c) ==
    /\ pc[c] = "idle" /\ tails[c] # head
    /\ pc' = [pc EXCEPT ![c] = "move"]
    /\ UNCHANGED <<buffer, head, tails, consumer_count, out, producer, scan, count, min_tail>>

pop_move(c) ==
    /\ pc[c] = "move"
    /\ out' = [out EXCEPT ![c] = buffer[Masked(tails[c])]]
    /\ pc' = [pc EXCEPT ![c] = "advance"]
    /\ UNCHANGED <<buffer, head, tails, consumer_count, producer, scan, count, min_tail>>

pop_advance(c) ==
    /\ pc[c] = "advance"
    /\ tails' = [tails EXCEPT ![c] = tails[c] + 1]
    /\ pc' = [pc EXCEPT ![c] = "idle"]
    /\ UNCHANGED <<buffer, head, consumer_count, out, producer, scan, count, min_tail>>

Producer == push_begin \/ push_scan \/ push_admit \/ push_write \/ push_publish

ConsumerStep(c) ==
    \/ register_head(c) \/ register_tail(c)
    \/ pop_test(c) \/ pop_move(c) \/ pop_advance(c)

Next == register_id \/ Producer \/ \E c \in Id : ConsumerStep(c)

Spec == Init /\ [][Next]_vars

-----------------------------------------------------------------------------

(* Every consumer receives every item pushed since it registered, in the   *)
(* order of the pushes: what a pop moves out is the item at its tail, even *)
(* for a consumer that registers while the producer is pushing.            *)
EachReceivesAll ==
    \A c \in Id : pc[c] = "advance" => out[c] = tails[c]

(* The items a consumer has not read are all still in the ring.            *)
NothingOverwritten ==
    \A c \in Id : pc[c] \in {"idle", "move", "advance"} =>
        \A i \in tails[c] .. head - 1 : buffer[Masked(i)] = i

=============================================================================

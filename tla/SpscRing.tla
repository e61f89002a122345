------------------------------ MODULE SpscRing ------------------------------
(***************************************************************************)
(* The single-producer/single-consumer ring of lcr/lockfree: spsc_core     *)
(* with the value interface of spsc_queue and the zero-copy, two-phase and *)
(* batch interface of spsc_ring.                                           *)
(*                                                                         *)
(* Each side owns one index, reads the other side's index only when its    *)
(* cached copy says that the operation cannot succeed, and publishes its   *)
(* own index with a release store.  A step below contains at most one      *)
(* access to the other side's index or to one buffer cell, so every        *)
(* interleaving of the two threads that the release/acquire pairs allow is *)
(* a behaviour.  An operation on one slot is the batch operation with      *)
(* n = 1 (is_full(h) is has_free_slots(h, 1) negated, and is_empty         *)
(* likewise); spsc_queue::push is acquire, write, commit and               *)
(* spsc_queue::pop is peek, read, release.                                 *)
(***************************************************************************)
EXTENDS Integers, Sequences

CONSTANTS Capacity,   \* template parameter: number of buffer cells
          Value,      \* what a cell can hold
          MaxBatch    \* largest batch a caller asks for

\* The code asserts a power of two, which makes "& MASK" the remainder; the
\* algorithm needs no more than two cells.
ASSUME CapacityAssumption == Capacity \in Nat /\ Capacity >= 2
ASSUME MaxBatchAssumption == MaxBatch \in Nat \ {0}

VARIABLES
  buffer,        \* buffer_
  head,          \* head_.index
  head_cached,   \* head_.cached_opposite_index: the producer's copy of tail
  tail,          \* tail_.index
  tail_cached,   \* tail_.cached_opposite_index: the consumer's copy of head
  acquired,      \* number of slots the producer holds, 0 when it holds none
  staged,        \* values the producer has written into them, in order
  peeked,        \* number of slots the consumer holds
  read,          \* values the consumer has read from them, in order
  out            \* the batch of the last completed release

pvars == <<head, head_cached, acquired, staged>>
cvars == <<tail, tail_cached, peeked, read, out>>
vars  == <<buffer, pvars, cvars>>

Cells == 0 .. Capacity - 1

\* x & MASK
Masked(x) == x % Capacity

\* used(): committed slots between two indices.
Used(h, t) == Masked(h - t)

\* (cached - head - 1) & MASK: slots the producer may still fill.
Free(h, t) == Masked(t - h - 1)

Init ==
  /\ buffer \in [Cells -> Value]
  /\ head = 0 /\ head_cached = 0 /\ acquired = 0 /\ staged = <<>>
  /\ tail = 0 /\ tail_cached = 0 /\ peeked = 0   /\ read = <<>>
  /\ out = <<>>

-----------------------------------------------------------------------------
\* Producer

\* The cached index decides when it shows room; otherwise it is refreshed.
RefreshTail(n) == IF Free(head, head_cached) < n THEN tail ELSE head_cached

has_free_slots(n) == Free(head, RefreshTail(n)) >= n

acquire_producer_slots(n) ==
  /\ acquired = 0
  /\ head_cached' = RefreshTail(n)
  /\ acquired' = IF has_free_slots(n) THEN n ELSE 0
  /\ UNCHANGED <<buffer, head, staged, cvars>>

write_producer_slot(v) ==
  /\ Len(staged) < acquired
  /\ buffer' = [buffer EXCEPT ![Masked(head + Len(staged))] = v]
  /\ staged' = Append(staged, v)
  /\ UNCHANGED <<head, head_cached, acquired, cvars>>

\* Mutant: head is published before the slots are written.
CommitBeforeWrite ==
  /\ acquired > 0
  /\ head' = Masked(head + acquired)
  /\ acquired' = 0
  /\ staged' = <<>>
  /\ UNCHANGED <<buffer, head_cached, cvars>>

commit_producer_slots ==
  /\ acquired > 0
  /\ Len(staged) = acquired
  /\ head' = Masked(head + acquired)
  /\ acquired' = 0
  /\ staged' = <<>>
  /\ UNCHANGED <<buffer, head_cached, cvars>>

discard_producer_slot ==
  /\ acquired > 0
  /\ acquired' = 0
  /\ staged' = <<>>
  /\ UNCHANGED <<buffer, head, head_cached, cvars>>

-----------------------------------------------------------------------------
\* Consumer

\* Mutant: the stale copy of head is never refreshed.
NeverRefreshHead(n) == tail_cached

RefreshHead(n) == IF Used(tail_cached, tail) < n THEN head ELSE tail_cached

has_available(n) == Used(RefreshHead(n), tail) >= n

peek_consumer_slots(n) ==
  /\ peeked = 0
  /\ tail_cached' = RefreshHead(n)
  /\ peeked' = IF has_available(n) THEN n ELSE 0
  /\ UNCHANGED <<buffer, pvars, tail, read, out>>

read_consumer_slot ==
  /\ Len(read) < peeked
  /\ read' = Append(read, buffer[Masked(tail + Len(read))])
  /\ UNCHANGED <<buffer, pvars, tail, tail_cached, peeked, out>>

release_consumer_slots ==
  /\ peeked > 0
  /\ Len(read) = peeked
  /\ tail' = Masked(tail + peeked)
  /\ peeked' = 0
  /\ read' = <<>>
  /\ out' = read
  /\ UNCHANGED <<buffer, pvars, tail_cached>>

-----------------------------------------------------------------------------
\* Mutant: the cached copies survive clear().
ClearKeepsCaches ==
  /\ acquired = 0 /\ peeked = 0
  /\ head' = 0 /\ tail' = 0
  /\ UNCHANGED <<buffer, head_cached, tail_cached, acquired, staged, peeked, read, out>>

\* clear() is called by the owner while neither side is inside an operation:
\* Connection::create_transport_ runs it when no receive thread exists.
clear ==
  /\ acquired = 0 /\ peeked = 0
  /\ head' = 0 /\ head_cached' = 0
  /\ tail' = 0 /\ tail_cached' = 0
  /\ UNCHANGED <<buffer, acquired, staged, peeked, read, out>>

Batch == 1 .. MaxBatch

Producer ==
  \/ \E n \in Batch : acquire_producer_slots(n)
  \/ \E v \in Value : write_producer_slot(v)
  \/ commit_producer_slots
  \/ discard_producer_slot

Consumer ==
  \/ \E n \in Batch : peek_consumer_slots(n)
  \/ read_consumer_slot
  \/ release_consumer_slots

Next == Producer \/ Consumer \/ clear

Spec == Init /\ [][Next]_vars

\* The receive thread loops on acquire_slot_ and the poll thread loops on peek
\* and release, so a side that can take a step of its own eventually does.
\* Nothing obliges the producer to commit or the owner to clear.
FairSpec ==
  /\ Spec
  /\ WF_vars(acquire_producer_slots(1))
  /\ WF_vars(peek_consumer_slots(1))
  /\ WF_vars(read_consumer_slot)
  /\ WF_vars(release_consumer_slots)

-----------------------------------------------------------------------------
\* Properties

\* The values of b from index t up to index h.
Slots(b, h, t) == [i \in 1 .. Used(h, t) |-> b[Masked(t + i - 1)]]

\* The committed values, oldest first.
Contents == Slots(buffer, head, tail)

TypeOK ==
  /\ buffer \in [Cells -> Value]
  /\ head \in Cells /\ head_cached \in Cells
  /\ tail \in Cells /\ tail_cached \in Cells
  /\ acquired \in 0 .. Capacity - 1 /\ staged \in Seq(Value)
  /\ peeked \in 0 .. Capacity - 1   /\ read \in Seq(Value)
  /\ out \in Seq(Value)

\* No data race on a cell: the slots acquire_producer_slot handed to the
\* producer are never among the committed slots, which include every slot
\* that peek_consumer_slot handed to the consumer.
SlotsDisjoint ==
  /\ peeked <= Used(head, tail)
  /\ \A i \in 0 .. acquired - 1 : \A j \in 0 .. Used(head, tail) - 1 :
       Masked(head + i) # Masked(tail + j)

\* A cached index is never ahead of the index it copies: what the producer
\* believes free is free, and what the consumer believes committed is
\* committed, however stale cached_opposite_index is.
CachesConservative ==
  /\ Free(head, head_cached) <= Free(head, tail)
  /\ Used(tail_cached, tail) <= Used(head, tail)

\* The slots a side holds are slots its own cached index vouches for.
HeldSlotsVouched ==
  /\ acquired <= Free(head, head_cached)
  /\ peeked <= Used(tail_cached, tail)

\* What the producer wrote into its slots is still there when it commits.
StagedIntact ==
  /\ Len(staged) <= acquired
  /\ \A i \in 1 .. Len(staged) : buffer[Masked(head + i - 1)] = staged[i]

\* What the consumer has read is still the front of the ring when it releases.
ReadIsFront ==
  /\ Len(read) <= peeked
  /\ \A i \in 1 .. Len(read) : buffer[Masked(tail + i - 1)] = read[i]

\* The inductive invariant: no step of either side, in any order, lets a
\* stale cached_opposite_index hand out a slot the other side still uses.
RingInv ==
  /\ TypeOK
  /\ CachesConservative
  /\ HeldSlotsVouched
  /\ StagedIntact
  /\ ReadIsFront

\* The ring implements a bounded FIFO of Capacity - 1 values.
Fifo == INSTANCE BoundedFifo WITH q <- Contents, offer <- staged, Limit <- Capacity - 1

IsFifo == Fifo!Spec

\* A committed value does not stay in the ring while the consumer polls: the
\* tail leaves its cell (or the owner clears the ring).
CommittedIsConsumed ==
  \A i \in Cells : (tail = i /\ head # i) ~> (tail # i \/ head = tail)

=============================================================================

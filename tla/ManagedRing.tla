----------------------------- MODULE ManagedRing -----------------------------
(***************************************************************************)
(* The receive ring of the WebSocket engine: managed_spsc_ring over slots   *)
(* that hold a short message in place and move a longer one to a block of   *)
(* the memory pool.  The producer writes a message into its slot chunk by   *)
(* chunk, reserving room first, and commits or discards the slot; the       *)
(* consumer reads the oldest slot, resets it, which returns its block, and  *)
(* only then advances.  Slots are reused, and so are blocks, so a slot that *)
(* was let go too early would show in somebody else's message.              *)
(*                                                                         *)
(* The ring's indices (SpscRing) and the pool's list (BlockPool) have       *)
(* modules of their own; here each of their operations is one step, and the *)
(* steps in between are what this module is about.                          *)
(***************************************************************************)
EXTENDS Naturals, Sequences, FiniteSets

CONSTANTS
    Capacity,        \* slots of the ring; one stays free
    InlineSize,      \* bytes a slot holds in place
    BlockSize,       \* capacity of a pool block
    MaxReserveSize,  \* the slot's limit
    Block,           \* the pool's blocks
    None,            \* nullptr
    Byte             \* what a byte may be

VARIABLES
    slots,     \* per slot: external_ and size_
    arena,     \* the bytes in place, all slots'
    memory,    \* per block: its bytes
    pool,      \* the blocks in the pool
    head, tail,\* the ring's indices
    producer,  \* "idle", "owns", "ready" (reserve succeeded), "released"
    room,      \* bytes that the last successful reserve promised
    consumer,  \* "idle", "peeked", "released", "reset"
    written,   \* what the producer wrote into its slot
    queued     \* the committed messages, oldest first

ringVars == <<slots, arena, memory, pool, head, tail, producer, room, consumer, written, queued>>

Slot == 0..(Capacity - 1)

Succ(i) == (i + 1) % Capacity

EmptySlot == [external |-> None, size |-> 0]

Init ==
    /\ slots = [i \in Slot |-> EmptySlot]
    /\ arena = [n \in 0..(Capacity * InlineSize - 1) |-> CHOOSE b \in Byte : TRUE]
    /\ memory = [b \in Block |-> [n \in 1..BlockSize |-> CHOOSE c \in Byte : TRUE]]
    /\ pool = Block
    /\ head = 0 /\ tail = 0
    /\ producer = "idle" /\ room = 0 /\ consumer = "idle"
    /\ written = << >> /\ queued = << >>

---------------------------------------------------------------------------
(* managed_slot.  Slot i's bytes in place start at its chunk of the arena.  *)
chunk(i) == i * InlineSize

capacity(i) == IF slots[i].external # None THEN BlockSize ELSE InlineSize

data(i) ==
    [n \in 1..slots[i].size |->
        IF slots[i].external # None THEN memory[slots[i].external][n] ELSE arena[chunk(i) + n - 1]]

(* reserve(): what it answers for len more bytes, and whether it takes a     *)
(* block for it.  A block it took stays with the slot even when it is still  *)
(* too small.                                                               *)
Required(i, len) == slots[i].size + len

Promotes(i, len) ==
    /\ Required(i, len) <= MaxReserveSize
    /\ Required(i, len) > capacity(i)
    /\ Required(i, len) > InlineSize
    /\ slots[i].external = None
    /\ pool # {}

Granted(i, len) ==
    /\ Required(i, len) <= MaxReserveSize
    /\ \/ Required(i, len) <= capacity(i)
       \/ Promotes(i, len) /\ Required(i, len) <= BlockSize

\* Mutant: the block is taken and the bytes stay behind.
promote_without_copy(i, b) ==
    /\ slots' = [slots EXCEPT ![i].external = b]
    /\ pool' = pool \ {b}
    /\ UNCHANGED memory

(* promote_if_needed_: the bytes in place move to the block.                *)
promote(i, b) ==
    /\ memory' = [memory EXCEPT ![b] = [n \in 1..BlockSize |->
                     IF n <= slots[i].size THEN arena[chunk(i) + n - 1] ELSE @[n]]]
    /\ slots' = [slots EXCEPT ![i].external = b]
    /\ pool' = pool \ {b}

---------------------------------------------------------------------------
(* The producer.                                                           *)
acquire_producer_slot ==
    /\ producer = "idle"
    /\ Succ(head) # tail
    /\ producer' = "owns"
    /\ UNCHANGED <<slots, arena, memory, pool, head, tail, room, consumer, written, queued>>

reserve(len) ==
    /\ producer = "owns"
    /\ IF Promotes(head, len)
       THEN \E b \in pool : promote(head, b)
       ELSE UNCHANGED <<slots, memory, pool>>
    /\ IF Granted(head, len)
       THEN producer' = "ready" /\ room' = len
       ELSE UNCHANGED <<producer, room>>
    /\ UNCHANGED <<arena, head, tail, consumer, written, queued>>

(* The backend writes at write_ptr(); commit() moves the cursor.  Bound: a   *)
(* byte differs from the one before it, so that none may change places.     *)
write_and_commit(byte) ==
    LET n == slots[head].size + 1
        b == slots[head].external
    IN  /\ producer = "ready"
        /\ room > 0
        /\ written # << >> => byte # written[Len(written)]
        /\ IF b # None
           THEN memory' = [memory EXCEPT ![b][n] = byte] /\ UNCHANGED arena
           ELSE arena' = [arena EXCEPT ![chunk(head) + n - 1] = byte] /\ UNCHANGED memory
        /\ slots' = [slots EXCEPT ![head].size = n]
        /\ written' = Append(written, byte)
        /\ room' = room - 1
        /\ producer' = IF room = 1 THEN "owns" ELSE "ready"
        /\ UNCHANGED <<pool, head, tail, consumer, queued>>

(* The message is complete: the slot becomes the consumer's.                *)
commit_producer_slot ==
    /\ producer \in {"owns", "ready"}
    /\ queued' = Append(queued, written)
    /\ written' = << >>
    /\ head' = Succ(head)
    /\ producer' = "idle" /\ room' = 0
    /\ UNCHANGED <<slots, arena, memory, pool, tail, consumer>>

(* The slot is given up: its block returns to the pool, then it is cleared.  *)
DiscardBlock ==
    /\ producer \in {"owns", "ready"}
    /\ pool' = pool \cup ({slots[head].external} \ {None})
    /\ producer' = "released" /\ room' = 0
    /\ UNCHANGED <<slots, arena, memory, head, tail, consumer, written, queued>>

DiscardSlot ==
    /\ producer = "released"
    /\ slots' = [slots EXCEPT ![head] = EmptySlot]
    /\ written' = << >>
    /\ producer' = "idle"
    /\ UNCHANGED <<arena, memory, pool, head, tail, room, consumer, queued>>

discard_producer_slot == DiscardBlock \/ DiscardSlot

---------------------------------------------------------------------------
(* The consumer.                                                           *)
peek_consumer_slot ==
    /\ consumer = "idle"
    /\ tail # head
    /\ consumer' = "peeked"
    /\ UNCHANGED <<slots, arena, memory, pool, head, tail, producer, room, written, queued>>

(* reset(): the block first, then the slot's fields.                        *)
ReleaseBlock ==
    /\ consumer = "peeked"
    /\ pool' = pool \cup ({slots[tail].external} \ {None})
    /\ consumer' = "released"
    /\ UNCHANGED <<slots, arena, memory, head, tail, producer, room, written, queued>>

reset ==
    /\ consumer = "released"
    /\ slots' = [slots EXCEPT ![tail] = EmptySlot]
    /\ consumer' = "reset"
    /\ UNCHANGED <<arena, memory, pool, head, tail, producer, room, written, queued>>

Advance ==
    /\ consumer = "reset"
    /\ tail' = Succ(tail)
    /\ queued' = Tail(queued)
    /\ consumer' = "idle"
    /\ UNCHANGED <<slots, arena, memory, pool, head, producer, room, written>>

release_consumer_slot == ReleaseBlock \/ reset \/ Advance

(* clear(), with both sides at rest: every queued slot is reset and passed.  *)
clear ==
    LET Passed == {i \in Slot : \E k \in 0..(Len(queued) - 1) : i = (tail + k) % Capacity}
    IN  /\ producer = "idle" /\ consumer = "idle" /\ queued # << >>
        /\ pool' = pool \cup ({slots[i].external : i \in Passed} \ {None})
        /\ slots' = [i \in Slot |-> IF i \in Passed THEN EmptySlot ELSE slots[i]]
        /\ tail' = head
        /\ queued' = << >>
        /\ UNCHANGED <<arena, memory, head, producer, room, consumer, written>>

Next ==
    \/ acquire_producer_slot
    \/ \E len \in 1..MaxReserveSize : reserve(len)
    \/ \E byte \in Byte : write_and_commit(byte)
    \/ commit_producer_slot
    \/ discard_producer_slot
    \/ peek_consumer_slot
    \/ release_consumer_slot
    \/ clear

Spec == Init /\ [][Next]_ringVars

---------------------------------------------------------------------------
TypeOK ==
    /\ \A i \in Slot : slots[i].external \in Block \cup {None} /\ slots[i].size <= MaxReserveSize
    /\ pool \subseteq Block
    /\ head \in Slot /\ tail \in Slot

Waiting == {(tail + k) % Capacity : k \in 0..(Len(queued) - 1)}

(* A message is in its slot byte for byte as it was written, from the first  *)
(* chunk through promotion to the moment the consumer lets go of it,         *)
(* whatever is written into other slots and other blocks meanwhile.          *)
MessagesIntact ==
    /\ \A k \in 1..Len(queued) :
          (k = 1 => consumer \in {"idle", "peeked"}) => data((tail + k - 1) % Capacity) = queued[k]
    /\ producer \in {"owns", "ready"} => data(head) = written

(* A block belongs to the pool or to one slot, and a slot that is neither    *)
(* queued nor being written holds none: long messages cost no block for      *)
(* good, also when they are discarded or turn out too large.                *)
BlocksReturned ==
    LET holds(i) == /\ slots[i].external # None
                    /\ ~(i = tail /\ consumer = "released")
                    /\ ~(i = head /\ producer = "released")
        holders  == {i \in Slot : holds(i)}
    IN  /\ \A i, j \in holders : slots[i].external = slots[j].external => i = j
        /\ \A i \in holders : slots[i].external \notin pool
        /\ Cardinality(pool) + Cardinality(holders) = Cardinality(Block)
        /\ holders \subseteq Waiting \cup (IF producer = "idle" THEN {} ELSE {head})
=============================================================================

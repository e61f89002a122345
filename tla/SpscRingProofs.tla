--------------------------- MODULE SpscRingProofs ---------------------------
(***************************************************************************)
(* Proofs about SpscRing for every capacity, every set of values and every *)
(* batch size: the slots of the two sides never overlap, and the ring      *)
(* implements the bounded FIFO.                                            *)
(***************************************************************************)
EXTENDS SpscRing, SequenceTheorems, TLAPS

-----------------------------------------------------------------------------
\* Arithmetic of the masked indices.

\* x & MASK for every x that the index computations of spsc_core produce.
LEMMA MaskedCases ==
  ASSUME NEW x \in Int, -Capacity <= x, x < 2 * Capacity
  PROVE  /\ x < 0 => Masked(x) = x + Capacity
         /\ (0 <= x /\ x < Capacity) => Masked(x) = x
         /\ Capacity <= x => Masked(x) = x - Capacity
         /\ Masked(x) \in Cells
<1>1. CASE x < 0
  BY <1>1, CapacityAssumption DEF Masked, Cells
<1>2. CASE 0 <= x /\ x < Capacity
  BY <1>2, CapacityAssumption DEF Masked, Cells
<1>3. CASE Capacity <= x
  BY <1>3, CapacityAssumption DEF Masked, Cells
<1> QED
  BY <1>1, <1>2, <1>3, CapacityAssumption

\* used() and the producer's free count always add up to Capacity - 1.
LEMMA UsedPlusFree ==
  ASSUME NEW h \in Cells, NEW t \in Cells
  PROVE  /\ Used(h, t) = IF h < t THEN h - t + Capacity ELSE h - t
         /\ Free(h, t) = Capacity - 1 - Used(h, t)
         /\ Used(h, t) \in Cells /\ Free(h, t) \in Cells
<1>1. h \in Int /\ t \in Int /\ 0 <= h /\ h < Capacity /\ 0 <= t /\ t < Capacity
  BY CapacityAssumption DEF Cells
<1>2. Used(h, t) = IF h < t THEN h - t + Capacity ELSE h - t
  <2>1. /\ h - t < 0 => Masked(h - t) = h - t + Capacity
        /\ (0 <= h - t /\ h - t < Capacity) => Masked(h - t) = h - t
    BY <1>1, CapacityAssumption, MaskedCases
  <2> QED
    BY <1>1, <2>1, CapacityAssumption DEF Used
<1>3. Free(h, t) = IF h < t THEN t - h - 1 ELSE t - h - 1 + Capacity
  <2>1. /\ t - h - 1 < 0 => Masked(t - h - 1) = t - h - 1 + Capacity
        /\ (0 <= t - h - 1 /\ t - h - 1 < Capacity) => Masked(t - h - 1) = t - h - 1
    BY <1>1, CapacityAssumption, MaskedCases
  <2> QED
    BY <1>1, <2>1, CapacityAssumption DEF Free
<1> QED
  BY <1>1, <1>2, <1>3, CapacityAssumption DEF Cells

\* Advancing an index that stays within the buffer, one lap at most.
LEMMA MaskedAdvance ==
  ASSUME NEW h \in Cells, NEW n \in Cells
  PROVE  /\ Masked(h + n) = IF h + n < Capacity THEN h + n ELSE h + n - Capacity
         /\ Masked(h + n) \in Cells
<1>1. h \in Int /\ n \in Int /\ 0 <= h + n /\ h + n < 2 * Capacity /\ -Capacity <= h + n
  BY CapacityAssumption DEF Cells
<1> QED
  BY <1>1, MaskedCases, CapacityAssumption

\* commit_producer_slot moves a free slots into use.
LEMMA AdvanceHead ==
  ASSUME NEW h \in Cells, NEW t \in Cells, NEW a \in Cells, a <= Free(h, t)
  PROVE  /\ Masked(h + a) \in Cells
         /\ Used(Masked(h + a), t) = Used(h, t) + a
         /\ Free(Masked(h + a), t) = Free(h, t) - a
<1> DEFINE g == Masked(h + a)
<1>1. g = (IF h + a < Capacity THEN h + a ELSE h + a - Capacity) /\ g \in Cells
  BY MaskedAdvance
<1>2. /\ Used(g, t) = IF g < t THEN g - t + Capacity ELSE g - t
      /\ Free(g, t) = Capacity - 1 - Used(g, t)
  BY <1>1, UsedPlusFree
<1>3. /\ Used(h, t) = IF h < t THEN h - t + Capacity ELSE h - t
      /\ Free(h, t) = Capacity - 1 - Used(h, t)
  BY UsedPlusFree
<1> HIDE DEF g
<1>4. Used(g, t) = Used(h, t) + a /\ Free(g, t) = Free(h, t) - a
  BY <1>1, <1>2, <1>3, CapacityAssumption DEF Cells
<1> QED
  BY <1>1, <1>4 DEF g

\* release_consumer_slot moves p used slots back to the producer.
LEMMA AdvanceTail ==
  ASSUME NEW h \in Cells, NEW t \in Cells, NEW p \in Cells, p <= Used(h, t)
  PROVE  /\ Masked(t + p) \in Cells
         /\ Used(h, Masked(t + p)) = Used(h, t) - p
         /\ Free(h, Masked(t + p)) = Free(h, t) + p
<1> DEFINE g == Masked(t + p)
<1>1. g = (IF t + p < Capacity THEN t + p ELSE t + p - Capacity) /\ g \in Cells
  BY MaskedAdvance
<1>2. /\ Used(h, g) = IF h < g THEN h - g + Capacity ELSE h - g
      /\ Free(h, g) = Capacity - 1 - Used(h, g)
  BY <1>1, UsedPlusFree
<1>3. /\ Used(h, t) = IF h < t THEN h - t + Capacity ELSE h - t
      /\ Free(h, t) = Capacity - 1 - Used(h, t)
  BY UsedPlusFree
<1> HIDE DEF g
<1>4. Used(h, g) = Used(h, t) - p /\ Free(h, g) = Free(h, t) + p
  BY <1>1, <1>2, <1>3, CapacityAssumption DEF Cells
<1> QED
  BY <1>1, <1>4 DEF g

\* A free slot is not a used slot.
LEMMA FreeNotUsed ==
  ASSUME NEW h \in Cells, NEW t \in Cells, NEW i \in Nat, NEW j \in Nat,
         i < Free(h, t), j < Used(h, t)
  PROVE  Masked(h + i) # Masked(t + j)
<1>1. i \in Cells /\ j \in Cells
  BY UsedPlusFree, CapacityAssumption DEF Cells
<1>2. /\ Masked(h + i) = IF h + i < Capacity THEN h + i ELSE h + i - Capacity
      /\ Masked(t + j) = IF t + j < Capacity THEN t + j ELSE t + j - Capacity
  BY <1>1, MaskedAdvance
<1>3. /\ Used(h, t) = IF h < t THEN h - t + Capacity ELSE h - t
      /\ Free(h, t) = Capacity - 1 - Used(h, t)
  BY UsedPlusFree
<1> QED
  BY <1>1, <1>2, <1>3, CapacityAssumption DEF Cells

\* Two offsets below Capacity from the same index are two cells.
LEMMA OffsetsDistinct ==
  ASSUME NEW h \in Cells, NEW i \in Cells, NEW j \in Cells, i # j
  PROVE  Masked(h + i) # Masked(h + j)
<1>1. /\ Masked(h + i) = IF h + i < Capacity THEN h + i ELSE h + i - Capacity
      /\ Masked(h + j) = IF h + j < Capacity THEN h + j ELSE h + j - Capacity
  BY MaskedAdvance
<1> QED
  BY <1>1, CapacityAssumption DEF Cells

\* Two advances in a row are one.
LEMMA AdvanceTwice ==
  ASSUME NEW h \in Cells, NEW i \in Cells, NEW j \in Cells, i + j < Capacity
  PROVE  Masked(Masked(h + i) + j) = Masked(h + i + j)
<1>1. /\ Masked(h + i) = IF h + i < Capacity THEN h + i ELSE h + i - Capacity
      /\ Masked(h + i) \in Cells
  BY MaskedAdvance
<1>2. /\ i + j \in Cells
      /\ h + i + j = h + (i + j)
  BY CapacityAssumption DEF Cells
<1>3. Masked(h + (i + j)) = IF h + (i + j) < Capacity THEN h + (i + j) ELSE h + (i + j) - Capacity
  BY <1>2, MaskedAdvance
<1>4. Masked(Masked(h + i) + j)
        = IF Masked(h + i) + j < Capacity THEN Masked(h + i) + j
                                          ELSE Masked(h + i) + j - Capacity
  BY <1>1, MaskedAdvance
<1> QED
  BY <1>1, <1>2, <1>3, <1>4, CapacityAssumption DEF Cells

-----------------------------------------------------------------------------
\* The inductive invariant.

\* An empty ring satisfies the invariant.
LEMMA InitRingInv == Init => RingInv
<1> SUFFICES ASSUME Init PROVE RingInv
  OBVIOUS
<1>1. 0 \in Cells
  BY CapacityAssumption DEF Cells
<1>2. Free(0, 0) \in Cells /\ Used(0, 0) = 0
  BY <1>1, UsedPlusFree, CapacityAssumption
<1>3. TypeOK
  BY <1>1, CapacityAssumption DEF Init, TypeOK
<1> QED
  BY <1>2, <1>3, CapacityAssumption
     DEF Init, RingInv, CachesConservative, HeldSlotsVouched, StagedIntact, ReadIsFront, Cells

\* A bound of a bound is a bound.
LEMMA AtMost ==
  ASSUME NEW a \in Int, NEW b \in Int, NEW c \in Int, a <= b, b <= c
  PROVE  a <= c
OBVIOUS

\* What RingInv says about the counts of the four indices.
LEMMA Counts ==
  ASSUME RingInv
  PROVE  /\ Used(head, tail) \in Cells /\ Free(head, tail) \in Cells
         /\ Free(head, tail) = Capacity - 1 - Used(head, tail)
         /\ Free(head, head_cached) \in Cells /\ Used(tail_cached, tail) \in Cells
         /\ acquired \in Cells /\ peeked \in Cells
         /\ acquired <= Free(head, tail) /\ peeked <= Used(head, tail)
         /\ Len(staged) \in Nat /\ Len(staged) <= acquired
         /\ Len(read) \in Nat /\ Len(read) <= peeked
<1>1. /\ head \in Cells /\ tail \in Cells /\ head_cached \in Cells /\ tail_cached \in Cells
      /\ acquired \in Cells /\ peeked \in Cells
      /\ staged \in Seq(Value) /\ read \in Seq(Value)
  BY DEF RingInv, TypeOK, Cells
<1>2. /\ Used(head, tail) \in Cells /\ Free(head, tail) \in Cells
      /\ Free(head, tail) = Capacity - 1 - Used(head, tail)
      /\ Free(head, head_cached) \in Cells /\ Used(tail_cached, tail) \in Cells
  BY <1>1, UsedPlusFree
<1>3. acquired <= Free(head, tail) /\ peeked <= Used(head, tail)
  <2>1. /\ acquired <= Free(head, head_cached) /\ Free(head, head_cached) <= Free(head, tail)
        /\ peeked <= Used(tail_cached, tail) /\ Used(tail_cached, tail) <= Used(head, tail)
    BY DEF RingInv, CachesConservative, HeldSlotsVouched
  <2>2. /\ acquired \in Int /\ Free(head, head_cached) \in Int /\ Free(head, tail) \in Int
        /\ peeked \in Int /\ Used(tail_cached, tail) \in Int /\ Used(head, tail) \in Int
    BY <1>1, <1>2 DEF Cells
  <2> QED
    BY <2>1, <2>2, AtMost
<1> QED
  BY <1>1, <1>2, <1>3 DEF RingInv, StagedIntact, ReadIsFront

\* acquire_producer_slot refreshes the cached tail and holds only free slots.
LEMMA AcquireInv ==
  ASSUME RingInv, NEW n \in Batch, acquire_producer_slots(n)
  PROVE  RingInv'
<1> USE DEF acquire_producer_slots, cvars
<1>1. head_cached' \in Cells
  BY DEF RingInv, TypeOK, RefreshTail
<1>2. Free(head, head_cached') \in Cells /\ Free(head, head_cached') <= Free(head, tail)
  <2>1. CASE head_cached' = tail
    BY <2>1, Counts, CapacityAssumption DEF Cells
  <2>2. CASE head_cached' = head_cached
    BY <2>2, Counts DEF RingInv, CachesConservative
  <2> QED
    BY <2>1, <2>2 DEF RefreshTail
<1>3. acquired' \in 0 .. Capacity - 1 /\ acquired' <= Free(head, head_cached')
  BY <1>1, <1>2, CapacityAssumption DEF has_free_slots, Cells, Batch
<1>4. Len(staged) = 0
  BY Counts
<1> QED
  BY <1>1, <1>2, <1>3, <1>4
     DEF RingInv, TypeOK, CachesConservative, HeldSlotsVouched, StagedIntact, ReadIsFront

\* Writing a held slot changes no committed slot and no slot being read.
LEMMA WriteInv ==
  ASSUME RingInv, NEW v \in Value, write_producer_slot(v)
  PROVE  RingInv'
<1> DEFINE c == Masked(head + Len(staged))
<1> USE DEF write_producer_slot, cvars
<1>1. /\ head \in Cells /\ tail \in Cells /\ staged \in Seq(Value) /\ read \in Seq(Value)
      /\ buffer \in [Cells -> Value]
  BY DEF RingInv, TypeOK
<1>2. Len(staged) \in Nat /\ Len(staged) \in Cells /\ Len(staged) < Free(head, tail)
  BY Counts, CapacityAssumption DEF Cells
<1>3. c \in Cells
  BY <1>1, <1>2, MaskedAdvance
<1>4. buffer' = [buffer EXCEPT ![c] = v]
  OBVIOUS
<1>5. TypeOK'
  BY <1>3, <1>4 DEF RingInv, TypeOK
<1>6. StagedIntact'
  <2>1. Len(staged') = Len(staged) + 1
    BY <1>1
  <2>2. ASSUME NEW i \in 1 .. Len(staged') PROVE buffer'[Masked(head + i - 1)] = staged'[i]
    <3>1. i - 1 \in Cells /\ head + i - 1 = head + (i - 1)
      BY <1>1, <1>2, <2>1, CapacityAssumption DEF Cells
    <3>2. Masked(head + (i - 1)) \in Cells
      BY <1>1, <3>1, MaskedAdvance
    <3>3. CASE i - 1 = Len(staged)
      BY <1>1, <1>2, <1>3, <1>4, <3>1, <3>3
    <3>4. CASE i - 1 # Len(staged)
      <4>1. i \in 1 .. Len(staged) /\ staged'[i] = staged[i]
        BY <1>1, <1>2, <2>1, <3>4
      <4>2. Masked(head + (i - 1)) # c
        BY <1>1, <1>2, <3>1, <3>4, OffsetsDistinct
      <4>3. buffer'[Masked(head + (i - 1))] = buffer[Masked(head + (i - 1))]
        BY <1>1, <1>4, <3>2, <4>2
      <4> QED
        BY <3>1, <4>1, <4>3 DEF RingInv, StagedIntact
    <3> QED
      BY <3>3, <3>4
  <2>3. Len(staged') <= acquired'
    BY <1>2, <2>1, Counts, CapacityAssumption DEF Cells
  <2> QED
    BY <2>2, <2>3 DEF StagedIntact
<1>7. ReadIsFront'
  <2>1. ASSUME NEW i \in 1 .. Len(read) PROVE buffer'[Masked(tail + i - 1)] = read[i]
    <3>1. /\ i - 1 \in Nat /\ i - 1 \in Cells /\ i - 1 < Used(head, tail)
          /\ tail + i - 1 = tail + (i - 1)
      BY <1>1, Counts, CapacityAssumption DEF Cells
    <3>2. Masked(tail + (i - 1)) # c /\ Masked(tail + (i - 1)) \in Cells
      BY <1>1, <1>2, <3>1, FreeNotUsed, MaskedAdvance
    <3> QED
      BY <1>1, <1>4, <3>1, <3>2 DEF RingInv, ReadIsFront
  <2> QED
    BY <2>1 DEF ReadIsFront, RingInv
<1> QED
  BY <1>5, <1>6, <1>7 DEF RingInv, CachesConservative, HeldSlotsVouched

\* commit_producer_slot publishes the held slots; the caches stay conservative.
LEMMA CommitInv ==
  ASSUME RingInv, commit_producer_slots
  PROVE  RingInv'
<1> USE DEF commit_producer_slots, cvars
<1>1. /\ head \in Cells /\ tail \in Cells /\ head_cached \in Cells /\ acquired \in Cells
      /\ acquired <= Free(head, tail) /\ acquired <= Free(head, head_cached)
  BY Counts DEF RingInv, TypeOK, HeldSlotsVouched
<1>2. /\ head' \in Cells
      /\ Used(head', tail) = Used(head, tail) + acquired
      /\ Free(head', tail) = Free(head, tail) - acquired
      /\ Free(head', head_cached) = Free(head, head_cached) - acquired
  BY <1>1, AdvanceHead
<1>3. TypeOK'
  BY <1>2, CapacityAssumption DEF RingInv, TypeOK
<1>4. CachesConservative' /\ HeldSlotsVouched'
  <2>1. /\ Free(head, head_cached) <= Free(head, tail)
        /\ Used(tail_cached, tail) <= Used(head, tail)
        /\ acquired <= Free(head, head_cached) /\ peeked <= Used(tail_cached, tail)
    BY DEF RingInv, CachesConservative, HeldSlotsVouched
  <2>2. /\ Used(head, tail) \in Int /\ Free(head, tail) \in Int
        /\ Free(head, head_cached) \in Int /\ Used(tail_cached, tail) \in Int
        /\ acquired \in Nat /\ peeked \in Nat
    BY Counts, CapacityAssumption DEF Cells
  <2>3. /\ tail' = tail /\ head_cached' = head_cached /\ tail_cached' = tail_cached
        /\ acquired' = 0 /\ peeked' = peeked
    OBVIOUS
  <2> HIDE DEF commit_producer_slots, cvars
  <2> QED
    BY <1>2, <2>1, <2>2, <2>3 DEF CachesConservative, HeldSlotsVouched
<1>5. StagedIntact' /\ ReadIsFront'
  BY DEF RingInv, StagedIntact, ReadIsFront
<1> QED
  BY <1>3, <1>4, <1>5 DEF RingInv

\* discard_producer_slot gives the held slots up unpublished.
LEMMA DiscardInv ==
  ASSUME RingInv, discard_producer_slot
  PROVE  RingInv'
<1> USE DEF discard_producer_slot, cvars
<1>1. TypeOK'
  BY CapacityAssumption DEF RingInv, TypeOK
<1>2. CachesConservative' /\ HeldSlotsVouched'
  BY Counts, CapacityAssumption DEF RingInv, CachesConservative, HeldSlotsVouched, Cells
<1>3. StagedIntact' /\ ReadIsFront'
  BY DEF RingInv, StagedIntact, ReadIsFront
<1> QED
  BY <1>1, <1>2, <1>3 DEF RingInv

\* peek_consumer_slot refreshes the cached head and holds only committed slots.
LEMMA PeekInv ==
  ASSUME RingInv, NEW n \in Batch, peek_consumer_slots(n)
  PROVE  RingInv'
<1> USE DEF peek_consumer_slots, pvars
<1>1. tail_cached' \in Cells
  BY DEF RingInv, TypeOK, RefreshHead
<1>2. Used(tail_cached', tail) \in Cells /\ Used(tail_cached', tail) <= Used(head, tail)
  <2>1. CASE tail_cached' = head
    BY <2>1, Counts, CapacityAssumption DEF Cells
  <2>2. CASE tail_cached' = tail_cached
    BY <2>2, Counts DEF RingInv, CachesConservative
  <2> QED
    BY <2>1, <2>2 DEF RefreshHead
<1>3. peeked' \in 0 .. Capacity - 1 /\ peeked' <= Used(tail_cached', tail)
  BY <1>1, <1>2, CapacityAssumption DEF has_available, Cells, Batch
<1>4. Len(read) = 0
  BY Counts
<1> QED
  BY <1>1, <1>2, <1>3, <1>4
     DEF RingInv, TypeOK, CachesConservative, HeldSlotsVouched, StagedIntact, ReadIsFront

\* Reading a held slot extends the front that has been read.
LEMMA ReadInv ==
  ASSUME RingInv, read_consumer_slot
  PROVE  RingInv'
<1>1. /\ tail \in Cells /\ read \in Seq(Value) /\ buffer \in [Cells -> Value]
      /\ Len(read) \in Nat /\ Len(read) \in Cells
  <2>1. tail \in Cells /\ read \in Seq(Value) /\ buffer \in [Cells -> Value]
    BY DEF RingInv, TypeOK
  <2>2. Len(read) \in Nat /\ Len(read) <= peeked /\ peeked \in Cells
    BY Counts
  <2>3. Len(read) \in Cells
    BY <2>2, CapacityAssumption DEF Cells
  <2> QED
    BY <2>1, <2>2, <2>3
<1> USE DEF read_consumer_slot, pvars
<1>2. buffer[Masked(tail + Len(read))] \in Value
  BY <1>1, MaskedAdvance
<1>3. TypeOK'
  BY <1>1, <1>2 DEF RingInv, TypeOK
<1>4. ReadIsFront'
  <2>1. Len(read') = Len(read) + 1
    BY <1>1, <1>2
  <2>2. ASSUME NEW i \in 1 .. Len(read') PROVE buffer[Masked(tail + i - 1)] = read'[i]
    <3>1. CASE i = Len(read) + 1
      <4>1. tail + i - 1 = tail + Len(read) /\ read'[i] = buffer[Masked(tail + Len(read))]
        BY <1>1, <1>2, <3>1 DEF Cells
      <4> QED
        BY <4>1
    <3>2. CASE i \in 1 .. Len(read)
      BY <1>1, <1>2, <3>2 DEF RingInv, ReadIsFront
    <3> QED
      BY <1>1, <2>1, <3>1, <3>2
  <2>3. Len(read') <= peeked'
    <3>1. Len(read) < peeked /\ peeked' = peeked
      OBVIOUS
    <3>2. peeked \in Int
      BY Counts DEF Cells
    <3> QED
      BY <1>1, <2>1, <3>1, <3>2
  <2>4. buffer' = buffer /\ tail' = tail
    OBVIOUS
  <2> QED
    BY <2>2, <2>3, <2>4 DEF ReadIsFront
<1> QED
  BY <1>3, <1>4 DEF RingInv, CachesConservative, HeldSlotsVouched, StagedIntact

\* release_consumer_slot returns the held slots; the caches stay conservative.
LEMMA ReleaseInv ==
  ASSUME RingInv, release_consumer_slots
  PROVE  RingInv'
<1> USE DEF release_consumer_slots, pvars
<1>1. /\ head \in Cells /\ tail \in Cells /\ tail_cached \in Cells /\ peeked \in Cells
      /\ peeked <= Used(head, tail) /\ peeked <= Used(tail_cached, tail)
  BY Counts DEF RingInv, TypeOK, HeldSlotsVouched
<1>2. /\ tail' \in Cells
      /\ Used(head, tail') = Used(head, tail) - peeked
      /\ Free(head, tail') = Free(head, tail) + peeked
      /\ Used(tail_cached, tail') = Used(tail_cached, tail) - peeked
  BY <1>1, AdvanceTail
<1>3. TypeOK'
  BY <1>2, CapacityAssumption DEF RingInv, TypeOK
<1>4. CachesConservative' /\ HeldSlotsVouched'
  <2>1. /\ Free(head, head_cached) <= Free(head, tail)
        /\ Used(tail_cached, tail) <= Used(head, tail)
        /\ acquired <= Free(head, head_cached) /\ peeked <= Used(tail_cached, tail)
    BY DEF RingInv, CachesConservative, HeldSlotsVouched
  <2>2. /\ Used(head, tail) \in Int /\ Free(head, tail) \in Int
        /\ Free(head, head_cached) \in Int /\ Used(tail_cached, tail) \in Int
        /\ acquired \in Nat /\ peeked \in Nat
    BY Counts, CapacityAssumption DEF Cells
  <2>3. /\ head' = head /\ head_cached' = head_cached /\ tail_cached' = tail_cached
        /\ acquired' = acquired /\ peeked' = 0
    OBVIOUS
  <2> HIDE DEF release_consumer_slots, pvars
  <2> QED
    BY <1>2, <2>1, <2>2, <2>3 DEF CachesConservative, HeldSlotsVouched
<1>5. StagedIntact' /\ ReadIsFront'
  BY DEF RingInv, StagedIntact, ReadIsFront
<1> QED
  BY <1>3, <1>4, <1>5 DEF RingInv

\* clear() resets both indices and both caches.
LEMMA ClearInv ==
  ASSUME RingInv, clear
  PROVE  RingInv'
<1> USE DEF clear
<1>1. 0 \in Cells
  BY CapacityAssumption DEF Cells
<1>2. Free(0, 0) \in Cells /\ Used(0, 0) = 0
  BY <1>1, UsedPlusFree, CapacityAssumption
<1>3. Len(staged) = 0 /\ Len(read) = 0
  BY Counts
<1> QED
  BY <1>1, <1>2, <1>3, CapacityAssumption
     DEF RingInv, TypeOK, CachesConservative, HeldSlotsVouched, StagedIntact, ReadIsFront, Cells

\* A step that changes nothing keeps the invariant.
LEMMA StutterInv == RingInv /\ UNCHANGED vars => RingInv'
BY DEF vars, pvars, cvars, RingInv, TypeOK, CachesConservative, HeldSlotsVouched,
       StagedIntact, ReadIsFront

\* RingInv holds in every reachable state of the ring of spsc_core.hpp, for
\* every capacity, value set and batch size.
THEOREM RingInvariant == Spec => []RingInv
<1>1. Init => RingInv
  BY InitRingInv
<1>2. RingInv /\ [Next]_vars => RingInv'
  BY AcquireInv, WriteInv, CommitInv, DiscardInv, PeekInv, ReadInv, ReleaseInv, ClearInv, StutterInv
     DEF Next, Producer, Consumer
<1> QED
  BY <1>1, <1>2, PTL DEF Spec

\* The producer's slots and the committed slots, among them the consumer's,
\* never overlap: no two threads access a cell of buffer_ at the same time.
THEOREM NoSlotShared == Spec => []SlotsDisjoint
<1>1. RingInv => SlotsDisjoint
  <2> SUFFICES ASSUME RingInv,
                      NEW i \in 0 .. acquired - 1, NEW j \in 0 .. Used(head, tail) - 1
               PROVE  Masked(head + i) # Masked(tail + j)
    BY Counts DEF SlotsDisjoint
  <2>1. head \in Cells /\ tail \in Cells
    BY DEF RingInv, TypeOK
  <2>2. i \in Nat /\ j \in Nat /\ i < Free(head, tail) /\ j < Used(head, tail)
    BY Counts, CapacityAssumption DEF Cells
  <2> QED
    BY <2>1, <2>2, FreeNotUsed
<1> QED
  BY <1>1, RingInvariant, PTL

-----------------------------------------------------------------------------
\* Refinement: every step of the ring is a step of the FIFO or leaves it alone.

\* The committed slots form a sequence of values as long as the used count.
LEMMA SlotsType ==
  ASSUME NEW b \in [Cells -> Value], NEW h \in Cells, NEW t \in Cells
  PROVE  /\ Used(h, t) \in Nat
         /\ Slots(b, h, t) \in Seq(Value)
         /\ Len(Slots(b, h, t)) = Used(h, t)
         /\ \A i \in 1 .. Used(h, t) : Slots(b, h, t)[i] = b[Masked(t + i - 1)]
<1>1. Used(h, t) \in Cells
  BY UsedPlusFree
<1>2. Used(h, t) \in Nat
  BY <1>1 DEF Cells
<1>3. ASSUME NEW i \in 1 .. Used(h, t) PROVE b[Masked(t + i - 1)] \in Value
  <2>1. i - 1 \in Cells /\ t + i - 1 = t + (i - 1)
    BY <1>1, <1>2, CapacityAssumption DEF Cells
  <2> QED
    BY <1>1, <2>1, MaskedAdvance
<1> QED
  BY <1>2, <1>3 DEF Slots

\* Committing the values s appends them to the committed slots.
LEMMA SlotsAppend ==
  ASSUME NEW b \in [Cells -> Value], NEW h \in Cells, NEW t \in Cells,
         NEW s \in Seq(Value), Len(s) \in Cells, Len(s) <= Free(h, t),
         \A i \in 1 .. Len(s) : b[Masked(h + i - 1)] = s[i]
  PROVE  Slots(b, Masked(h + Len(s)), t) = Slots(b, h, t) \o s
<1> DEFINE g == Masked(h + Len(s))
           u == Used(h, t)
           old == Slots(b, h, t)
           new == Slots(b, g, t)
<1>1. g \in Cells /\ Used(g, t) = u + Len(s)
  BY AdvanceHead
<1>2. u \in Nat /\ old \in Seq(Value) /\ Len(old) = u
      /\ \A i \in 1 .. u : old[i] = b[Masked(t + i - 1)]
  BY SlotsType
<1>3. new \in Seq(Value) /\ Len(new) = Used(g, t)
      /\ \A i \in 1 .. Used(g, t) : new[i] = b[Masked(t + i - 1)]
  BY <1>1, SlotsType
<1>4. Len(s) \in Nat /\ u + Len(s) < Capacity /\ u \in Cells
  <2>1. u \in Cells /\ Free(h, t) = Capacity - 1 - u
    BY UsedPlusFree
  <2> HIDE DEF u
  <2> QED
    BY <2>1, CapacityAssumption DEF Cells
<1>5. Masked(t + u) = h
  <2>1. u = IF h < t THEN h - t + Capacity ELSE h - t
    BY UsedPlusFree
  <2>2. Masked(t + u) = IF t + u < Capacity THEN t + u ELSE t + u - Capacity
    BY <1>4, MaskedAdvance
  <2> HIDE DEF u
  <2> QED
    BY <1>4, <2>1, <2>2, CapacityAssumption DEF Cells
<1> HIDE DEF g, u, old, new
<1>6. /\ old \o s \in Seq(Value) /\ Len(old \o s) = Len(old) + Len(s)
      /\ \A i \in 1 .. Len(old) + Len(s) :
           (old \o s)[i] = IF i <= Len(old) THEN old[i] ELSE s[i - Len(old)]
  BY <1>2, ConcatProperties
<1>7. ASSUME NEW i \in 1 .. u + Len(s) PROVE new[i] = (old \o s)[i]
  <2>1. new[i] = b[Masked(t + i - 1)]
    BY <1>1, <1>3
  <2>2. (old \o s)[i] = IF i <= u THEN old[i] ELSE s[i - u]
    BY <1>2, <1>6
  <2>3. CASE i <= u
    BY <1>2, <1>4, <2>1, <2>2, <2>3
  <2>4. CASE i > u
    <3>1. /\ i - u \in 1 .. Len(s) /\ i - u - 1 \in Cells /\ u + (i - u - 1) < Capacity
          /\ t + i - 1 = t + u + (i - u - 1) /\ h + (i - u) - 1 = h + (i - u - 1)
      BY <1>2, <1>4, <2>4, CapacityAssumption DEF Cells
    <3>2. Masked(Masked(t + u) + (i - u - 1)) = Masked(t + u + (i - u - 1))
      BY <1>4, <3>1, AdvanceTwice
    <3>3. b[Masked(h + (i - u) - 1)] = s[i - u]
      BY <3>1
    <3>4. Masked(t + i - 1) = Masked(h + (i - u) - 1)
      BY <1>5, <3>1, <3>2
    <3> QED
      BY <1>2, <2>1, <2>2, <2>4, <3>3, <3>4
  <2> QED
    BY <1>2, <1>4, <2>3, <2>4
<1>8. new = old \o s
  BY <1>1, <1>2, <1>3, <1>6, <1>7, SeqEqual
<1> QED
  BY <1>8 DEF g, old, new

\* Releasing p slots leaves the committed slots after the first p.
LEMMA SlotsDrop ==
  ASSUME NEW b \in [Cells -> Value], NEW h \in Cells, NEW t \in Cells,
         NEW p \in Cells, p <= Used(h, t)
  PROVE  Slots(b, h, Masked(t + p)) = SubSeq(Slots(b, h, t), p + 1, Used(h, t))
<1> DEFINE g == Masked(t + p)
           u == Used(h, t)
           old == Slots(b, h, t)
           new == Slots(b, h, g)
           rest == SubSeq(old, p + 1, u)
<1>1. g \in Cells /\ Used(h, g) = u - p
  BY AdvanceTail
<1>2. u \in Nat /\ old \in Seq(Value) /\ Len(old) = u
      /\ \A i \in 1 .. u : old[i] = b[Masked(t + i - 1)]
  BY SlotsType
<1>3. new \in Seq(Value) /\ Len(new) = Used(h, g)
      /\ \A i \in 1 .. Used(h, g) : new[i] = b[Masked(g + i - 1)]
  BY <1>1, SlotsType
<1>4. p \in Nat /\ u \in Cells
  BY UsedPlusFree, CapacityAssumption DEF Cells
<1>5. g = Masked(t + p)
  OBVIOUS
<1> HIDE DEF g, u, old, new
<1>6. /\ rest \in Seq(Value)
      /\ Len(rest) = IF p + 1 <= u THEN u - (p + 1) + 1 ELSE 0
      /\ \A i \in 1 .. u - (p + 1) + 1 : rest[i] = old[(p + 1) + i - 1]
  <2>1. \A i \in p + 1 .. u : old[i] \in Value
    BY <1>2, <1>4, ElementOfSeq
  <2> QED
    BY <1>2, <1>4, <2>1, SubSeqProperties
<1> HIDE DEF rest
<1>7. Len(rest) = u - p /\ p <= u
  BY <1>2, <1>4, <1>6 DEF u
<1>8. ASSUME NEW i \in 1 .. u - p PROVE new[i] = rest[i]
  <2>1. /\ i \in 1 .. u - (p + 1) + 1 /\ (p + 1) + i - 1 = p + i /\ p + i \in 1 .. u
        /\ i - 1 \in Cells /\ p + (i - 1) < Capacity
        /\ t + (p + i) - 1 = t + p + (i - 1) /\ g + i - 1 = g + (i - 1)
    BY <1>1, <1>2, <1>4, <1>7, CapacityAssumption DEF Cells
  <2>2. rest[i] = b[Masked(t + (p + i) - 1)]
    BY <1>2, <1>6, <2>1
  <2>3. new[i] = b[Masked(g + i - 1)]
    BY <1>1, <1>3
  <2>4. Masked(Masked(t + p) + (i - 1)) = Masked(t + p + (i - 1))
    BY <2>1, AdvanceTwice
  <2> QED
    BY <1>5, <2>1, <2>2, <2>3, <2>4
<1>9. new = rest
  BY <1>1, <1>3, <1>6, <1>7, <1>8, SeqEqual
<1> QED
  BY <1>9 DEF g, u, old, new, rest

\* Values read from the first slots are a prefix of the committed slots.
LEMMA SlotsPrefix ==
  ASSUME NEW b \in [Cells -> Value], NEW h \in Cells, NEW t \in Cells,
         NEW s \in Seq(Value), Len(s) <= Used(h, t),
         \A i \in 1 .. Len(s) : b[Masked(t + i - 1)] = s[i]
  PROVE  s = SubSeq(Slots(b, h, t), 1, Len(s))
<1> DEFINE u == Used(h, t)
           old == Slots(b, h, t)
           n == Len(s)
           front == SubSeq(old, 1, n)
<1>1. u \in Nat /\ old \in Seq(Value) /\ Len(old) = u
      /\ \A i \in 1 .. u : old[i] = b[Masked(t + i - 1)]
  BY SlotsType
<1>2. n \in Nat /\ n <= u
  OBVIOUS
<1> HIDE DEF u, old
<1>3. /\ front \in Seq(Value) /\ Len(front) = (IF 1 <= n THEN n - 1 + 1 ELSE 0)
      /\ \A i \in 1 .. n - 1 + 1 : front[i] = old[1 + i - 1]
  <2>1. \A i \in 1 .. n : old[i] \in Value
    BY <1>1, <1>2, ElementOfSeq
  <2> QED
    BY <1>2, <2>1, SubSeqProperties
<1> HIDE DEF front
<1>4. ASSUME NEW i \in 1 .. n PROVE s[i] = front[i]
  <2>1. i \in 1 .. n - 1 + 1 /\ 1 + i - 1 = i /\ i \in 1 .. u
    BY <1>1, <1>2
  <2>2. front[i] = old[i]
    BY <1>3, <2>1
  <2>3. s[i] = b[Masked(t + i - 1)]
    OBVIOUS
  <2> QED
    BY <1>1, <2>1, <2>2, <2>3
<1>5. s = front
  BY <1>2, <1>3, <1>4, SeqEqual
<1> QED
  BY <1>5 DEF front, old

\* commit_producer_slot is the FIFO's Push of the staged values.
LEMMA CommitIsPush ==
  ASSUME RingInv, commit_producer_slots
  PROVE  Fifo!Next
<1> USE DEF commit_producer_slots, cvars
<1>1. /\ head \in Cells /\ tail \in Cells /\ buffer \in [Cells -> Value]
      /\ staged \in Seq(Value)
      /\ \A i \in 1 .. Len(staged) : buffer[Masked(head + i - 1)] = staged[i]
  BY DEF RingInv, TypeOK, StagedIntact
<1>2. Len(staged) \in Cells /\ Len(staged) <= Free(head, tail)
  BY Counts
<1>3. Contents' = Contents \o staged
  BY <1>1, <1>2, SlotsAppend DEF Contents
<1>4. Len(Contents) + Len(staged) <= Capacity - 1
  <2>1. Len(Contents) = Used(head, tail)
    BY <1>1, SlotsType DEF Contents
  <2> QED
    BY <1>2, <2>1, Counts, CapacityAssumption DEF Cells
<1> QED
  BY <1>3, <1>4 DEF Fifo!Next, Fifo!Push

\* release_consumer_slot is the FIFO's Pop of the released values.
LEMMA ReleaseIsPop ==
  ASSUME RingInv, release_consumer_slots
  PROVE  Fifo!Next
<1> USE DEF release_consumer_slots, pvars
<1>1. /\ head \in Cells /\ tail \in Cells /\ buffer \in [Cells -> Value]
      /\ read \in Seq(Value)
      /\ \A i \in 1 .. Len(read) : buffer[Masked(tail + i - 1)] = read[i]
  BY DEF RingInv, TypeOK, ReadIsFront
<1>2. peeked \in Cells /\ peeked <= Used(head, tail) /\ Len(read) = peeked
  BY Counts
<1>3. Len(Contents) = Used(head, tail)
  BY <1>1, SlotsType DEF Contents
<1>4. Contents' = SubSeq(Contents, peeked + 1, Len(Contents))
  BY <1>1, <1>2, <1>3, SlotsDrop DEF Contents
<1>5. out' = SubSeq(Contents, 1, peeked)
  BY <1>1, <1>2, SlotsPrefix DEF Contents
<1>6. peeked \in 1 .. Capacity - 1
  BY <1>2, CapacityAssumption DEF Cells
<1> QED
  BY <1>2, <1>3, <1>4, <1>5, <1>6 DEF Fifo!Next, Fifo!Pop

\* Writing a held slot leaves the committed slots as they are.
LEMMA WriteKeepsContents ==
  ASSUME RingInv, RingInv', NEW v \in Value, write_producer_slot(v)
  PROVE  Contents' = Contents
<1> USE DEF write_producer_slot, cvars
<1>1. /\ head \in Cells /\ tail \in Cells /\ buffer \in [Cells -> Value]
      /\ Used(head, tail) \in Nat /\ Used(head, tail) \in Cells
  BY Counts, CapacityAssumption DEF RingInv, TypeOK, Cells
<1>3. Len(staged) \in Nat /\ Len(staged) < Free(head, tail)
  BY Counts, CapacityAssumption DEF Cells
<1>2. ASSUME NEW i \in 1 .. Used(head, tail)
      PROVE  buffer'[Masked(tail + i - 1)] = buffer[Masked(tail + i - 1)]
  <2>1. /\ i - 1 \in Nat /\ i - 1 \in Cells /\ i - 1 < Used(head, tail)
        /\ tail + i - 1 = tail + (i - 1)
    BY <1>1, CapacityAssumption DEF Cells
  <2>2. Masked(tail + (i - 1)) # Masked(head + Len(staged)) /\ Masked(tail + (i - 1)) \in Cells
    BY <1>1, <1>3, <2>1, FreeNotUsed, MaskedAdvance
  <2> QED
    BY <1>1, <2>1, <2>2
<1> QED
  BY <1>2 DEF Contents, Slots

\* The ring of spsc_core.hpp is a bounded FIFO of Capacity - 1 values: a commit
\* appends exactly the staged batch, a release hands over exactly the oldest
\* values, and every other step leaves the queue as it is.
THEOREM RingImplementsFifo == Spec => IsFifo
<1>1. Init => Fifo!Init
  <2> SUFFICES ASSUME Init PROVE Fifo!Init
    OBVIOUS
  <2>1. 0 \in Cells
    BY CapacityAssumption DEF Cells
  <2>2. Used(head, tail) = 0
    BY <2>1, UsedPlusFree, CapacityAssumption DEF Init
  <2> QED
    BY <2>2 DEF Init, Fifo!Init, Contents, Slots
<1>2. RingInv /\ RingInv' /\ [Next]_vars => [Fifo!Next]_Fifo!vars
  <2> SUFFICES ASSUME RingInv, RingInv', [Next]_vars PROVE [Fifo!Next]_Fifo!vars
    OBVIOUS
  <2>1. CASE UNCHANGED <<buffer, head, tail, staged, out>>
    BY <2>1 DEF Fifo!vars, Contents
  <2>2. CASE \E v \in Value : write_producer_slot(v)
    BY <2>2, WriteKeepsContents DEF Fifo!Next, Fifo!Write, write_producer_slot, cvars
  <2>3. CASE commit_producer_slots
    BY <2>3, CommitIsPush
  <2>4. CASE release_consumer_slots
    BY <2>4, ReleaseIsPop
  <2>5. CASE clear
    <3>1. 0 \in Cells
      BY CapacityAssumption DEF Cells
    <3>2. Used(head', tail') = 0
      BY <2>5, <3>1, UsedPlusFree, CapacityAssumption DEF clear
    <3>3. Contents' = <<>>
      BY <3>2 DEF Contents, Slots
    <3> QED
      BY <2>5, <3>3 DEF clear, Fifo!Next, Fifo!Clear
  <2>6. CASE discard_producer_slot
    BY <2>6 DEF Fifo!Next, Fifo!Discard, discard_producer_slot, Contents, cvars
  <2> QED
    BY <2>1, <2>2, <2>3, <2>4, <2>5, <2>6
       DEF Next, Producer, Consumer, acquire_producer_slots,
           peek_consumer_slots, read_consumer_slot, vars, pvars, cvars
<1>3. RingInv /\ [Next]_vars => RingInv'
  BY AcquireInv, WriteInv, CommitInv, DiscardInv, PeekInv, ReadInv, ReleaseInv, ClearInv, StutterInv
     DEF Next, Producer, Consumer
<1> QED
  BY <1>1, <1>2, <1>3, RingInvariant, PTL DEF Spec, IsFifo, Fifo!Spec
=============================================================================

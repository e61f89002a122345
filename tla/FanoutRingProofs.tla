-------------------------- MODULE FanoutRingProofs --------------------------
(***************************************************************************)
(* Proofs about the fan-out ring for every capacity, every number of       *)
(* consumers and behaviours of any length: nothing that a consumer has yet *)
(* to read is overwritten, also for one that registers during a push.      *)
(***************************************************************************)
EXTENDS FanoutRing, TLAPS

Sized == Capacity \in Nat \ {0} /\ MaxConsumers \in Nat

-----------------------------------------------------------------------------
\* Arithmetic of the masked counters.

\* x & MASK, for a counter.
LEMMA DivMod ==
  ASSUME NEW c \in Nat \ {0}, NEW a \in Nat
  PROVE  /\ a = c * (a \div c) + (a % c)
         /\ a \div c \in Int /\ a % c \in 0 .. c - 1
OBVIOUS

\* No multiple of c lies strictly between 0 and c.
LEMMA NoMultiple ==
  ASSUME NEW c \in Nat \ {0}, NEW q \in Int, 0 < c * q, c * q < c
  PROVE  FALSE
<1>1. CASE q <= 0
  <2>1. c * q <= 0
    BY <1>1
  <2> QED
    BY <2>1
<1>2. CASE q >= 1
  <2>1. q - 1 \in Nat
    BY <1>2
  <2>2. c * (q - 1) >= 0
    BY <2>1
  <2>3. c * (q - 1) = c * q - c
    OBVIOUS
  <2> QED
    BY <2>2, <2>3
<1> QED
  BY <1>1, <1>2

\* Two counters less than a lap apart have different cells.
LEMMA CellsDiffer ==
  ASSUME Sized, NEW a \in Nat, NEW b \in Nat, a < b, b - a < Capacity
  PROVE  Masked(a) # Masked(b)
<1> USE DEF Sized
<1> SUFFICES ASSUME a % Capacity = b % Capacity PROVE FALSE
  BY DEF Masked
<1> DEFINE q == (b \div Capacity) - (a \div Capacity)
<1>1. q \in Int
  BY DivMod
<1>2. b - a = Capacity * q
  <2>1. Capacity * q = Capacity * (b \div Capacity) - Capacity * (a \div Capacity)
    BY DivMod
  <2> QED
    BY <2>1, DivMod
<1> HIDE DEF q
<1> QED
  BY <1>1, <1>2, NoMultiple

-----------------------------------------------------------------------------
\* The inductive invariant.

Attached(c) == pc[c] \in {"store", "idle", "move", "advance"}

\* The first item that a consumer will read: a consumer that registers has
\* loaded the head and not yet stored it.
Low(c) == IF pc[c] = "store" THEN out[c] ELSE tails[c]

Types ==
    /\ buffer \in [0 .. Capacity - 1 -> Int]
    /\ head \in Nat /\ tails \in [Id -> Nat] /\ out \in [Id -> Int]
    /\ pc \in [Id -> {"absent", "register", "store", "idle", "move", "advance"}]
    /\ producer \in {"idle", "scan", "write", "publish"}
    /\ scan \in Nat /\ count \in Nat /\ consumer_count \in Nat
    /\ min_tail \in Nat \cup {Infinite}

\* Where the consumers are.  A tail is zero until it is stored, so that a
\* consumer that is counted and not yet registered can only hold the producer
\* back.
ConsumersInv ==
    \A c \in Id :
        /\ c >= consumer_count => pc[c] = "absent"
        /\ pc[c] \in {"absent", "register", "store"} => tails[c] = 0
        /\ Attached(c) => 0 <= Low(c) /\ Low(c) <= head
        /\ pc[c] \in {"move", "advance"} => tails[c] < head
        /\ pc[c] = "advance" => out[c] = tails[c]

\* What the producer knows: the tails it has read are bounded by its minimum,
\* and a consumer it does not count attached at the present head or beyond.
ProducerInv ==
    \A c \in Id :
        /\ producer # "idle" /\ c >= count /\ Attached(c) => Low(c) = head
        /\ producer = "scan" /\ c < scan => 0 <= min_tail /\ min_tail <= tails[c]
        /\ producer \in {"write", "publish"} /\ Attached(c) => head - Low(c) < Capacity

BufferInv ==
    /\ \A c \in Id : Attached(c) =>
          /\ head - Low(c) <= Capacity
          /\ \A i \in Low(c) .. head - 1 : buffer[Masked(i)] = i
    /\ producer = "publish" => buffer[Masked(head)] = head

IInv == Types /\ ConsumersInv /\ ProducerInv /\ BufferInv

\* No consumer is attached to the new ring.
LEMMA InitInv ==
  ASSUME Sized, Init
  PROVE  IInv
BY DEF Sized, Init, IInv, Types, ConsumersInv, ProducerInv, BufferInv, Attached, Low, Id, Infinite

-----------------------------------------------------------------------------
\* One lemma per step.

\* A new consumer is counted before it is attached.
LEMMA RegisterIdInv ==
  ASSUME Sized, IInv, register_id
  PROVE  IInv'
<1> USE DEF IInv, Id
<1>1. /\ consumer_count' = consumer_count + 1
      /\ UNCHANGED <<buffer, head, tails, out, producer, scan, count, min_tail>>
      /\ \A c \in Id : pc'[c] = pc[c] \/ (c = consumer_count /\ pc'[c] = "register")
  BY DEF register_id, Types
<1>2. Types'
  <2>1. pc' \in [Id -> {"absent", "register", "store", "idle", "move", "advance"}]
    <3>1. CASE consumer_count < MaxConsumers
      <4>1. pc' = [pc EXCEPT ![consumer_count] = "register"]
        BY <3>1 DEF register_id
      <4> QED
        BY <4>1 DEF Types
    <3>2. CASE ~(consumer_count < MaxConsumers)
      BY <3>2 DEF register_id, Types
    <3> QED
      BY <3>1, <3>2
  <2> QED
    BY <1>1, <2>1 DEF Types
<1>3. ConsumersInv'
  BY <1>1 DEF ConsumersInv, Attached, Low, Types
<1>4. ProducerInv'
  BY <1>1 DEF ProducerInv, Attached, Low
<1>5. BufferInv'
  BY <1>1 DEF BufferInv, Attached, Low
<1> QED
  BY <1>2, <1>3, <1>4, <1>5

\* The consumer's first item will be the next one pushed.
LEMMA RegisterHeadInv ==
  ASSUME Sized, IInv, NEW c \in Id, register_head(c)
  PROVE  IInv'
<1> USE DEF IInv
<1>1. /\ pc[c] = "register" /\ out' = [out EXCEPT ![c] = head]
      /\ pc' = [pc EXCEPT ![c] = "store"]
      /\ UNCHANGED <<buffer, head, tails, consumer_count, producer, scan, count, min_tail>>
  BY DEF register_head
<1>2. /\ pc'[c] = "store" /\ out'[c] = head
      /\ \A d \in Id : d # c => pc'[d] = pc[d] /\ out'[d] = out[d]
  BY <1>1 DEF Types
<1>3. Types'
  BY <1>1 DEF Types
<1>4. ConsumersInv'
  BY <1>1, <1>2 DEF ConsumersInv, Attached, Low, Types
<1>5. ProducerInv'
  BY <1>1, <1>2 DEF ProducerInv, Attached, Low, Types, Sized
<1>6. BufferInv'
  BY <1>1, <1>2 DEF BufferInv, Attached, Low, Types, Sized
<1> QED
  BY <1>3, <1>4, <1>5, <1>6

\* Storing the tail leaves the first item to read as it was.
LEMMA RegisterTailInv ==
  ASSUME Sized, IInv, NEW c \in Id, register_tail(c)
  PROVE  IInv'
<1> USE DEF IInv
<1>1. /\ pc[c] = "store" /\ tails' = [tails EXCEPT ![c] = out[c]]
      /\ pc' = [pc EXCEPT ![c] = "idle"]
      /\ UNCHANGED <<buffer, head, out, consumer_count, producer, scan, count, min_tail>>
  BY DEF register_tail
<1>2. /\ pc'[c] = "idle" /\ tails'[c] = out[c] /\ tails[c] = 0 /\ out[c] \in Nat
      /\ \A d \in Id : d # c => pc'[d] = pc[d] /\ tails'[d] = tails[d]
  BY <1>1 DEF Types, ConsumersInv, Attached, Low
<1>3. Types'
  BY <1>1, <1>2 DEF Types
<1>4. ConsumersInv'
  BY <1>1, <1>2 DEF ConsumersInv, Attached, Low, Types
<1>5. ProducerInv'
  BY <1>1, <1>2 DEF ProducerInv, Attached, Low, Types
<1>6. BufferInv'
  BY <1>1, <1>2 DEF BufferInv, Attached, Low, Types
<1> QED
  BY <1>3, <1>4, <1>5, <1>6

\* Every consumer attached at this moment is counted.
LEMMA PushBeginInv ==
  ASSUME Sized, IInv, push_begin
  PROVE  IInv'
BY DEF push_begin, IInv, Types, ConsumersInv, ProducerInv, BufferInv, Attached, Low, Id, Infinite

\* The minimum bounds one more tail.
LEMMA PushScanInv ==
  ASSUME Sized, IInv, push_scan
  PROVE  IInv'
<1> USE DEF IInv
<1>1. /\ producer = "scan" /\ scan' = scan + 1
      /\ UNCHANGED <<buffer, head, tails, consumer_count, pc, out, producer, count>>
  BY DEF push_scan
<1>2. PICK t \in Nat : /\ scan \in Id => t = tails[scan]
                       /\ min_tail' = IF min_tail = Infinite \/ t < min_tail THEN t ELSE min_tail
  <2>1. CASE scan \in Id
    BY <2>1 DEF push_scan, Types
  <2>2. CASE scan \notin Id
    <3>1. PICK t \in 0 .. head :
             min_tail' = IF min_tail = Infinite \/ t < min_tail THEN t ELSE min_tail
      BY <2>2 DEF push_scan
    <3>2. t \in Nat
      BY DEF Types
    <3> HIDE DEF IInv
    <3> QED
      BY <2>2, <3>1, <3>2, Zenon
  <2> QED
    BY <2>1, <2>2
<1>3. Types'
  BY <1>1, <1>2 DEF Types
<1>4. ConsumersInv' /\ BufferInv'
  BY <1>1 DEF ConsumersInv, BufferInv, Attached, Low
<1>5. \A c \in Id : c < scan' => 0 <= min_tail' /\ min_tail' <= tails[c]
  <2> SUFFICES ASSUME NEW c \in Id, c < scan + 1
               PROVE  0 <= min_tail' /\ min_tail' <= tails[c]
    BY <1>1
  <2>1. c \in Int /\ tails[c] \in Nat
    BY DEF Types, Id, Sized
  <2>2. CASE c = scan
    <3>1. t = tails[c]
      BY <1>2, <2>2
    <3>2. min_tail = Infinite \/ min_tail >= 0
      BY DEF Types
    <3> QED
      BY <1>2, <2>1, <3>1, <3>2 DEF Types, Infinite
  <2>3. CASE c < scan
    <3>1. 0 <= min_tail /\ min_tail <= tails[c]
      BY <1>1, <2>3 DEF ProducerInv
    <3> QED
      BY <1>2, <2>1, <3>1 DEF Types, Infinite
  <2> QED
    BY <2>1, <2>2, <2>3 DEF Types
<1>6. ProducerInv'
  BY <1>1, <1>5 DEF ProducerInv, Attached, Low
<1> QED
  BY <1>3, <1>4, <1>6

\* The slowest tail read is less than a lap behind, and the consumers that
\* are not counted have nothing to read.
LEMMA PushAdmitInv ==
  ASSUME Sized, IInv, push_admit
  PROVE  IInv'
<1> USE DEF IInv
<1>1. /\ producer = "scan" /\ scan = count
      /\ UNCHANGED <<buffer, head, tails, consumer_count, pc, out, scan, count, min_tail>>
      /\ \/ producer' = "idle"
         \/ producer' = "write" /\ (min_tail # Infinite => head - min_tail < Capacity)
  BY DEF push_admit, Types, Sized, Infinite
<1>2. Types'
  BY <1>1 DEF Types
<1>3. ConsumersInv' /\ BufferInv'
  BY <1>1 DEF ConsumersInv, BufferInv, Attached, Low
<1>4. ASSUME producer' = "write", NEW c \in Id, Attached(c)
      PROVE  head - Low(c) < Capacity
  <2>1. CASE c >= count
    BY <1>1, <2>1, <1>4 DEF ProducerInv, Types, Sized
  <2>2. CASE c < count
    <3>1. 0 <= min_tail /\ min_tail <= tails[c]
      BY <1>1, <2>2 DEF ProducerInv
    <3>2. head - min_tail < Capacity
      BY <1>1, <1>4, <3>1 DEF Infinite, Types
    <3>3. tails[c] <= Low(c) /\ Low(c) \in Int /\ tails[c] \in Nat
      BY <1>4 DEF ConsumersInv, Low, Types
    <3> QED
      BY <3>1, <3>2, <3>3 DEF Types, Sized
  <2> QED
    BY <2>1, <2>2 DEF Types, Id, Sized
<1>5. ProducerInv'
  BY <1>1, <1>4 DEF ProducerInv, Attached, Low
<1> QED
  BY <1>2, <1>3, <1>5

\* An array stays an array when a cell changes.
LEMMA UpdateType ==
  ASSUME NEW S, NEW f \in [S -> Int], NEW x, NEW v \in Int
  PROVE  [f EXCEPT ![x] = v] \in [S -> Int]
OBVIOUS

\* The cell that is written holds no item that a consumer will read.
LEMMA PushWriteInv ==
  ASSUME Sized, IInv, push_write
  PROVE  IInv'
<1> USE DEF IInv
<1>1. /\ producer = "write" /\ producer' = "publish"
      /\ buffer' = [buffer EXCEPT ![Masked(head)] = head]
      /\ UNCHANGED <<head, tails, consumer_count, pc, out, scan, count, min_tail>>
  BY DEF push_write
<1>2. \A a \in Nat : Masked(a) \in 0 .. Capacity - 1
  BY DivMod DEF Masked, Sized
<1>3. buffer'[Masked(head)] = head
  BY <1>1, <1>2 DEF Types
<1>4. Types'
  <2>1. head \in Int /\ buffer \in [0 .. Capacity - 1 -> Int]
    BY DEF Types
  <2>2. buffer' \in [0 .. Capacity - 1 -> Int]
    BY <1>1, <2>1, UpdateType
  <2> QED
    BY <1>1, <2>2 DEF Types
<1>5. ConsumersInv'
  BY <1>1 DEF ConsumersInv, Attached, Low
<1>6. ProducerInv'
  BY <1>1 DEF ProducerInv, Attached, Low
<1>7. ASSUME NEW c \in Id, Attached(c), NEW i \in Low(c) .. head - 1
      PROVE  buffer'[Masked(i)] = i
  <2>1. i \in Nat /\ i < head /\ head \in Nat /\ head - i < Capacity
    BY <1>1, <1>7 DEF ProducerInv, ConsumersInv, Types, Low, Sized
  <2>2. Masked(i) # Masked(head) /\ Masked(i) \in 0 .. Capacity - 1
    BY <2>1, <1>2, CellsDiffer
  <2>3. buffer[Masked(i)] = i
    BY <1>7 DEF BufferInv
  <2> QED
    BY <1>1, <2>2, <2>3 DEF Types
<1>8. BufferInv'
  BY <1>1, <1>3, <1>7 DEF BufferInv, Attached, Low
<1> QED
  BY <1>4, <1>5, <1>6, <1>8

\* The new item is in its cell and the ring holds a lap at most.
LEMMA PushPublishInv ==
  ASSUME Sized, IInv, push_publish
  PROVE  IInv'
<1> USE DEF IInv
<1>1. /\ producer = "publish" /\ producer' = "idle" /\ head' = head + 1
      /\ UNCHANGED <<buffer, tails, consumer_count, pc, out, scan, count, min_tail>>
  BY DEF push_publish
<1>2. Types'
  BY <1>1 DEF Types
<1>3. ConsumersInv'
  BY <1>1 DEF ConsumersInv, Attached, Low, Types
<1>4. ProducerInv'
  BY <1>1 DEF ProducerInv
<1>5. ASSUME NEW c \in Id, Attached(c)
      PROVE  /\ head' - Low(c) <= Capacity
             /\ \A i \in Low(c) .. head' - 1 : buffer[Masked(i)] = i
  <2>1. Low(c) \in Int /\ Low(c) <= head
    BY <1>5 DEF ConsumersInv, Low, Types
  <2>2. head' - Low(c) <= Capacity
    BY <1>1, <1>5, <2>1 DEF ProducerInv, Types, Sized
  <2>3. \A i \in Low(c) .. head' - 1 : i \in Low(c) .. head - 1 \/ i = head
    BY <1>1, <2>1 DEF Types
  <2>4. buffer[Masked(head)] = head
    BY <1>1 DEF BufferInv
  <2> QED
    BY <1>5, <2>2, <2>3, <2>4 DEF BufferInv
<1>6. BufferInv'
  BY <1>1, <1>5 DEF BufferInv, Attached, Low
<1> QED
  BY <1>2, <1>3, <1>4, <1>6

\* A pop goes on only if there is an item.
LEMMA PopTestInv ==
  ASSUME Sized, IInv, NEW c \in Id, pop_test(c)
  PROVE  IInv'
<1> USE DEF IInv
<1>1. /\ pc[c] = "idle" /\ tails[c] # head /\ pc' = [pc EXCEPT ![c] = "move"]
      /\ UNCHANGED <<buffer, head, tails, consumer_count, out, producer, scan, count, min_tail>>
  BY DEF pop_test
<1>2. pc'[c] = "move" /\ \A d \in Id : d # c => pc'[d] = pc[d]
  BY <1>1 DEF Types
<1>3. Types'
  BY <1>1 DEF Types
<1>4. ConsumersInv'
  BY <1>1, <1>2 DEF ConsumersInv, Attached, Low, Types
<1>5. ProducerInv'
  BY <1>1, <1>2 DEF ProducerInv, Attached, Low
<1>6. BufferInv'
  BY <1>1, <1>2 DEF BufferInv, Attached, Low
<1> QED
  BY <1>3, <1>4, <1>5, <1>6

\* The item at the tail is the one that was pushed there.
LEMMA PopMoveInv ==
  ASSUME Sized, IInv, NEW c \in Id, pop_move(c)
  PROVE  IInv'
<1> USE DEF IInv
<1>1. /\ pc[c] = "move" /\ pc' = [pc EXCEPT ![c] = "advance"]
      /\ out' = [out EXCEPT ![c] = buffer[Masked(tails[c])]]
      /\ UNCHANGED <<buffer, head, tails, consumer_count, producer, scan, count, min_tail>>
  BY DEF pop_move
<1>2. tails[c] \in Low(c) .. head - 1 /\ Attached(c)
  BY <1>1 DEF ConsumersInv, Low, Attached, Types
<1>3. out' = [out EXCEPT ![c] = tails[c]]
  BY <1>1, <1>2 DEF BufferInv
<1>4. /\ pc'[c] = "advance" /\ out'[c] = tails[c]
      /\ \A d \in Id : d # c => pc'[d] = pc[d] /\ out'[d] = out[d]
  BY <1>1, <1>3 DEF Types
<1>5. Types'
  BY <1>1, <1>3 DEF Types
<1>6. ConsumersInv'
  BY <1>1, <1>4 DEF ConsumersInv, Attached, Low, Types
<1>7. ProducerInv'
  BY <1>1, <1>4 DEF ProducerInv, Attached, Low
<1>8. BufferInv'
  BY <1>1, <1>4 DEF BufferInv, Attached, Low
<1> QED
  BY <1>5, <1>6, <1>7, <1>8

\* The tail moves past the item that was read, never past the head.
LEMMA PopAdvanceInv ==
  ASSUME Sized, IInv, NEW c \in Id, pop_advance(c)
  PROVE  IInv'
<1> USE DEF IInv
<1>1. /\ pc[c] = "advance" /\ pc' = [pc EXCEPT ![c] = "idle"]
      /\ tails' = [tails EXCEPT ![c] = tails[c] + 1]
      /\ UNCHANGED <<buffer, head, consumer_count, out, producer, scan, count, min_tail>>
  BY DEF pop_advance
<1>2. /\ pc'[c] = "idle" /\ tails'[c] = tails[c] + 1 /\ tails[c] < head /\ tails[c] \in Nat
      /\ \A d \in Id : d # c => pc'[d] = pc[d] /\ tails'[d] = tails[d]
  BY <1>1 DEF Types, ConsumersInv
<1>3. Types'
  BY <1>1 DEF Types
<1>4. ConsumersInv'
  BY <1>1, <1>2 DEF ConsumersInv, Attached, Low, Types
<1>5. ProducerInv'
  BY <1>1, <1>2 DEF ProducerInv, Attached, Low, Types, Sized
<1>6. BufferInv'
  BY <1>1, <1>2 DEF BufferInv, Attached, Low, Types, Sized
<1> QED
  BY <1>3, <1>4, <1>5, <1>6

-----------------------------------------------------------------------------

\* The invariant holds throughout.
LEMMA RingInvariant ==
  ASSUME Sized
  PROVE  Spec => []IInv
<1>1. Init => IInv
  BY InitInv
<1>2. IInv /\ [Next]_vars => IInv'
  <2> SUFFICES ASSUME IInv, [Next]_vars PROVE IInv'
    OBVIOUS
  <2>1. CASE UNCHANGED vars
    BY <2>1 DEF vars, IInv, Types, ConsumersInv, ProducerInv, BufferInv, Attached, Low
  <2>2. CASE register_id
    BY <2>2, RegisterIdInv
  <2>3. CASE Producer
    BY <2>3, PushBeginInv, PushScanInv, PushAdmitInv, PushWriteInv, PushPublishInv DEF Producer
  <2>4. ASSUME NEW c \in Id, ConsumerStep(c) PROVE IInv'
    BY <2>4, RegisterHeadInv, RegisterTailInv, PopTestInv, PopMoveInv, PopAdvanceInv
       DEF ConsumerStep
  <2> QED
    BY <2>1, <2>2, <2>3, <2>4 DEF Next
<1> QED
  BY <1>1, <1>2, PTL DEF Spec

\* push() never overwrites an item that a registered consumer has yet to pop,
\* whatever the order of registrations, scans of the tails and pops.
THEOREM UnreadItemsKept ==
  ASSUME Sized
  PROVE  Spec => []NothingOverwritten
<1>1. IInv => NothingOverwritten
  BY DEF IInv, BufferInv, NothingOverwritten, Attached, Low
<1> QED
  BY <1>1, RingInvariant, PTL

\* Each consumer pops every item pushed since it registered, in order.
THEOREM ItemsFannedOut ==
  ASSUME Sized
  PROVE  Spec => []EachReceivesAll
<1>1. IInv => EachReceivesAll
  BY DEF IInv, ConsumersInv, EachReceivesAll
<1> QED
  BY <1>1, RingInvariant, PTL
=============================================================================

--------------------------- MODULE LastValueProofs ---------------------------
(***************************************************************************)
(* Proofs about last_value and last_value_snapshot, for values of any size *)
(* and any number of stores: what a reader that races the writer copies.   *)
(***************************************************************************)
EXTENDS LastValue, TLAPS

Sized == Buffers \in {1, 2} /\ Words \in Nat \ {0}

Buffer == 0 .. Buffers - 1

Types ==
    /\ buffers \in [Buffer -> [Word -> Nat]]
    /\ active_index \in Buffer /\ idx \in Buffer
    /\ epoch \in Nat /\ e \in Nat /\ begun \in Nat
    /\ writer \in [at : {"idle", "write", "index", "epoch"}, word : Word]
    /\ reader \in [at : {"idle", "index", "copy", "done"}, word : Word]
    /\ copy \in [Word -> Nat]

\* What the buffers hold while store() proceeds: the target fills word by word,
\* and the active buffer is whole unless it is the target.
WriterInv ==
    /\ \A w \in Word : buffers[active_index][w] >= epoch
    /\ writer.at = "write" =>
          \A w \in Word : w < writer.word => buffers[Target][w] = epoch + 1
    /\ writer.at = "index" => \A w \in Word : buffers[Target][w] = epoch + 1
    /\ writer.at = "epoch" => \A w \in Word : buffers[active_index][w] = epoch + 1
    /\ writer.at = "idle" \/ (writer.at \in {"write", "index"} /\ Buffers = 2) =>
          \A w \in Word : buffers[active_index][w] = epoch

Copied(w) == reader.at = "done" \/ w < reader.word

\* Whatever the overlap, no word is older than the epoch that was loaded.
EpochInv ==
    /\ reader.at # "idle" => e <= epoch
    /\ reader.at = "index" => reader.word = 1
    /\ reader.at \in {"copy", "done"} =>
          \A w \in Word : buffers[idx][w] >= e /\ (Copied(w) => copy[w] >= e)

\* While fewer stores overlap the load than there are buffers, the buffer that
\* is copied is whole and is not the one being written.
ReaderInv ==
    /\ reader.at # "idle" /\ writer.at # "idle" => begun >= 1
    /\ reader.at \in {"copy", "done"} /\ begun < Buffers =>
          /\ \A v, w \in Word : buffers[idx][v] = buffers[idx][w]
          /\ \A w \in Word : Copied(w) => copy[w] = buffers[idx][w]
          /\ begun = 0 \/ writer.at \in {"write", "index"} => idx = active_index

IInv == Types /\ WriterInv /\ EpochInv /\ ReaderInv

\* The only other buffer, or the same one.
LEMMA TargetCases ==
  ASSUME Sized, active_index \in Buffer
  PROVE  /\ Buffers = 1 => Target = active_index /\ active_index = 0
         /\ Buffers = 2 => Target = 1 - active_index
         /\ Target \in Buffer
<1>1. CASE Buffers = 1
  BY <1>1 DEF Buffer, Target
<1>2. CASE Buffers = 2
  <2>1. active_index = 0 \/ active_index = 1
    BY <1>2 DEF Buffer
  <2> QED
    BY <1>2, <2>1 DEF Buffer, Target
<1> QED
  BY <1>1, <1>2 DEF Sized

\* The new slot is whole and nobody reads it.
LEMMA InitInv ==
  ASSUME Sized, Init
  PROVE  IInv
<1>1. Types
  BY DEF Sized, Init, Types, Buffer, Word
<1>2. WriterInv
  BY <1>1 DEF Init, WriterInv, Types, Buffer, Sized
<1>3. EpochInv /\ ReaderInv
  BY DEF Init, EpochInv, ReaderInv
<1> QED
  BY <1>1, <1>2, <1>3 DEF IInv

-----------------------------------------------------------------------------
\* The writer's steps.

\* A store that begins overlaps a load under way.
LEMMA StoreBeginInv ==
  ASSUME Sized, IInv, store_begin
  PROVE  IInv'
<1> USE DEF IInv
<1>1. /\ writer.at = "idle" /\ writer' = [at |-> "write", word |-> 1]
      /\ begun' = IF reader.at = "idle" THEN 0 ELSE begun + 1
      /\ UNCHANGED <<buffers, active_index, epoch, reader, e, idx, copy, last_epoch>>
  BY DEF store_begin, unread
<1>2. Types'
  <2>1. writer' \in [at : {"idle", "write", "index", "epoch"}, word : Word] /\ begun' \in Nat
    BY <1>1 DEF Types, Word, Sized
  <2> QED
    BY <1>1, <2>1 DEF Types
<1>3. WriterInv'
  BY <1>1 DEF WriterInv, Word, Target
<1>4. EpochInv'
  BY <1>1 DEF EpochInv, Copied
<1>5. ReaderInv'
  BY <1>1 DEF ReaderInv, Copied, Types, Sized
<1> QED
  BY <1>2, <1>3, <1>4, <1>5

\* A word of the target changes; a reader that few stores overlap copies the
\* other buffer.
LEMMA StoreWordInv ==
  ASSUME Sized, IInv, store_word
  PROVE  IInv'
<1> USE DEF IInv
<1>1. /\ writer.at = "write"
      /\ buffers' = [buffers EXCEPT ![Target][writer.word] = epoch + 1]
      /\ UNCHANGED <<active_index, epoch, reader, e, idx, copy, last_epoch, begun>>
      /\ writer' = IF writer.word < Words THEN [writer EXCEPT !.word = @ + 1]
                   ELSE [writer EXCEPT !.at = "index"]
  BY DEF store_word, unread
<1>2. Target \in Buffer /\ writer.word \in Word /\ Target' = Target
  BY <1>1, TargetCases DEF Types, Target
<1>3. /\ buffers'[Target][writer.word] = epoch + 1
      /\ \A b \in Buffer, w \in Word :
            b # Target \/ w # writer.word => buffers'[b][w] = buffers[b][w]
  BY <1>1, <1>2 DEF Types
<1>4. Types'
  <2>1. buffers' \in [Buffer -> [Word -> Nat]]
    BY <1>1, <1>2 DEF Types
  <2>2. writer' \in [at : {"idle", "write", "index", "epoch"}, word : Word]
    <3>1. CASE writer.word < Words
      <4>1. writer.word + 1 \in Word
        BY <1>2, <3>1 DEF Word, Sized
      <4>2. writer' = [writer EXCEPT !.word = writer.word + 1]
        BY <1>1, <3>1
      <4> QED
        BY <4>1, <4>2 DEF Types
    <3>2. CASE ~(writer.word < Words)
      BY <1>1, <3>2 DEF Types
    <3> QED
      BY <3>1, <3>2
  <2> QED
    BY <1>1, <2>1, <2>2 DEF Types
<1>5. \A w \in Word : w < writer.word => buffers'[Target][w] = epoch + 1
  BY <1>1, <1>2, <1>3 DEF WriterInv, Types, Word, Sized
<1>6. \A w \in Word : buffers'[active_index][w] >= epoch
  BY <1>2, <1>3 DEF WriterInv, Types
<1>7. Buffers = 2 => \A w \in Word : buffers'[active_index][w] = epoch
  BY <1>1, <1>3, TargetCases DEF WriterInv, Types, Buffer
<1>8. WriterInv'
  <2>1. CASE writer.word < Words
    <3>1. writer'.at = "write" /\ writer'.word = writer.word + 1
      BY <1>1, <2>1 DEF Types
    <3>2. \A w \in Word : w < writer.word + 1 => buffers'[Target][w] = epoch + 1
      BY <1>2, <1>3, <1>5 DEF Word, Sized
    <3> QED
      BY <1>1, <1>2, <1>6, <1>7, <3>1, <3>2 DEF WriterInv
  <2>2. CASE ~(writer.word < Words)
    <3>1. writer'.at = "index" /\ writer.word = Words
      BY <1>1, <1>2, <2>2 DEF Types, Word, Sized
    <3>2. \A w \in Word : buffers'[Target][w] = epoch + 1
      BY <1>3, <1>5, <3>1 DEF Word, Sized
    <3> QED
      BY <1>1, <1>2, <1>6, <1>7, <3>1, <3>2 DEF WriterInv
  <2> QED
    BY <2>1, <2>2
<1>9. EpochInv'
  BY <1>1, <1>3 DEF EpochInv, Copied, Types
<1>10. writer'.at \in {"write", "index"}
  BY <1>1 DEF Types
<1>11. ASSUME reader.at \in {"copy", "done"}, begun < Buffers
       PROVE  idx = active_index /\ \A w \in Word : buffers'[idx][w] = buffers[idx][w]
  <2>1. begun >= 1 /\ idx = active_index
    BY <1>1, <1>11 DEF ReaderInv
  <2>2. Buffers = 2
    BY <1>11, <2>1 DEF Types, Sized
  <2>3. idx # Target
    BY <2>1, <2>2, TargetCases DEF Types, Buffer
  <2> QED
    BY <1>3, <2>1, <2>3 DEF Types
<1>12. ReaderInv'
  BY <1>1, <1>10, <1>11 DEF ReaderInv, Copied
<1> QED
  BY <1>4, <1>8, <1>9, <1>12

\* The target becomes the active buffer; a reader keeps the index it loaded.
LEMMA StoreIndexInv ==
  ASSUME Sized, IInv, store_index
  PROVE  IInv'
<1> USE DEF IInv
<1>1. /\ writer.at = "index" /\ active_index' = Target
      /\ writer' = [writer EXCEPT !.at = "epoch"]
      /\ UNCHANGED <<buffers, epoch, reader, e, idx, copy, last_epoch, begun>>
  BY DEF store_index, unread
<1>2. Types'
  BY <1>1, TargetCases DEF Types
<1>3. writer'.at = "epoch"
  BY <1>1 DEF Types
<1>4. WriterInv'
  BY <1>1, <1>3 DEF WriterInv, Types
<1>5. EpochInv'
  BY <1>1 DEF EpochInv, Copied
<1>6. ReaderInv'
  BY <1>1, <1>3 DEF ReaderInv, Copied, Types
<1> QED
  BY <1>2, <1>4, <1>5, <1>6

\* The epoch catches up with the active buffer.
LEMMA StoreEpochInv ==
  ASSUME Sized, IInv, store_epoch
  PROVE  IInv'
<1> USE DEF IInv
<1>1. /\ writer.at = "epoch" /\ epoch' = epoch + 1
      /\ writer' = [writer EXCEPT !.at = "idle"]
      /\ UNCHANGED <<buffers, active_index, reader, e, idx, copy, last_epoch, begun>>
  BY DEF store_epoch, unread
<1>2. Types'
  BY <1>1 DEF Types
<1>3. writer'.at = "idle"
  BY <1>1 DEF Types
<1>4. WriterInv'
  BY <1>1, <1>3 DEF WriterInv, Types
<1>5. EpochInv'
  BY <1>1 DEF EpochInv, Copied, Types
<1>6. ReaderInv'
  BY <1>1, <1>3 DEF ReaderInv, Copied, Types
<1> QED
  BY <1>2, <1>4, <1>5, <1>6

-----------------------------------------------------------------------------
\* The reader's steps.

\* A load begins with no overlap but that of a store under way.
LEMMA LoadEpochInv ==
  ASSUME Sized, IInv, load_epoch
  PROVE  IInv'
<1> USE DEF IInv
<1>1. /\ e' = epoch /\ begun' = (IF writer.at = "idle" THEN 0 ELSE 1)
      /\ reader' = [at |-> "index", word |-> 1]
      /\ UNCHANGED <<buffers, active_index, epoch, writer, idx, copy, last_epoch>>
  BY DEF load_epoch
<1>2. Types'
  <2>1. reader' \in [at : {"idle", "index", "copy", "done"}, word : Word] /\ begun' \in Nat
    BY <1>1 DEF Word, Sized
  <2> QED
    BY <1>1, <2>1 DEF Types
<1>3. WriterInv'
  BY <1>1 DEF WriterInv, Target
<1>4. EpochInv' /\ ReaderInv'
  BY <1>1 DEF EpochInv, ReaderInv, Types
<1> QED
  BY <1>2, <1>3, <1>4

\* The active buffer is whole, unless the one buffer is being written.
LEMMA LoadIndexInv ==
  ASSUME Sized, IInv, load_index
  PROVE  IInv'
<1> USE DEF IInv
<1>1. /\ reader.at = "index" /\ idx' = active_index
      /\ reader' = [reader EXCEPT !.at = "copy"]
      /\ UNCHANGED <<buffers, active_index, epoch, writer, e, copy, last_epoch, begun>>
  BY DEF load_index
<1>2. Types'
  BY <1>1 DEF Types
<1>3. WriterInv'
  BY <1>1 DEF WriterInv, Target
<1>4. reader.word = 1 /\ reader'.word = 1 /\ reader'.at = "copy"
  BY <1>1 DEF Types, EpochInv
<1>5. EpochInv'
  <2>1. e <= epoch /\ e \in Nat /\ epoch \in Nat
    BY <1>1 DEF EpochInv, Types
  <2>2. \A w \in Word : buffers[active_index][w] \in Nat /\ buffers[active_index][w] >= epoch
    BY DEF WriterInv, Types
  <2>3. \A w \in Word : buffers[active_index][w] >= e
    BY <2>1, <2>2
  <2>4. \A w \in Word : ~Copied(w)'
    BY <1>4 DEF Copied, Word, Sized
  <2> QED
    BY <1>1, <1>4, <2>1, <2>3, <2>4 DEF EpochInv
<1>6. ASSUME begun < Buffers
      PROVE  \A v, w \in Word : buffers[active_index][v] = buffers[active_index][w]
  <2>1. writer.at = "idle" \/ Buffers = 2
    BY <1>1, <1>6 DEF ReaderInv, Types, Sized
  <2> QED
    BY <2>1 DEF WriterInv, Types
<1>7. ReaderInv'
  BY <1>1, <1>4, <1>6 DEF ReaderInv, Copied, Types, Word, Sized
<1> QED
  BY <1>2, <1>3, <1>5, <1>7

\* One more word is copied from the buffer of the index.
LEMMA LoadWordInv ==
  ASSUME Sized, IInv, load_word
  PROVE  IInv'
<1> USE DEF IInv
<1>1. /\ reader.at = "copy"
      /\ copy' = [copy EXCEPT ![reader.word] = buffers[idx][reader.word]]
      /\ UNCHANGED <<buffers, active_index, epoch, writer, e, idx, last_epoch, begun>>
      /\ reader' = IF reader.word < Words THEN [reader EXCEPT !.word = @ + 1]
                   ELSE [reader EXCEPT !.at = "done"]
  BY DEF load_word
<1>2. reader.word \in Word /\ idx \in Buffer
  BY DEF Types
<1>3. /\ copy'[reader.word] = buffers[idx][reader.word]
      /\ \A w \in Word : w # reader.word => copy'[w] = copy[w]
  BY <1>1, <1>2 DEF Types
<1>4. Types'
  <2>1. copy' \in [Word -> Nat]
    BY <1>1, <1>2 DEF Types
  <2>2. reader' \in [at : {"idle", "index", "copy", "done"}, word : Word]
    <3>1. CASE reader.word < Words
      <4>1. reader.word + 1 \in Word
        BY <1>2, <3>1 DEF Word, Sized
      <4>2. reader' = [reader EXCEPT !.word = reader.word + 1]
        BY <1>1, <3>1
      <4> QED
        BY <4>1, <4>2 DEF Types
    <3>2. CASE ~(reader.word < Words)
      BY <1>1, <3>2 DEF Types
    <3> QED
      BY <3>1, <3>2
  <2> QED
    BY <1>1, <2>1, <2>2 DEF Types
<1>5. WriterInv'
  BY <1>1 DEF WriterInv, Target
<1>6. reader'.at \in {"copy", "done"}
  BY <1>1 DEF Types
<1>7. \A w \in Word : Copied(w)' => w = reader.word \/ Copied(w)
  <2>1. CASE reader.word < Words
    <3>1. reader'.at = "copy" /\ reader'.word = reader.word + 1
      BY <1>1, <2>1 DEF Types
    <3> QED
      BY <1>2, <3>1 DEF Copied, Word, Sized
  <2>2. CASE ~(reader.word < Words)
    BY <1>2, <2>2 DEF Copied, Word, Sized
  <2> QED
    BY <2>1, <2>2
<1>8. EpochInv'
  BY <1>1, <1>2, <1>3, <1>6, <1>7 DEF EpochInv
<1>9. ReaderInv'
  BY <1>1, <1>2, <1>3, <1>6, <1>7 DEF ReaderInv
<1> QED
  BY <1>4, <1>5, <1>8, <1>9

\* Nothing is claimed of an idle reader.
LEMMA LoadReturnInv ==
  ASSUME Sized, IInv, load_return
  PROVE  IInv'
<1> USE DEF IInv
<1>1. /\ reader' = [reader EXCEPT !.at = "idle"]
      /\ UNCHANGED <<buffers, active_index, epoch, writer, e, idx, copy, begun>>
  BY DEF load_return
<1>2. Types' /\ reader'.at = "idle"
  BY <1>1 DEF Types
<1>3. WriterInv'
  BY <1>1 DEF WriterInv, Target
<1>4. EpochInv' /\ ReaderInv'
  BY <1>2 DEF EpochInv, ReaderInv
<1> QED
  BY <1>2, <1>3, <1>4

-----------------------------------------------------------------------------

\* The invariant holds throughout.
LEMMA SlotInvariant ==
  ASSUME Sized
  PROVE  Spec => []IInv
<1>1. Init => IInv
  BY InitInv
<1>2. IInv /\ [Next]_vars => IInv'
  <2> SUFFICES ASSUME IInv, [Next]_vars PROVE IInv'
    OBVIOUS
  <2>1. CASE UNCHANGED vars
    BY <2>1 DEF vars, IInv, Types, WriterInv, EpochInv, ReaderInv, Copied, Target
  <2>2. CASE store
    BY <2>2, StoreBeginInv, StoreWordInv, StoreIndexInv, StoreEpochInv DEF store
  <2>3. CASE load_if_updated
    BY <2>3, LoadEpochInv, LoadIndexInv, LoadWordInv, LoadReturnInv DEF load_if_updated
  <2> QED
    BY <2>1, <2>2, <2>3 DEF Next
<1> QED
  BY <1>1, <1>2, PTL DEF Spec

\* A load that fewer stores overlap than the slot has buffers copies the words
\* of one store: any load of last_value that no store overlaps, any load of
\* last_value_snapshot that one store overlaps.
THEOREM LoadsAreWhole ==
  ASSUME Sized
  PROVE  Spec => []NoTornRead
<1>1. IInv => NoTornRead
  BY DEF IInv, ReaderInv, NoTornRead, Copied
<1> QED
  BY <1>1, SlotInvariant, PTL

\* However many stores overlap it, a load never returns a word older than the
\* epoch that it remembers.
THEOREM LoadsAreRecent ==
  ASSUME Sized
  PROVE  Spec => []NeverOlderThanEpoch
<1>1. IInv => NeverOlderThanEpoch
  BY DEF IInv, EpochInv, NeverOlderThanEpoch, Copied
<1> QED
  BY <1>1, SlotInvariant, PTL
=============================================================================

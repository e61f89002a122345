----------------------------- MODULE SegmentFile -----------------------------
(***************************************************************************)
(* One segment file of the write-ahead log, byte layout included: the      *)
(* SegmentWriter that fills, closes and reopens it (recorder), the header, *)
(* block headers and checksums it leaves behind (segment/), and the        *)
(* SegmentReader that verifies, indexes and reads it (recovery).           *)
(* The file is preallocated, so every block is there from the start, as    *)
(* zeros.  XXH64 is taken to be free of collisions: a hash is the pair of  *)
(* what is hashed and the seed.  Closed, the file may be damaged in one    *)
(* place: a field changes, or a block is another block, zeros, or what it  *)
(* was before its last write.                                              *)
(***************************************************************************)
EXTENDS Naturals, Sequences, SequencesExt

CONSTANTS BlockEvents,   \* WAL_BLOCK_EVENTS
          NumBlocks,     \* num_blocks_
          MaxEvents      \* bound: events appended

VARIABLES phase,     \* "absent", "open", "closed", "removed", "reading" or "refused"
          file,      \* the bytes: [header, blocks]
          writer,    \* SegmentWriter: [header, block, block_index, prev_chained]
          damaged,   \* what was damaged: "none", "block ids" or "other"
          reader,    \* SegmentReader: [block, next]
          sought,    \* the argument of the last seek(), 0 before the first
          written,   \* history: the events appended
          out        \* history: what next() returned since the open or the seek

segmentVars == <<phase, file, writer, damaged, reader, sought, written, out>>

-----------------------------------------------------------------------------
(* Checksums and headers.                                                  *)

XXH64(data, seed) == <<data, seed>>
Zero == <<>>           \* the hash field never written, and the first seed

(* Event identifiers leave gaps, and 0 is none.                            *)
Event(k) == [id |-> 2 * k, data |-> "sent"]
NoEvent  == [id |-> 0, data |-> "zero"]

ZeroBlock ==
    [first_event_id |-> 0, last_event_id |-> 0, block_checksum |-> Zero,
     chained_checksum |-> Zero, checksum |-> Zero, block_index |-> 0, event_count |-> 0,
     events |-> [i \in 1 .. BlockEvents |-> NoEvent]]

Events(b) == SubSeq(b.events, 1, b.event_count)

(* Everything but the checksum itself: what stands before it seeds what    *)
(* stands behind it.                                                       *)
BlockHeaderSum(b) ==
    XXH64(<<b.block_index, b.event_count>>,
          XXH64(<<b.first_event_id, b.last_event_id, b.block_checksum,
                  b.chained_checksum>>, Zero))

(* Block::finalize and BlockHeader::finalize                               *)
finalize_block(b, index, prev_chained) ==
    LET c == [b EXCEPT !.block_index = index,
                       !.block_checksum = XXH64(Events(b), Zero),
                       !.chained_checksum = XXH64(Events(b), prev_chained)]
    IN  [c EXCEPT !.checksum = BlockHeaderSum(c)]

(* BlockHeader::validate_data                                              *)
validate_header(b) ==
    /\ b.event_count \in 1 .. BlockEvents
    /\ b.first_event_id # 0 /\ b.last_event_id # 0
    /\ b.first_event_id <= b.last_event_id
    /\ b.block_index <= NumBlocks

(* Block::validate_data                                                    *)
validate_data(b) ==
    /\ validate_header(b)
    /\ \A i \in 2 .. b.event_count : b.events[i - 1].id < b.events[i].id

(* Mutant: the chain is not followed.                                      *)
ValidateBlockOnly(b, prev_chained) == XXH64(Events(b), Zero) = b.block_checksum

validate_checksums(b, prev_chained) ==
    /\ XXH64(Events(b), Zero) = b.block_checksum
    /\ XXH64(Events(b), prev_chained) = b.chained_checksum

(* Block::verify: the checksum of the block header itself is not looked at. *)
verify_block(b, prev_chained) == validate_data(b) /\ validate_checksums(b, prev_chained)

SegmentHeaderSum(h) ==
    XXH64(<<h.last_chained>>,
          XXH64(<<h.magic, h.block_count, h.event_count, h.first_event_id,
                  h.last_event_id>>, Zero))

(* Header::finalize                                                        *)
finalize_header(h, chained) ==
    LET g == [h EXCEPT !.last_chained = chained]
    IN  [g EXCEPT !.checksum = SegmentHeaderSum(g)]

(* Header::verify                                                          *)
verify_header(h) == h.checksum = SegmentHeaderSum(h) /\ h.magic = "good"

(* verify_full_segment_integrity: every block the header counts, against   *)
(* the chained checksum of the one before, the last against the header.    *)
verify_full_segment_integrity(f) ==
    LET n        == f.header.block_count
        chain[i \in 0 .. NumBlocks] ==
            IF i = 0 THEN Zero ELSE f.blocks[i].chained_checksum
    IN  /\ verify_header(f.header)
        /\ n <= NumBlocks
        /\ \A i \in 1 .. n : verify_block(f.blocks[i], chain[i - 1])
        /\ chain[n] = f.header.last_chained

-----------------------------------------------------------------------------
(* SegmentWriter                                                           *)

NewHeader ==
    [magic |-> "good", block_count |-> 0, event_count |-> 0, first_event_id |-> 0,
     last_event_id |-> 0, last_chained |-> Zero, checksum |-> Zero]

NoWriter == [header |-> NewHeader, block |-> ZeroBlock, block_index |-> 0, prev_chained |-> Zero]

Init ==
    /\ phase = "absent"
    /\ file = [header |-> NewHeader, blocks |-> [i \in 1 .. NumBlocks |-> ZeroBlock]]
    /\ writer = NoWriter
    /\ damaged = "none"
    /\ reader = [block |-> 1, next |-> 1]
    /\ sought = 0
    /\ written = <<>>
    /\ out = <<>>

open_new_file ==
    /\ phase = "absent"
    /\ phase' = "open"
    /\ file' = [header |-> NewHeader, blocks |-> [i \in 1 .. NumBlocks |-> ZeroBlock]]
    /\ writer' = NoWriter
    /\ UNCHANGED <<damaged, reader, sought, written, out>>

(* write_block_, on the writer and the file.                               *)
write_block(w, f) ==
    LET b == finalize_block(w.block, w.block_index, w.prev_chained)
    IN  [writer |-> [header |-> [w.header EXCEPT !.block_count = w.block_index + 1],
                     block |-> ZeroBlock,
                     block_index |-> w.block_index + 1,
                     prev_chained |-> b.chained_checksum],
         file   |-> [f EXCEPT !.blocks[w.block_index + 1] = b]]

(* The event in the block in memory, and in the segment header.            *)
AddEvent(w, e) ==
    LET n == w.block.event_count
    IN  [w EXCEPT
           !.block.first_event_id = IF n = 0 THEN e.id ELSE @,
           !.block.last_event_id = e.id,
           !.block.events[n + 1] = e,
           !.block.event_count = n + 1,
           !.header.first_event_id = IF @ = 0 THEN e.id ELSE @,
           !.header.last_event_id = e.id,
           !.header.event_count = @ + 1]

(* append(), which the manager calls only while the segment is not full.   *)
append ==
    /\ phase = "open" /\ writer.block_index < NumBlocks /\ Len(written) < MaxEvents
    /\ LET e == Event(Len(written) + 1)
           w == AddEvent(writer, e)
           r == IF w.block.event_count = BlockEvents THEN write_block(w, file)
                ELSE [writer |-> w, file |-> file]
       IN  writer' = r.writer /\ file' = r.file /\ written' = Append(written, e)
    /\ UNCHANGED <<phase, damaged, reader, sought, out>>

(* flush_partial                                                           *)
flush_partial(w, f) ==
    IF w.block.event_count > 0 THEN write_block(w, f) ELSE [writer |-> w, file |-> f]

(* close_file_: the partial block, then finalize_segment_header_.          *)
close_file ==
    LET r == flush_partial(writer, file)
    IN  /\ file' = [r.file EXCEPT
                      !.header = finalize_header(r.writer.header, r.writer.prev_chained)]
        /\ phase' = "closed"

close_segment ==
    /\ phase = "open"
    /\ close_file
    /\ writer' = NoWriter
    /\ UNCHANGED <<damaged, reader, sought, written, out>>

(* The destructor of a writer that was not closed: a segment without       *)
(* events is removed.                                                      *)
force_close_or_remove ==
    /\ phase = "open"
    /\ IF writer.header.last_event_id # 0 THEN close_file
       ELSE phase' = "absent" /\ UNCHANGED file
    /\ writer' = NoWriter
    /\ UNCHANGED <<damaged, reader, sought, written, out>>

(* Mutant: the chain starts again behind the blocks that are there.        *)
RestoreForgetsChain(f) ==
    LET n    == f.header.block_count
        full == Len(SelectSeq(SubSeq(f.blocks, 1, n), LAMBDA b : b.event_count = BlockEvents))
    IN  [header |-> f.header,
         block |-> IF full < n THEN f.blocks[full + 1] ELSE ZeroBlock,
         block_index |-> full, prev_chained |-> Zero]

(* restore_append_position_: behind the full blocks; a partial one goes    *)
(* back to memory, to be filled and written again in its place.            *)
restore_append_position(f) ==
    LET n    == f.header.block_count
        full == Len(SelectSeq(SubSeq(f.blocks, 1, n), LAMBDA b : b.event_count = BlockEvents))
    IN  [header |-> f.header,
         block |-> IF full < n THEN f.blocks[full + 1] ELSE ZeroBlock,
         block_index |-> full,
         prev_chained |-> IF full = 0 THEN Zero ELSE f.blocks[full].chained_checksum]

(* open_existing_file_.  A file that does not verify is left open with     *)
(* nothing counted as written, and the writer's destructor removes it.     *)
open_existing_file ==
    /\ phase = "closed"
    /\ IF verify_full_segment_integrity(file)
       THEN phase' = "open" /\ writer' = restore_append_position(file)
       ELSE phase' = "removed" /\ UNCHANGED writer
    /\ UNCHANGED <<file, damaged, reader, sought, written, out>>

-----------------------------------------------------------------------------
(* Damage to the closed file.                                              *)

HeaderField == {"block_count", "event_count", "first_event_id", "last_event_id",
                "last_chained", "checksum", "magic"}
BlockIds    == {"first_event_id", "last_event_id", "block_index", "checksum"}
BlockSums   == {"block_checksum", "chained_checksum"}

(* A value the field did not have.                                         *)
Other(v, field) ==
    CASE field = "magic" -> {"bad"}
      [] field \in BlockSums \cup {"last_chained", "checksum"} -> {<<"junk">>}
      [] OTHER -> (0 .. NumBlocks * BlockEvents + 1) \ {v}

(* The block before its last write: fewer events, its checksums right.     *)
Earlier(b, prev_chained) ==
    {finalize_block([b EXCEPT !.event_count = n, !.last_event_id = b.events[n].id,
                              !.events = [i \in 1 .. BlockEvents |->
                                            IF i <= n THEN b.events[i] ELSE NoEvent]],
                    b.block_index, prev_chained) : n \in 1 .. b.event_count - 1}

Misplaced(i) ==
    ({ZeroBlock} \cup {file.blocks[j] : j \in 1 .. file.header.block_count}
        \cup Earlier(file.blocks[i], IF i = 1 THEN Zero
                                     ELSE file.blocks[i - 1].chained_checksum))
        \ {file.blocks[i]}

Damage ==
    /\ phase = "closed" /\ damaged = "none"
    /\ \/ \E h \in HeaderField : \E v \in Other(file.header[h], h) :
             file' = [file EXCEPT !.header[h] = v] /\ damaged' = "other"
       \/ \E i \in 1 .. file.header.block_count :
             \/ \E h \in BlockIds \cup BlockSums \cup {"event_count"} :
                \E v \in Other(file.blocks[i][h], h) :
                   /\ file' = [file EXCEPT !.blocks[i][h] = v]
                   /\ damaged' = IF h \in BlockIds THEN "block ids" ELSE "other"
             \/ \E k \in 1 .. file.blocks[i].event_count :
                   /\ file' = [file EXCEPT !.blocks[i].events[k].data = "junk"]
                   /\ damaged' = "other"
             \/ \E b \in Misplaced(i) :
                   file' = [file EXCEPT !.blocks[i] = b] /\ damaged' = "other"
    /\ UNCHANGED <<phase, writer, reader, sought, written, out>>

-----------------------------------------------------------------------------
(* SegmentReader                                                           *)

(* valid_data_size_, in blocks.                                            *)
valid_blocks == file.header.block_count

(* open_segment: verify, and read the first block.                         *)
open_segment ==
    /\ phase = "closed"
    /\ IF verify_full_segment_integrity(file) /\ valid_blocks >= 1
       THEN phase' = "reading" /\ reader' = [block |-> 1, next |-> 1]
       ELSE phase' = "refused" /\ UNCHANGED reader
    /\ sought' = 0 /\ out' = <<>>
    /\ UNCHANGED <<file, writer, damaged, written>>

(* next: into the next block at the end of one, false at the end.          *)
next ==
    /\ phase = "reading"
    /\ LET at == IF reader.next <= file.blocks[reader.block].event_count THEN reader
                 ELSE [block |-> reader.block + 1, next |-> 1]
       IN  /\ at.block <= valid_blocks
           /\ reader' = [at EXCEPT !.next = @ + 1]
           /\ out' = Append(out, file.blocks[at.block].events[at.next])
    /\ UNCHANGED <<phase, file, writer, damaged, sought, written>>

(* The binary search over the index that build_index_internally_ took from *)
(* the block headers.                                                      *)
candidate(event_id) ==
    LET first(b) == file.blocks[b].first_event_id
        last(b)  == file.blocks[b].last_event_id
        search[left \in 1 .. NumBlocks + 1, right \in 0 .. NumBlocks, pos \in 1 .. NumBlocks] ==
            LET mid == left + (right - left) \div 2
            IN  IF left > right THEN pos
                ELSE IF first(mid) <= event_id /\ event_id <= last(mid) THEN mid
                ELSE IF event_id < first(mid)
                     THEN IF mid = 1 THEN 1 ELSE search[left, mid - 1, pos]
                ELSE search[mid + 1, right, mid]
    IN  search[1, valid_blocks, 1]

(* seek: the event or the next higher one; behind the last, the last.      *)
seek(event_id) ==
    /\ phase = "reading" /\ sought = 0
    /\ LET pos   == candidate(event_id)
           found == {i \in 1 .. file.blocks[pos].event_count :
                       file.blocks[pos].events[i].id >= event_id}
       IN  reader' = IF found # {}
                     THEN [block |-> pos,
                           next |-> CHOOSE i \in found : \A j \in found : i <= j]
                     ELSE IF pos < valid_blocks THEN [block |-> pos + 1, next |-> 1]
                     ELSE [block |-> pos, next |-> file.blocks[pos].event_count]
    /\ sought' = event_id
    /\ out' = <<>>
    /\ UNCHANGED <<phase, file, writer, damaged, written>>

close_reader ==
    /\ phase = "reading"
    /\ phase' = "closed"
    /\ out' = <<>> /\ sought' = 0
    /\ UNCHANGED <<file, writer, damaged, reader, written>>

Next ==
    \/ open_new_file \/ append \/ close_segment \/ force_close_or_remove
    \/ open_existing_file \/ Damage
    \/ open_segment \/ next \/ close_reader
    \/ \E t \in 1 .. 2 * MaxEvents + 1 : seek(t)

Spec == Init /\ [][Next]_segmentVars

-----------------------------------------------------------------------------

(* What a reader should return: from the first event at or above the one   *)
(* that was sought, from the last if there is none.                        *)
Expected ==
    LET from == {k \in DOMAIN written : written[k].id >= sought}
    IN  SubSeq(written, IF from = {} THEN Len(written)
                        ELSE CHOOSE k \in from : \A j \in from : k <= j, Len(written))

(* A segment that verifies returns the very events that were appended, in  *)
(* order, however often it was closed and reopened between them and        *)
(* whatever single damage the file took; one that took none is never       *)
(* refused or removed.  A seek is exact unless the damage is to the block headers'    *)
(* own fields, which no checksum that anyone compares covers.              *)
ReadsWhatWasWritten ==
    /\ phase = "reading" /\ (sought = 0 \/ damaged # "block ids")
          => IsPrefix(out, Expected)
    /\ phase = "reading" /\ damaged = "none"
          => (ENABLED next) = (Len(out) < Len(Expected))
    /\ phase = "refused" => damaged # "none" \/ written = <<>>
    /\ phase = "removed" => damaged # "none"
    /\ phase = "closed" /\ damaged = "none"
          => /\ file.header.event_count = Len(written)
             /\ written # <<>> => /\ file.header.first_event_id = Head(written).id
                                  /\ file.header.last_event_id = Last(written).id

=============================================================================

----------------------------- MODULE WalRecovery -----------------------------
(***************************************************************************)
(* flashstrike::wal::recovery: the Manager that replays a directory of     *)
(* segments from an event on, the SegmentReader it reads each one with,    *)
(* and the SegmentPreloader, a thread that opens and verifies the later    *)
(* segments ahead of it and closes the exhausted ones behind it.           *)
(***************************************************************************)
EXTENDS Naturals, Sequences, SequencesExt, FiniteSets

CONSTANTS BlockEvents,    \* WAL_BLOCK_EVENTS
          NumBlocks,      \* blocks of a segment
          MaxSegments,    \* bound: segments of the directory
          MaxPreloaded,   \* MAX_PRELOADED_SEGMENTS
          FinishedRing    \* WAL_RING_BUFFER_SIZE

VARIABLES segments_,      \* the scanned segments, in event order
          target,         \* the event the replay starts from
          pc,             \* the manager: "start", "ready", "spin", "join", "done"
          status,         \* what its last call returned
          reader_,        \* [segment, block, next], segment 0 for none
          prepared_ring_, \* segments opened ahead
          finished_ring_, \* segments to close
          worker,         \* the preloader: [state, future, done, stop]
          replayed        \* history: the events next() returned

manager == <<pc, status, reader_>>
vars    == <<segments_, target, manager, prepared_ring_, finished_ring_, worker, replayed>>

(***************************************************************************)
(* The directory.  Event identifiers leave gaps: the k-th event is 2k.  A  *)
(* header that does not read keeps a segment out of the replay at once, a  *)
(* block that does not verify only when the segment is opened.             *)
(***************************************************************************)
Conditions == {"intact", "corrupt", "unsealed"}

(* The block lengths of a segment: only the last block may be partial, and *)
(* only the last segment has fewer blocks than it can hold.                *)
Shapes == {shape \in BoundedSeq(1 .. BlockEvents, NumBlocks) :
             shape # <<>> /\ \A b \in 1 .. Len(shape) - 1 : shape[b] = BlockEvents}

FullShape == [b \in 1 .. NumBlocks |-> BlockEvents]

LengthOf(shape) == FoldLeft(+, 0, shape)

Segment(shape, condition, before) ==
    [condition |-> condition,
     blocks |-> [b \in DOMAIN shape |->
        [k \in 1 .. shape[b] |-> 2 * (before + LengthOf(SubSeq(shape, 1, b - 1)) + k)]]]

Directory(shapes, conditions) ==
    [s \in DOMAIN shapes |->
        Segment(shapes[s], conditions[s],
                FoldLeft(LAMBDA n, shape : n + LengthOf(shape), 0, SubSeq(shapes, 1, s - 1)))]

EventsOf(segment) == FlattenSeq(segment.blocks)

Readable(s) == segments_[s].condition # "unsealed"

NoReader == [segment |-> 0, block |-> 1, next |-> 1]

Init ==
    /\ \E n \in 1 .. MaxSegments, last \in Shapes : \E conditions \in [1 .. n -> Conditions] :
          segments_ = Directory([s \in 1 .. n |-> IF s = n THEN last ELSE FullShape],
                                conditions)
    /\ target \in 1 .. 1 + 2 * LengthOf(FlattenSeq([s \in DOMAIN segments_ |->
                        [b \in DOMAIN segments_[s].blocks |-> Len(segments_[s].blocks[b])]]))
    /\ pc = "start" /\ status = "none" /\ reader_ = NoReader
    /\ prepared_ring_ = <<>> /\ finished_ring_ = <<>>
    /\ worker = [state |-> "off", future |-> <<>>, done |-> FALSE, stop |-> FALSE]
    /\ replayed = <<>>

(***************************************************************************)
(* SegmentReader::seek: a binary search for the block, a scan for the      *)
(* event.                                                                  *)
(***************************************************************************)
candidate_block(blocks, event_id) ==
    LET first(b) == blocks[b][1]
        last(b)  == blocks[b][Len(blocks[b])]
        search[left \in 1 .. Len(blocks) + 1, right \in 0 .. Len(blocks),
               pos \in 1 .. Len(blocks)] ==
            LET mid == left + (right - left) \div 2
            IN  IF left > right THEN pos
                ELSE IF first(mid) <= event_id /\ event_id <= last(mid) THEN mid
                ELSE IF event_id < first(mid) THEN search[left, mid - 1, pos]
                ELSE search[mid + 1, right, mid]
    IN  search[1, Len(blocks), 1]

seek(s, event_id) ==
    LET blocks == segments_[s].blocks
        pos    == candidate_block(blocks, event_id)
        found  == {i \in DOMAIN blocks[pos] : blocks[pos][i] >= event_id}
    IN  IF found # {}
        THEN [segment |-> s, block |-> pos,
              next |-> CHOOSE i \in found : \A j \in found : i <= j]
        ELSE IF pos < Len(blocks) THEN [segment |-> s, block |-> pos + 1, next |-> 1]
        ELSE [segment |-> s, block |-> pos, next |-> Len(blocks[pos])]

(***************************************************************************)
(* Manager::resume_from_event                                              *)
(***************************************************************************)
Holding == {s \in DOMAIN segments_ :
              /\ Readable(s)
              /\ target <= Last(EventsOf(segments_[s]))}

Later(s) == SelectSeq([k \in 1 .. Len(segments_) - s |-> s + k],
                      Readable)

resume_from_event ==
    /\ pc = "start"
    /\ IF Holding = {}
       THEN /\ pc' = "done" /\ status' = "ITEM_NOT_FOUND"
            /\ UNCHANGED <<reader_, worker>>
       ELSE LET s == CHOOSE s \in Holding : \A t \in Holding : s <= t
            IN  /\ worker' = IF Later(s) = <<>> THEN worker
                             ELSE [worker EXCEPT !.state = "run", !.future = Later(s)]
                /\ IF segments_[s].condition = "intact"
                   THEN /\ reader_' = seek(s, target)
                        /\ pc' = "ready" /\ status' = "OK"
                   ELSE /\ pc' = "done" /\ status' = "SEGMENT_CORRUPTED"
                        /\ UNCHANGED reader_
    /\ UNCHANGED <<segments_, target, prepared_ring_, finished_ring_, replayed>>

(***************************************************************************)
(* Manager::next                                                           *)
(***************************************************************************)
Exhausted == /\ reader_.next > Len(segments_[reader_.segment].blocks[reader_.block])
             /\ reader_.block = Len(segments_[reader_.segment].blocks)

Return(r) ==
    LET blocks == segments_[r.segment].blocks
        at == IF r.next <= Len(blocks[r.block]) THEN r
              ELSE [r EXCEPT !.block = @ + 1, !.next = 1]
    IN  /\ replayed' = Append(replayed, blocks[at.block][at.next])
        /\ reader_' = [at EXCEPT !.next = @ + 1]
        /\ status' = "OK"
        /\ pc' = "ready"

next ==
    /\ pc = "ready" /\ ~Exhausted
    /\ Return(reader_)
    /\ UNCHANGED <<segments_, target, prepared_ring_, finished_ring_, worker>>

(* Mutant of AtEnd: an empty ring is the end of the log.                   *)
EndsOnEmptyRing == prepared_ring_ = <<>>

AtEnd == worker.done /\ prepared_ring_ = <<>>

(* A reader the full finished_ring_ does not take is closed at once.       *)
next_segment ==
    /\ pc = "ready" /\ Exhausted
    /\ finished_ring_' = IF Len(finished_ring_) < FinishedRing
                         THEN Append(finished_ring_, reader_.segment) ELSE finished_ring_
    /\ reader_' = NoReader
    /\ IF AtEnd
       THEN /\ worker' = [worker EXCEPT !.stop = TRUE]
            /\ pc' = "join"
       ELSE /\ pc' = "spin"
            /\ UNCHANGED worker
    /\ UNCHANGED <<segments_, target, status, prepared_ring_, replayed>>

fetch_preloaded ==
    /\ pc = "spin" /\ prepared_ring_ # <<>>
    /\ prepared_ring_' = Tail(prepared_ring_)
    /\ Return([NoReader EXCEPT !.segment = Head(prepared_ring_)])
    /\ UNCHANGED <<segments_, target, finished_ring_, worker>>

joined ==
    /\ pc = "join" /\ worker.state # "run"
    /\ pc' = "done" /\ status' = "ITEM_NOT_FOUND"
    /\ UNCHANGED <<segments_, target, reader_, prepared_ring_, finished_ring_, worker,
                   replayed>>

(***************************************************************************)
(* SegmentPreloader::run, one round of its loop                            *)
(***************************************************************************)
CloseFinished ==
    finished_ring_' = IF finished_ring_ = <<>> THEN <<>> ELSE Tail(finished_ring_)

preload_segment ==
    /\ worker.state = "run" /\ ~worker.stop
    /\ worker.future # <<>> /\ Len(prepared_ring_) < MaxPreloaded
    /\ worker' = [worker EXCEPT !.future = Tail(@)]
    /\ IF segments_[Head(worker.future)].condition = "intact"
       THEN /\ prepared_ring_' = Append(prepared_ring_, Head(worker.future))
            /\ CloseFinished
       ELSE UNCHANGED <<prepared_ring_, finished_ring_>>
    /\ UNCHANGED <<segments_, target, manager, replayed>>

preloading_done ==
    /\ worker.state = "run" /\ ~worker.stop
    /\ worker.future = <<>>
    /\ worker' = [worker EXCEPT !.done = TRUE]
    /\ CloseFinished
    /\ UNCHANGED <<segments_, target, manager, prepared_ring_, replayed>>

close_finished ==
    /\ worker.state = "run" /\ ~worker.stop
    /\ worker.future # <<>> /\ Len(prepared_ring_) >= MaxPreloaded
    /\ finished_ring_ # <<>>
    /\ CloseFinished
    /\ UNCHANGED <<segments_, target, manager, prepared_ring_, worker, replayed>>

worker_stops ==
    /\ worker.state = "run" /\ worker.stop
    /\ worker' = [worker EXCEPT !.state = "exited"]
    /\ UNCHANGED <<segments_, target, manager, prepared_ring_, finished_ring_, replayed>>

Preloader == preload_segment \/ preloading_done \/ close_finished \/ worker_stops

Next == \/ resume_from_event \/ next \/ next_segment \/ fetch_preloaded \/ joined
        \/ Preloader

(* The caller calls next() until it reports the end, and both threads run. *)
Fairness == /\ WF_vars(resume_from_event \/ next \/ next_segment \/ fetch_preloaded \/ joined)
            /\ WF_vars(Preloader)

Spec == Init /\ [][Next]_vars /\ Fairness

(***************************************************************************)
(* Properties                                                              *)
(***************************************************************************)

(* What the replay should return: every event from the target on that an   *)
(* intact segment holds, from the first segment whose header covers it.    *)
Expected ==
    IF Holding = {} THEN <<>>
    ELSE LET s == CHOOSE s \in Holding : \A t \in Holding : s <= t
         IN  IF segments_[s].condition # "intact" THEN <<>>
             ELSE SelectSeq(FlattenSeq([k \in 1 .. Len(segments_) - s + 1 |->
                                IF segments_[s + k - 1].condition = "intact"
                                THEN EventsOf(segments_[s + k - 1]) ELSE <<>>]),
                            LAMBDA e : e >= target)

(* next() returns those events in order, none skipped and none twice,      *)
(* however the preloader is scheduled; and when it reports the end of the  *)
(* log, it has returned all of them.                                       *)
ReplayExact ==
    /\ IsPrefix(replayed, Expected)
    /\ pc = "done" => replayed = Expected

(* "Corrupted or invalid segments are skipped, but never block replay":    *)
(* next() returns.  Violated: when the last segment is exhausted before    *)
(* preloading_done_ is set, next() waits for a segment that never comes;   *)
(* without a later segment the preloader is never started, so the flag is  *)
(* never set and every replay to the end of such a log hangs.              *)
NextReturns == pc = "spin" ~> pc # "spin"

==============================================================================

----------------------------- MODULE WalRecorder -----------------------------
(***************************************************************************)
(* flashstrike::wal::recorder: the Manager that appends events, the        *)
(* SegmentPreparer that creates segment files ahead of it, the             *)
(* SegmentMaintainer that closes full segments and frees old ones, and the *)
(* MetaCoordinator that flushes the last segment index; with a process     *)
(* that may be killed at any step and started again on the same directory. *)
(* A killed process leaves the pages it mapped to the kernel, so what was  *)
(* written survives and what was still in memory is lost.                  *)
(* A checksum is modelled by the content it is computed from: the chained  *)
(* checksum of a segment is the sequence of its blocks.                    *)
(***************************************************************************)
EXTENDS Naturals, Sequences, FiniteSets, SequencesExt, FiniteSetsExt, Functions, TLC

CONSTANTS BlockEvents,      \* WAL_BLOCK_EVENTS
          NumBlocks,        \* num_blocks_: blocks of a segment
          HotCapacity,      \* wal_files_.capacity(), at least 2
          PersistCapacity,  \* segments_to_persist_.capacity()
          FreeCapacity,     \* segments_to_free_.capacity()
          PrepareCapacity,  \* PREPARE_QUEUE_CAPACITY
          MaxEvent,         \* bound: events appended
          MaxIndex,         \* bound: segment files prepared
          MaxStarts         \* bound: starts of the process

VARIABLES disk,        \* the segment files, by index
          meta_disk,   \* the index in wal_meta.dat: a set of at most one
          meta,        \* meta_store_ and its thread: [index, dirty, thread]
          process,     \* "down", "up" or "stopping"
          clean,       \* the last process shut down to the end
          starts,      \* starts of the process so far
          pc,          \* where the appending thread is
          writer,      \* writer_
          files,       \* wal_files_
          persist,     \* segments_to_persist_
          free,        \* segments_to_free_
          prepared,    \* the queue of the preparer
          next_index,  \* segment_index_ of the preparer
          waiting,     \* get_next_segment(): "no", "checked", "blocked"
          worker,      \* the maintainer: [pc, writer]
          next_event,  \* the next event identifier of the caller
          log,         \* history: events appended or found at the start
          freed        \* history: events of the segments freed since then

store  == <<disk, meta_disk>>
caller == <<pc, writer, files, waiting, next_event>>
rings  == <<persist, free, prepared>>
life   == <<process, clean, starts>>
past   == <<log, freed>>
vars   == <<store, meta, life, caller, rings, next_index, worker, past>>

(***************************************************************************)
(* Segment files.  A new file has a header without a checksum, so only a   *)
(* closed one verifies.                                                    *)
(***************************************************************************)
NewFile == [blocks |-> <<>>, sealed |-> FALSE, chain |-> <<>>]

NoMeta == [index |-> 0, dirty |-> FALSE, thread |-> "run"]

NoWriter == [index |-> 0, written |-> 0, block |-> <<>>]

(* What a reader finds in a file: the blocks its header covers.            *)
Recorded(file) == ToSet(FlattenSeq(file.chain))

Logged(files_of, indexes) == UNION {Recorded(files_of[i]) : i \in indexes}

verify(file) ==
    /\ file.sealed
    /\ Len(file.chain) <= Len(file.blocks)
    /\ SubSeq(file.blocks, 1, Len(file.chain)) = file.chain

segment_is_full(w) == w.written >= NumBlocks

write_block(file, w) ==
    [file EXCEPT !.blocks =
        SubSeq(@, 1, w.written) \o <<w.block>> \o SubSeq(@, w.written + 2, Len(@))]

finalize_segment_header(file, w) ==
    [file EXCEPT !.sealed = TRUE, !.chain = SubSeq(file.blocks, 1, w.written)]

(* A file that was removed while its writer holds it stays out of the      *)
(* directory.                                                              *)
Change(i, Op(_)) == [f \in DOMAIN disk |-> IF f = i THEN Op(disk[f]) ELSE disk[f]]

restore_append_position(i, file) ==
    LET full == Cardinality({b \in DOMAIN file.chain : Len(file.chain[b]) = BlockEvents})
    IN  [index |-> i, written |-> full,
         block |-> IF full < Len(file.chain) THEN file.chain[full + 1] ELSE <<>>]

(***************************************************************************)
(* Starting on a directory: the newest files are deleted until one         *)
(* verifies, and that one is reopened.                                     *)
(***************************************************************************)
(* Mutant of pop_last_scanned_until: the scan starts at the oldest file.   *)
StopsAtOldest(scanned, good) ==
    {i \in scanned : good # {} /\ i <= Min(good)}

pop_last_scanned_until(scanned, good) ==
    {i \in scanned : \E g \in good : i <= g}

recover_last_state(scanned) ==
    IF meta_disk # {} /\ (scanned = {} \/ Max(scanned) \in meta_disk)
    THEN scanned
    ELSE pop_last_scanned_until(scanned, {i \in scanned : disk[i].sealed})

prepare_first_segment_from_scanned(scanned) ==
    pop_last_scanned_until(scanned, {i \in scanned : verify(disk[i])})

restore_or_create_active_segment ==
    LET kept == prepare_first_segment_from_scanned(recover_last_state(DOMAIN disk))
    IN  IF kept = {}
        THEN /\ disk' = 0 :> NewFile
             /\ writer' = NoWriter
             /\ files' = <<>>
        ELSE /\ disk' = Restrict(disk, kept)
             /\ writer' = restore_append_position(Max(kept), disk[Max(kept)])
             /\ files' = SubSeq(SetToSortSeq(kept, <), 1,
                                Min({HotCapacity, Cardinality(kept)}))

Init ==
    /\ disk = << >>
    /\ meta_disk = {}
    /\ meta = NoMeta
    /\ process = "down" /\ clean = TRUE /\ starts = 0
    /\ pc = "idle" /\ writer = NoWriter /\ files = <<>> /\ waiting = "no"
    /\ persist = <<>> /\ free = <<>> /\ prepared = <<>> /\ next_index = 0
    /\ worker = [pc |-> "loop", writer |-> NoWriter]
    /\ next_event = 1
    /\ log = {} /\ freed = {}

initialize ==
    /\ process = "down" /\ starts < MaxStarts
    /\ process' = "up" /\ starts' = starts + 1
    /\ restore_or_create_active_segment
    /\ meta' = [NoMeta EXCEPT !.index = writer'.index, !.dirty = TRUE]
    /\ next_index' = writer'.index + 1
    /\ log' = Logged(disk', DOMAIN disk') /\ freed' = {}
    /\ UNCHANGED <<meta_disk, clean, pc, waiting, next_event, rings, worker>>

(* MetaCoordinator::update notifies with the mutex held, so never between  *)
(* the predicate and the wait of the flush thread.                         *)
update(index) ==
    /\ meta.thread # "checked"
    /\ meta' = [index |-> index, dirty |-> TRUE, thread |-> "run"]

(***************************************************************************)
(* Manager::append, by one thread.                                         *)
(***************************************************************************)
(* Mutant of WriteEvent: block_ is not reset once it is written.           *)
WriteKeepsBlock ==
    LET w == [writer EXCEPT !.block = Append(@, next_event)]
    IN  /\ IF Len(w.block) = BlockEvents
           THEN /\ disk' = Change(w.index, LAMBDA f : write_block(f, w))
                /\ writer' = [w EXCEPT !.written = @ + 1]
           ELSE /\ writer' = w
                /\ UNCHANGED disk
        /\ next_event' = next_event + 1
        /\ log' = log \cup {next_event}

WriteEvent ==
    LET w == [writer EXCEPT !.block = Append(@, next_event)]
    IN  /\ IF Len(w.block) = BlockEvents
           THEN /\ disk' = Change(w.index, LAMBDA f : write_block(f, w))
                /\ writer' = [w EXCEPT !.written = @ + 1, !.block = <<>>]
           ELSE /\ writer' = w
                /\ UNCHANGED disk
        /\ next_event' = next_event + 1
        /\ log' = log \cup {next_event}

append ==
    /\ process = "up" /\ next_event <= MaxEvent
    /\ \/ pc = "idle" /\ ~segment_is_full(writer)
       \/ pc = "write"
    /\ WriteEvent
    /\ pc' = "idle"
    /\ UNCHANGED <<meta_disk, meta, life, files, waiting, rings, next_index, worker, freed>>

rotate_segment ==
    /\ process = "up" /\ pc = "idle" /\ next_event <= MaxEvent
    /\ segment_is_full(writer)
    /\ IF Len(files) = HotCapacity
       THEN /\ Len(free) < FreeCapacity
            /\ free' = Append(free, Head(files))
            /\ files' = Append(Tail(files), writer.index)
       ELSE /\ files' = Append(files, writer.index)
            /\ UNCHANGED free
    /\ pc' = "persist"
    /\ UNCHANGED <<store, meta, life, writer, waiting, next_event, persist, prepared,
                   next_index, worker, past>>

persist_current_segment ==
    /\ pc = "persist" /\ process # "down"
    /\ Len(persist) < PersistCapacity
    /\ persist' = Append(persist, writer)
    /\ writer' = NoWriter
    /\ pc' = IF process = "stopping" THEN "join" ELSE "next"
    /\ UNCHANGED <<store, meta, life, files, waiting, next_event, free, prepared,
                   next_index, worker, past>>

prepare_next_segment ==
    /\ pc = "next" /\ waiting = "no" /\ prepared # <<>>
    /\ writer' = [NoWriter EXCEPT !.index = Head(prepared)]
    /\ prepared' = Tail(prepared)
    /\ update(Head(prepared))
    /\ pc' = "write"
    /\ UNCHANGED <<store, life, files, waiting, next_event, persist, free, next_index,
                   worker, past>>

(* cv_.wait: the predicate is evaluated, and then the thread blocks; the   *)
(* preparer notifies without the mutex that would join the two.            *)
WaitForSegment ==
    /\ pc = "next"
    /\ \/ waiting = "no" /\ prepared = <<>> /\ waiting' = "checked"
       \/ waiting = "checked" /\ waiting' = "blocked"
    /\ UNCHANGED <<store, meta, life, pc, writer, files, next_event, rings, next_index,
                   worker, past>>

(* shutdown() is called between two appends.                               *)
shutdown ==
    /\ process = "up" /\ pc = "idle"
    /\ process' = "stopping"
    /\ pc' = "persist"
    /\ UNCHANGED <<store, meta, clean, starts, writer, files, waiting, next_event, rings,
                   next_index, worker, past>>

maintainer_joined ==
    /\ pc = "join" /\ worker.pc = "exit"
    /\ update(meta.index)
    /\ pc' = "stop"
    /\ UNCHANGED <<store, life, writer, files, waiting, next_event, rings, next_index,
                   worker, past>>

(* MetaCoordinator::stop notifies without the mutex: a thread that has     *)
(* evaluated its predicate and not blocked yet misses it.                  *)
stop_meta ==
    /\ pc = "stop"
    /\ pc' = "meta"
    /\ meta' = [meta EXCEPT !.thread = IF @ = "blocked" THEN "run" ELSE @]
    /\ UNCHANGED <<store, life, writer, files, waiting, next_event, rings, next_index,
                   worker, past>>

Stopped ==
    /\ process' = "down"
    /\ meta' = NoMeta
    /\ pc' = "idle" /\ writer' = NoWriter /\ files' = <<>> /\ waiting' = "no"
    /\ persist' = <<>> /\ free' = <<>> /\ prepared' = <<>> /\ next_index' = 0
    /\ worker' = [pc |-> "loop", writer |-> NoWriter]
    /\ UNCHANGED <<meta_disk, starts, next_event, past>>

(* The meta thread has flushed, and SegmentPreparer::stop() unlinks what   *)
(* was prepared and not used.                                              *)
workers_joined ==
    /\ pc = "meta" /\ meta.thread = "exit"
    /\ disk' = Restrict(disk, DOMAIN disk \ ToSet(prepared))
    /\ clean' = TRUE
    /\ Stopped

kill ==
    /\ process # "down"
    /\ clean' = FALSE
    /\ Stopped
    /\ UNCHANGED disk

(***************************************************************************)
(* The background threads.                                                 *)
(***************************************************************************)
prepare_loop ==
    /\ process # "down"
    /\ Len(prepared) < PrepareCapacity /\ next_index <= MaxIndex
    /\ next_index' = next_index + 1
    /\ IF next_index \in DOMAIN disk
       THEN UNCHANGED <<disk, prepared, waiting>>
       ELSE /\ disk' = next_index :> NewFile @@ disk
            /\ prepared' = Append(prepared, next_index)
            /\ waiting' = IF waiting = "blocked" THEN "no" ELSE waiting
    /\ UNCHANGED <<meta_disk, meta, life, pc, writer, files, next_event, persist, free,
                   worker, past>>

flush_loop ==
    /\ process # "down" /\ meta.thread = "run" /\ meta.dirty
    /\ meta_disk' = {meta.index}
    /\ meta' = [meta EXCEPT !.dirty = FALSE]
    /\ UNCHANGED <<disk, life, caller, rings, next_index, worker, past>>

flush_loop_waits ==
    /\ process # "down" /\ ~meta.dirty
    /\ \/ /\ meta.thread = "run"
          /\ meta' = [meta EXCEPT !.thread = IF pc = "meta" THEN "exit" ELSE "checked"]
       \/ /\ meta.thread = "checked"
          /\ meta' = [meta EXCEPT !.thread = "blocked"]
    /\ UNCHANGED <<store, life, caller, rings, next_index, worker, past>>

(* close_segment: the partial block is written, then the header.           *)
flush_partial ==
    /\ worker.pc \in {"loop", "drain"} /\ persist # <<>>
    /\ LET w == Head(persist)
       IN  /\ disk' = IF w.block = <<>> THEN disk
                      ELSE Change(w.index, LAMBDA f : write_block(f, w))
           /\ worker' = [pc |-> IF worker.pc = "loop" THEN "seal" ELSE "drain_seal",
                         writer |-> IF w.block = <<>> THEN w
                                    ELSE [w EXCEPT !.written = @ + 1, !.block = <<>>]]
    /\ persist' = Tail(persist)
    /\ UNCHANGED <<meta_disk, meta, life, caller, free, prepared, next_index, past>>

persist_next_segment ==
    /\ worker.pc \in {"seal", "drain_seal"}
    /\ disk' = Change(worker.writer.index, LAMBDA f : finalize_segment_header(f, worker.writer))
    /\ worker' = [pc |-> IF worker.pc = "seal" THEN "free" ELSE "drain", writer |-> NoWriter]
    /\ UNCHANGED <<meta_disk, meta, life, caller, rings, next_index, past>>

RemoveOldest ==
    /\ worker' = [worker EXCEPT !.pc = "loop"]
    /\ IF free = <<>>
       THEN UNCHANGED <<disk, free, freed>>
       ELSE LET i == Head(free)
            IN  /\ free' = Tail(free)
                /\ disk' = Restrict(disk, DOMAIN disk \ {i})
                /\ freed' = freed \cup Logged(disk, DOMAIN disk \cap {i})
    /\ UNCHANGED <<meta_disk, meta, life, caller, persist, prepared, next_index, log>>

free_next_segment ==
    /\ \/ worker.pc = "free"
       \/ worker.pc = "loop" /\ persist = <<>> /\ free # <<>>
    /\ RemoveOldest

(* stop_worker_ is read between two rounds; what is left to persist is     *)
(* persisted, what is left to free is not freed.                           *)
persistence_loop_stops ==
    /\ \/ worker.pc = "loop" /\ pc = "join" /\ worker' = [worker EXCEPT !.pc = "drain"]
       \/ worker.pc = "drain" /\ persist = <<>> /\ worker' = [worker EXCEPT !.pc = "exit"]
    /\ UNCHANGED <<store, meta, life, caller, rings, next_index, past>>

Next ==
    \/ initialize \/ append \/ rotate_segment \/ persist_current_segment
    \/ prepare_next_segment \/ WaitForSegment
    \/ shutdown \/ maintainer_joined \/ stop_meta \/ workers_joined \/ kill
    \/ prepare_loop \/ flush_loop \/ flush_loop_waits
    \/ flush_partial \/ persist_next_segment \/ free_next_segment
    \/ persistence_loop_stops

Spec == Init /\ [][Next]_vars

(***************************************************************************)
(* Properties                                                              *)
(***************************************************************************)

(* What a restart loses is the end of the log: when an event is found in   *)
(* the directory, so is every earlier one that was found or appended       *)
(* before, unless its segment was freed.  After a complete shutdown        *)
(* nothing at all is lost.                                                 *)
RestartKeepsPrefix ==
    /\ \A e \in log', d \in log : d < e => d \in log' \cup freed
    /\ log' \subseteq log
    /\ clean => log \subseteq log' \cup freed

LosesOnlyTheEnd == [][process = "down" /\ process' = "up" => RestartKeepsPrefix]_vars

(* A segment is freed only once it is closed: the maintainer removes no    *)
(* file whose writer is still filling it or waits to be persisted, even    *)
(* when a restart has listed the segment twice.                            *)
FreedWasClosed ==
    [][\A i \in DOMAIN disk \ DOMAIN disk' :
          process' # "down" /\ process # "down" =>
              /\ verify(disk[i])
              /\ i # writer.index \/ pc \in {"next", "join", "stop", "meta"}
              /\ \A k \in DOMAIN persist : persist[k].index # i]_vars

(* The directory reads as one log: taken in the order of the file names,   *)
(* the events that the headers cover only grow, so a replay meets none     *)
(* twice and none out of order.                                            *)
LogInOrder ==
    LET names == SetToSortSeq(DOMAIN disk, <)
        es    == FlattenSeq(FlattenSeq([k \in DOMAIN names |-> disk[names[k]].chain]))
    IN  \A k \in 1 .. Len(es) - 1 : es[k] < es[k + 1]

(* "truncates at first corrupted or partial block": what a closed segment  *)
(* held survives any later restart until the segment is freed.  Violated:  *)
(* a restarted process that fills the partial block of the segment it      *)
(* reopened breaks the checksum chain of the header until it closes the    *)
(* segment again; killed before that, the next start deletes the file.     *)
ClosedSurvives ==
    [][process = "down" /\ process' = "up" => Logged(disk, DOMAIN disk) \subseteq log']_vars

==============================================================================

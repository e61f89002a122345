---------------------------- MODULE MC_Mechanisms ----------------------------
(***************************************************************************)
(* The self-contained mechanisms, for TLC: the request writers, the parser *)
(* of inbound messages, four lock-free structures, the table of symbols,   *)
(* the clock, the metrics, and the recorder, the segment files and the     *)
(* replay of the write-ahead log.  They share no state (a directory is     *)
(* closed before a replay opens it).  A behaviour exercises the one that   *)
(* `mechanism` names; the others rest in one initial state.  Each          *)
(* structure is used by as many threads as its callers have: the receive   *)
(* thread acquires blocks and returns the block of a message it discards,  *)
(* the session's thread and another return blocks; one maintenance thread  *)
(* takes from a task ring; any thread may intern, read the clock or record *)
(* a metric.                                                               *)
(***************************************************************************)
EXTENDS JsonWriter, FiniteSets, Sequences, TLC

CONSTANTS b1, b2, b3, t1, t2, t3, c1, None,
          TaskCapacity, TaskItems,                       \* TaskRing
          FanoutCapacity, MaxConsumers, FanoutItems,     \* FanoutRing
          Buffers, Words, MaxStores,                     \* LastValue
          MaxDeviations,                                 \* MessageParser
          BlockEvents, NumBlocks, HotCapacity,           \* WalRecorder
          PersistCapacity, FreeCapacity, PrepareCapacity, MaxEvent, MaxIndex, MaxStarts,
          MaxSegments, MaxPreloaded, FinishedRing,       \* WalRecovery
          FileBlocks, FileEvents,                        \* SegmentFile
          TableSize,                                     \* SymbolTable
          RetiredCapacity, Width, MaxTsc, Offsets, MaxCalls, MaxCalibrations, \* MonotonicClock
          Largest, MaxRecords, MaxSnapshots              \* Metrics

Blocks == {b1, b2, b3}

ASSUME MechanismsAssumption ==
    /\ {TaskCapacity, FanoutCapacity, HotCapacity} \subseteq Nat \ {0, 1}
    /\ {MaxConsumers, Words, MaxStores, BlockEvents, NumBlocks, PersistCapacity,
        FreeCapacity, PrepareCapacity, MaxSegments, MaxPreloaded,
        FinishedRing} \subseteq Nat \ {0}
    /\ {TaskItems, FanoutItems, MaxDeviations, MaxEvent, MaxIndex,
        MaxStarts} \subseteq Nat
    /\ Buffers \in {1, 2}

VARIABLES mechanism,
          p_head, p_next, p_pc, p_old, p_mine, p_used,
          t_buffer, t_head, t_tail, t_producer, t_pushed, t_pc, t_seen, t_taken,
          f_buffer, f_head, f_tails, f_count, f_pc, f_out, f_producer,
          f_scan, f_counted, f_min,
          v_buffers, v_active, v_epoch, v_writer, v_reader, v_e, v_idx,
          v_copy, v_last, v_begun,
          m_json, m_root, m_data, m_deviations, m_room, m_result, m_effects,
          w_disk, w_meta_disk, w_meta, w_process, w_clean, w_starts, w_pc, w_writer,
          w_files, w_persist, w_free, w_prepared, w_next_index, w_waiting, w_worker,
          w_next_event, w_log, w_freed,
          r_segments, r_target, r_pc, r_status, r_reader, r_prepared, r_finished,
          r_worker, r_replayed,
          g_phase, g_file, g_writer, g_damaged, g_reader, g_sought, g_written, g_out,
          y_symbols, y_map, y_writer, y_pc, y_asked, y_ids,
          k_tsc, k_offset, k_calib, k_ptr, k_retired, k_freed, k_making, k_sample, k_pc,
          k_loaded, k_last, k_highest, k_calls,
          s_stat, s_pc, s_arg, s_samples, s_buffers, s_active, s_taking, s_started,
          s_version, s_reader

Pool == INSTANCE BlockPool WITH
    Block <- Blocks, Acquirer <- {t1}, Releaser <- {t1, t2, t3},
    head <- p_head, next <- p_next, pc <- p_pc, old <- p_old, mine <- p_mine,
    used <- p_used

Task == INSTANCE TaskRing WITH
    Capacity <- TaskCapacity, Consumer <- {c1}, MaxItems <- TaskItems,
    buffer <- t_buffer, head <- t_head, tail <- t_tail, producer <- t_producer,
    pushed <- t_pushed, pc <- t_pc, seen <- t_seen, taken <- t_taken

Fanout == INSTANCE FanoutRing WITH
    Capacity <- FanoutCapacity, MaxItems <- FanoutItems,
    buffer <- f_buffer, head <- f_head, tails <- f_tails, consumer_count <- f_count,
    pc <- f_pc, out <- f_out, producer <- f_producer, scan <- f_scan,
    count <- f_counted, min_tail <- f_min

Slot == INSTANCE LastValue WITH
    buffers <- v_buffers, active_index <- v_active, epoch <- v_epoch,
    writer <- v_writer, reader <- v_reader, e <- v_e, idx <- v_idx,
    copy <- v_copy, last_epoch <- v_last, begun <- v_begun

Parser == INSTANCE MessageParser WITH
    json <- m_json, root <- m_root, data <- m_data, deviations <- m_deviations,
    room <- m_room, result <- m_result, effects <- m_effects

Recorder == INSTANCE WalRecorder WITH
    disk <- w_disk, meta_disk <- w_meta_disk, meta <- w_meta, process <- w_process,
    clean <- w_clean, starts <- w_starts, pc <- w_pc, writer <- w_writer,
    files <- w_files, persist <- w_persist, free <- w_free, prepared <- w_prepared,
    next_index <- w_next_index, waiting <- w_waiting, worker <- w_worker,
    next_event <- w_next_event, log <- w_log, freed <- w_freed

Recovery == INSTANCE WalRecovery WITH
    segments_ <- r_segments, target <- r_target, pc <- r_pc, status <- r_status,
    reader_ <- r_reader, prepared_ring_ <- r_prepared, finished_ring_ <- r_finished,
    worker <- r_worker, replayed <- r_replayed

Segment == INSTANCE SegmentFile WITH
    NumBlocks <- FileBlocks, MaxEvents <- FileEvents,
    phase <- g_phase, file <- g_file, writer <- g_writer, damaged <- g_damaged,
    reader <- g_reader, sought <- g_sought, written <- g_written, out <- g_out

Table == INSTANCE SymbolTable WITH
    Thread <- {t1, t2, t3}, Symbol <- {"BTC/USD", "ETH/USD", "ADA/USD"},
    MaxSymbols <- TableSize,
    symbols <- y_symbols, map <- y_map, writer <- y_writer, pc <- y_pc,
    asked <- y_asked, ids <- y_ids

Clock == INSTANCE MonotonicClock WITH
    Thread <- {t1},
    tsc <- k_tsc, offset <- k_offset, calib <- k_calib, calib_ptr <- k_ptr,
    retired <- k_retired, freed <- k_freed, making <- k_making, sample <- k_sample,
    pc <- k_pc, ptr <- k_loaded, last_ns <- k_last, highest <- k_highest, calls <- k_calls

Stats == INSTANCE Metrics WITH
    Thread <- {t1, t2}, Work <- {<<t1, 1, TRUE>>, <<t2, 2, FALSE>>},
    stat <- s_stat, pc <- s_pc, arg <- s_arg, samples <- s_samples,
    buffers <- s_buffers, active <- s_active, taking <- s_taking, started <- s_started,
    version <- s_version, reader <- s_reader

pool     == <<p_head, p_next, p_pc, p_old, p_mine, p_used>>
task     == <<t_buffer, t_head, t_tail, t_producer, t_pushed, t_pc, t_seen, t_taken>>
fanout   == <<f_buffer, f_head, f_tails, f_count, f_pc, f_out, f_producer,
              f_scan, f_counted, f_min>>
slot     == <<v_buffers, v_active, v_epoch, v_writer, v_reader, v_e, v_idx,
              v_copy, v_last, v_begun>>
parser   == <<m_json, m_root, m_data, m_deviations, m_room, m_result, m_effects>>
recorder == <<w_disk, w_meta_disk, w_meta, w_process, w_clean, w_starts, w_pc, w_writer,
              w_files, w_persist, w_free, w_prepared, w_next_index, w_waiting, w_worker,
              w_next_event, w_log, w_freed>>
recovery == <<r_segments, r_target, r_pc, r_status, r_reader, r_prepared, r_finished,
              r_worker, r_replayed>>
segment  == <<g_phase, g_file, g_writer, g_damaged, g_reader, g_sought, g_written, g_out>>
table    == <<y_symbols, y_map, y_writer, y_pc, y_asked, y_ids>>
clock    == <<k_tsc, k_offset, k_calib, k_ptr, k_retired, k_freed, k_making, k_sample, k_pc,
              k_loaded, k_last, k_highest, k_calls>>
stats    == <<s_stat, s_pc, s_arg, s_samples, s_buffers, s_active, s_taking, s_started,
              s_version, s_reader>>
wal      == <<recorder, recovery, segment>>
shared   == <<table, clock, stats>>

all      == <<mechanism, vars, pool, task, fanout, slot, parser, wal, shared>>

(* The blocks differ in name only: one order of the free list stands for all. *)
MCInit ==
    /\ mechanism \in {"writer", "pool", "task", "fanout", "slot", "parser", "recorder",
                      "recovery", "segment", "table", "clock", "stats"}
    /\ mechanism = "writer" \/ request = Ping
    /\ p_head = b1 /\ p_next = (b1 :> b2 @@ b2 :> b3 @@ b3 :> None)
    /\ \/ mechanism = "parser"
       \/ LET m == CHOOSE m \in Parser!Usual : TRUE
          IN  m_root = m[1] /\ m_data = m[2] /\ m_room = TRUE
    /\ \/ mechanism = "recovery"
       \/ /\ r_segments = Recovery!Directory(<<Recovery!FullShape>>, <<"intact">>)
          /\ r_target = 1
    /\ Init /\ Pool!Init /\ Task!Init /\ Fanout!Init /\ Slot!Init
    /\ Parser!Init /\ Recorder!Init /\ Recovery!Init
    /\ Segment!Init /\ Table!Init /\ Clock!Init /\ Stats!Init

UseWriter ==
    /\ mechanism = "writer" /\ Next
    /\ UNCHANGED <<mechanism, pool, task, fanout, slot, parser, wal, shared>>

UsePool ==
    /\ mechanism = "pool" /\ Pool!Next
    /\ UNCHANGED <<mechanism, vars, task, fanout, slot, parser, wal, shared>>

UseTask ==
    /\ mechanism = "task" /\ Task!Next
    /\ UNCHANGED <<mechanism, vars, pool, fanout, slot, parser, wal, shared>>

UseFanout ==
    /\ mechanism = "fanout" /\ Fanout!Next
    /\ UNCHANGED <<mechanism, vars, pool, task, slot, parser, wal, shared>>

UseSlot ==
    /\ mechanism = "slot" /\ Slot!Next
    /\ UNCHANGED <<mechanism, vars, pool, task, fanout, parser, wal, shared>>

UseParser ==
    /\ mechanism = "parser" /\ Parser!Next
    /\ UNCHANGED <<mechanism, vars, pool, task, fanout, slot, wal, shared>>

UseRecorder ==
    /\ mechanism = "recorder" /\ Recorder!Next
    /\ UNCHANGED <<mechanism, vars, pool, task, fanout, slot, parser, recovery, segment, shared>>

UseRecovery ==
    /\ mechanism = "recovery" /\ Recovery!Next
    /\ UNCHANGED <<mechanism, vars, pool, task, fanout, slot, parser, recorder, segment, shared>>

UseSegment ==
    /\ mechanism = "segment" /\ Segment!Next
    /\ UNCHANGED <<mechanism, vars, pool, task, fanout, slot, parser, recorder, recovery, shared>>

UseTable ==
    /\ mechanism = "table" /\ Table!Next
    /\ UNCHANGED <<mechanism, vars, pool, task, fanout, slot, parser, wal, clock, stats>>

UseClock ==
    /\ mechanism = "clock" /\ Clock!Next
    /\ UNCHANGED <<mechanism, vars, pool, task, fanout, slot, parser, wal, table, stats>>

UseStats ==
    /\ mechanism = "stats" /\ Stats!Next
    /\ UNCHANGED <<mechanism, vars, pool, task, fanout, slot, parser, wal, table, clock>>

MCNext == \/ UseWriter \/ UsePool \/ UseTask \/ UseFanout \/ UseSlot \/ UseParser
          \/ UseRecorder \/ UseRecovery \/ UseSegment \/ UseTable \/ UseClock \/ UseStats

MCSpec == MCInit /\ [][MCNext]_all

-----------------------------------------------------------------------------

(* block_pool: every block is in exactly one place, whatever the           *)
(* interleaving of pops and pushes.                                        *)
BlocksPartitioned == Pool!BlocksPartitioned

(* The rings with several consumers: in the task ring, with one consumer,  *)
(* each element is consumed exactly once although a cell is claimed before *)
(* it is read; in the fanout ring every consumer receives every item       *)
(* pushed since it registered, in order, and what it has not read is still *)
(* in the ring.                                                            *)
RingsDeliver ==
    /\ Task!ConsumedOnce
    /\ Fanout!EachReceivesAll /\ Fanout!NothingOverwritten

(* last_value_snapshot: a load that at most one store overlaps is whole,   *)
(* and no load returns less than its epoch promises.                       *)
NoTornRead == Slot!NoTornRead /\ Slot!NeverOlderThanEpoch

(* Parsers and router: exactly the well-formed messages are delivered.     *)
DeliveredExactly == Parser!DeliveredExactly

(* Recorder: the segments hold the events in order, a start loses nothing  *)
(* but the end of what was appended, and only closed segments are freed.   *)
LosesOnlyTheEnd ==
    /\ [](mechanism = "recorder" => Recorder!LogInOrder)
    /\ Recorder!LosesOnlyTheEnd /\ Recorder!FreedWasClosed

(* Replay: next() returns the events from the target on, each once.        *)
ReplayExact == Recovery!ReplayExact

(* Segment files: a reader that opens a file returns exactly the events    *)
(* appended, across a close and a reopening, or refuses a damaged file.    *)
ReadsWhatWasWritten == Segment!ReadsWhatWasWritten

(* InternTable: one id stands for one string, and for no other.            *)
OneIdPerSymbol == Table!OneIdPerSymbol

(* monotonic_clock: timestamps advance, follow the clock and use a live    *)
(* calibrator, whatever a calibration does meanwhile.                      *)
TimestampsSound == Clock!TimestampsSound

(* Metrics: no sample is lost, snapshots only advance, and a reader sees   *)
(* the version it was given.                                               *)
MetricsSound == Stats!MetricsSound
==============================================================================

------------------------------- MODULE LastValue -------------------------------
(***************************************************************************)
(* lcr::lockfree::slot::last_value (Buffers = 1) and last_value_snapshot   *)
(* (Buffers = 2): one writer overwrites the value and then advances the    *)
(* epoch, a reader loads the epoch and then copies the value.  A value is  *)
(* Words machine words that neither side copies atomically; a word holds   *)
(* the number of the store that wrote it.                                  *)
(***************************************************************************)
EXTENDS Naturals

CONSTANTS Buffers,   \* 1: last_value, 2: last_value_snapshot
          Words,     \* words of a value
          MaxStores  \* bound: stores in a behaviour

VARIABLES buffers, active_index, epoch,
          writer,      \* where store() is, and the words it has written
          reader,      \* where load_if_updated() is, and the words it has copied
          e, idx,      \* the epoch and the index it loaded
          copy,        \* the words it has copied
          last_epoch,  \* the epoch of its last successful load
          begun        \* history: stores under way since it loaded the epoch

vars == <<buffers, active_index, epoch, writer, reader, e, idx, copy, last_epoch, begun>>

Word == 1 .. Words

Init ==
    /\ buffers = [b \in 0 .. Buffers - 1 |-> [w \in Word |-> 0]]
    /\ active_index = 0 /\ epoch = 0
    /\ writer = [at |-> "idle", word |-> 1]
    /\ reader = [at |-> "idle", word |-> 1]
    /\ e = 0 /\ idx = 0 /\ last_epoch = 0 /\ begun = 0
    /\ copy = [w \in Word |-> 0]

unread == <<reader, e, idx, copy, last_epoch>>

-----------------------------------------------------------------------------
(* store(): write the inactive buffer, publish its index, advance the      *)
(* epoch.                                                                  *)

Target == (active_index + 1) % Buffers

store_begin ==
    /\ writer.at = "idle" /\ epoch < MaxStores
    /\ begun' = IF reader.at = "idle" THEN 0 ELSE begun + 1
    /\ writer' = [at |-> "write", word |-> 1]
    /\ UNCHANGED <<buffers, active_index, epoch, unread>>

store_word ==
    /\ writer.at = "write"
    /\ buffers' = [buffers EXCEPT ![Target][writer.word] = epoch + 1]
    /\ writer' = IF writer.word < Words THEN [writer EXCEPT !.word = @ + 1]
                 ELSE [writer EXCEPT !.at = "index"]
    /\ UNCHANGED <<active_index, epoch, unread, begun>>

store_index ==
    /\ writer.at = "index"
    /\ active_index' = Target
    /\ writer' = [writer EXCEPT !.at = "epoch"]
    /\ UNCHANGED <<buffers, epoch, unread, begun>>

store_epoch ==
    /\ writer.at = "epoch"
    /\ epoch' = epoch + 1
    /\ writer' = [writer EXCEPT !.at = "idle"]
    /\ UNCHANGED <<buffers, active_index, unread, begun>>

-----------------------------------------------------------------------------
(* load_if_updated(): the epoch, the index, the value.                     *)

load_epoch ==
    /\ reader.at = "idle" /\ epoch # last_epoch
    /\ e' = epoch
    /\ begun' = IF writer.at = "idle" THEN 0 ELSE 1
    /\ reader' = [at |-> "index", word |-> 1]
    /\ UNCHANGED <<buffers, active_index, epoch, writer, idx, copy, last_epoch>>

(* A mutant: the buffer that is being written is read.                     *)
LoadInactive ==
    /\ reader.at = "index"
    /\ idx' = Target
    /\ reader' = [reader EXCEPT !.at = "copy"]
    /\ UNCHANGED <<buffers, active_index, epoch, writer, e, copy, last_epoch, begun>>

load_index ==
    /\ reader.at = "index"
    /\ idx' = active_index
    /\ reader' = [reader EXCEPT !.at = "copy"]
    /\ UNCHANGED <<buffers, active_index, epoch, writer, e, copy, last_epoch, begun>>

load_word ==
    /\ reader.at = "copy"
    /\ copy' = [copy EXCEPT ![reader.word] = buffers[idx][reader.word]]
    /\ reader' = IF reader.word < Words THEN [reader EXCEPT !.word = @ + 1]
                 ELSE [reader EXCEPT !.at = "done"]
    /\ UNCHANGED <<buffers, active_index, epoch, writer, e, idx, last_epoch, begun>>

load_return ==
    /\ reader.at = "done"
    /\ last_epoch' = e
    /\ reader' = [reader EXCEPT !.at = "idle"]
    /\ UNCHANGED <<buffers, active_index, epoch, writer, e, idx, copy, begun>>

store == store_begin \/ store_word \/ store_index \/ store_epoch

load_if_updated == load_epoch \/ load_index \/ load_word \/ load_return

Next == store \/ load_if_updated

Spec == Init /\ [][Next]_vars

-----------------------------------------------------------------------------

(* A reader that fewer stores overlap than the slot has buffers observes   *)
(* no partially written value: the words it copied are those of one store. *)
NoTornRead ==
    reader.at = "done" /\ begun < Buffers => \A v, w \in Word : copy[v] = copy[w]

(* A load never returns less than its epoch promises: every word is of the *)
(* store that made the epoch, or of a later one, so that a reader that     *)
(* remembers the epoch misses no update.                                   *)
NeverOlderThanEpoch ==
    reader.at = "done" => \A w \in Word : copy[w] >= e

=============================================================================

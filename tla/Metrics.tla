------------------------------- MODULE Metrics -------------------------------
(***************************************************************************)
(* The live metrics (lcr/metrics/atomic) and their snapshots                *)
(* (lcr/metrics/snapshot).  Threads record samples into one group of        *)
(* counters and extremes: each field is an atomic of its own, updated with  *)
(* relaxed order, the extremes by compare-and-exchange.  The snapshot       *)
(* thread copies the fields one by one into the buffer that is not active,  *)
(* stamps it and makes it active; readers take the active buffer and read   *)
(* it in place.                                                            *)
(***************************************************************************)
EXTENDS Naturals, Sequences, FiniteSets, FiniteSetsExt

CONSTANTS Thread,        \* the threads that record
          Work,          \* what they record: <<thread, delta, ok>>
          Largest,       \* numeric_limits<T>::max(), where min_ns_ starts
          MaxRecords,    \* bound: records per thread
          MaxSnapshots   \* bound: snapshots taken

VARIABLES stat,       \* the live fields
          pc,         \* per thread: where it is in record_duration
          arg,        \* per thread: its arguments, and prev
          samples,    \* history, per thread: the samples it has recorded
          buffers,    \* buffers_: the copied fields and the version
          active,     \* active_index_
          taking,     \* take_snapshot: the field it copies next, or its last steps
          started,    \* history: snapshots begun
          version,    \* version_: snapshots stamped
          reader      \* a reader's place, buffer and version, and (history) the
                      \* version published when it came, with its fields

metricVars == <<stat, pc, arg, samples, buffers, active, taking, started, version, reader>>

Fields == <<"total_ns", "samples", "success", "min_ns", "max_ns">>
Field  == {Fields[i] : i \in DOMAIN Fields}

Empty == [f \in Field |-> IF f = "min_ns" THEN Largest ELSE 0]

NoReader == [at |-> "idle", index |-> 0, version |-> 0, published |-> 0,
             expected |-> Empty]

Init ==
    /\ stat = Empty
    /\ pc = [t \in Thread |-> "idle"]
    /\ arg = [t \in Thread |-> [delta |-> 0, ok |-> FALSE, prev |-> 0]]
    /\ samples = [t \in Thread |-> <<>>]
    /\ buffers = [i \in 0 .. 1 |-> [data |-> Empty, version |-> 0]]
    /\ active = 0
    /\ taking = "idle"
    /\ started = 0
    /\ version = 0
    /\ reader = NoReader

-----------------------------------------------------------------------------
(* record_duration, atomic by atomic.                                      *)

Recording(t) == pc[t] # "idle"

StepTo(t, place) == pc' = [pc EXCEPT ![t] = place]

snapshotVars == <<buffers, active, taking, started, version, reader>>

begin_record(t, delta, ok) ==
    /\ pc[t] = "idle" /\ Len(samples[t]) < MaxRecords
    /\ arg' = [arg EXCEPT ![t] = [delta |-> delta, ok |-> ok, prev |-> 0]]
    /\ StepTo(t, "total")
    /\ UNCHANGED <<stat, samples, snapshotVars>>

(* counter::inc is a fetch_add.                                            *)
inc(f, n) == stat' = [stat EXCEPT ![f] = @ + n]

add_total(t) ==
    /\ pc[t] = "total"
    /\ inc("total_ns", arg[t].delta)
    /\ StepTo(t, "samples")
    /\ UNCHANGED <<arg, samples, snapshotVars>>

add_sample(t) ==
    /\ pc[t] = "samples"
    /\ inc("samples", 1)
    /\ StepTo(t, IF arg[t].ok THEN "success" ELSE "load min")
    /\ UNCHANGED <<arg, samples, snapshotVars>>

add_success(t) ==
    /\ pc[t] = "success"
    /\ inc("success", 1)
    /\ StepTo(t, "load min")
    /\ UNCHANGED <<arg, samples, snapshotVars>>

load_min(t) ==
    /\ pc[t] = "load min"
    /\ arg' = [arg EXCEPT ![t].prev = stat.min_ns]
    /\ StepTo(t, "min")
    /\ UNCHANGED <<stat, samples, snapshotVars>>

(* Mutant: the new minimum is stored whatever came in between.             *)
StoreMin(t) ==
    /\ pc[t] = "min"
    /\ stat' = IF arg[t].delta < arg[t].prev THEN [stat EXCEPT !.min_ns = arg[t].delta] ELSE stat
    /\ StepTo(t, "load max")
    /\ UNCHANGED <<arg, samples, snapshotVars>>

(* compare_exchange_weak: it may fail for no reason, and then gives the    *)
(* value that is there.                                                    *)
exchange_min(t) ==
    /\ pc[t] = "min"
    /\ \/ /\ arg[t].delta >= arg[t].prev
          /\ StepTo(t, "load max")
          /\ UNCHANGED <<stat, arg>>
       \/ /\ arg[t].delta < arg[t].prev /\ stat.min_ns = arg[t].prev
          /\ stat' = [stat EXCEPT !.min_ns = arg[t].delta]
          /\ StepTo(t, "load max")
          /\ UNCHANGED arg
       \/ /\ arg[t].delta < arg[t].prev
          /\ arg' = [arg EXCEPT ![t].prev = stat.min_ns]
          /\ UNCHANGED <<stat, pc>>
    /\ UNCHANGED <<samples, snapshotVars>>

load_max(t) ==
    /\ pc[t] = "load max"
    /\ arg' = [arg EXCEPT ![t].prev = stat.max_ns]
    /\ StepTo(t, "max")
    /\ UNCHANGED <<stat, samples, snapshotVars>>

Recorded(t) ==
    /\ samples' = [samples EXCEPT ![t] = Append(@, [delta |-> arg[t].delta, ok |-> arg[t].ok])]
    /\ StepTo(t, "idle")

exchange_max(t) ==
    /\ pc[t] = "max"
    /\ \/ /\ arg[t].delta <= arg[t].prev
          /\ Recorded(t)
          /\ UNCHANGED <<stat, arg>>
       \/ /\ arg[t].delta > arg[t].prev /\ stat.max_ns = arg[t].prev
          /\ stat' = [stat EXCEPT !.max_ns = arg[t].delta]
          /\ Recorded(t)
          /\ UNCHANGED arg
       \/ /\ arg[t].delta > arg[t].prev
          /\ arg' = [arg EXCEPT ![t].prev = stat.max_ns]
          /\ UNCHANGED <<stat, pc, samples>>
    /\ UNCHANGED snapshotVars

record(t) ==
    \/ \E w \in Work : w[1] = t /\ begin_record(t, w[2], w[3])
    \/ add_total(t) \/ add_sample(t) \/ add_success(t)
    \/ load_min(t) \/ exchange_min(t) \/ load_max(t) \/ exchange_max(t)

-----------------------------------------------------------------------------
(* take_snapshot.                                                          *)

liveVars == <<stat, pc, arg, samples>>

(* Mutant: the snapshot is taken into the buffer the readers are in.       *)
SameIndex == active

next_idx == 1 - active

begin_snapshot ==
    /\ taking = "idle" /\ started < MaxSnapshots
    /\ taking' = Fields[1]
    /\ started' = started + 1
    /\ UNCHANGED <<liveVars, buffers, active, version, reader>>

Following(f) == LET i == CHOOSE k \in DOMAIN Fields : Fields[k] = f
                IN  IF i = Len(Fields) THEN "version" ELSE Fields[i + 1]

(* copy_to: one field after the other.                                     *)
copy_field ==
    /\ taking \in Field
    /\ buffers' = [buffers EXCEPT ![next_idx].data[taking] = stat[taking]]
    /\ taking' = Following(taking)
    /\ UNCHANGED <<liveVars, active, started, version, reader>>

stamp_version ==
    /\ taking = "version"
    /\ buffers' = [buffers EXCEPT ![next_idx].version = version + 1]
    /\ version' = version + 1
    /\ taking' = "publish"
    /\ UNCHANGED <<liveVars, active, started, reader>>

publish ==
    /\ taking = "publish"
    /\ active' = next_idx
    /\ taking' = "idle"
    /\ UNCHANGED <<liveVars, buffers, started, version, reader>>

take_snapshot == begin_snapshot \/ copy_field \/ stamp_version \/ publish

-----------------------------------------------------------------------------
(* snapshot(), and the reader's use of the pointer it returns.             *)

Published == IF taking = "publish" THEN version - 1 ELSE version

load_index ==
    /\ reader.at = "idle" /\ Published > 0
    /\ reader' = [at |-> "version", index |-> active, version |-> 0, published |-> Published,
                  expected |-> buffers[active].data]
    /\ UNCHANGED <<liveVars, buffers, active, taking, started, version>>

load_version ==
    /\ reader.at = "version"
    /\ reader' = [reader EXCEPT !.at = "data", !.version = buffers[reader.index].version]
    /\ UNCHANGED <<liveVars, buffers, active, taking, started, version>>

(* The reader lets go of the pointer; until then it may read any field.    *)
reader_done ==
    /\ reader.at = "data"
    /\ reader' = NoReader
    /\ UNCHANGED <<liveVars, buffers, active, taking, started, version>>

snapshot == load_index \/ load_version \/ reader_done

Next == take_snapshot \/ snapshot \/ \E t \in Thread : record(t)

Spec == Init /\ [][Next]_metricVars

-----------------------------------------------------------------------------

AllSamples == {<<t, i>> \in Thread \X (1 .. MaxRecords) : i <= Len(samples[t])}
At(s) == samples[s[1]][s[2]]

(* No sample is lost or counted twice: whenever no thread is recording, the *)
(* sum, the counts and both extremes are those of the samples recorded, in  *)
(* whatever order the threads' updates met.                                 *)
StatsExact ==
    (\A t \in Thread : ~Recording(t)) =>
        /\ stat.total_ns = MapThenSumSet(LAMBDA s : At(s).delta, AllSamples)
        /\ stat.samples = Cardinality(AllSamples)
        /\ stat.success = Cardinality({s \in AllSamples : At(s).ok})
        /\ stat.min_ns = Min({Largest} \cup {At(s).delta : s \in AllSamples})
        /\ stat.max_ns = Max({0} \cup {At(s).delta : s \in AllSamples})

(* A snapshot never goes back behind the one before, field by field.        *)
SnapshotsAdvance ==
    taking = "publish" /\ version > 1 =>
        LET old == buffers[active].data
            new == buffers[1 - active].data
        IN  /\ new.min_ns <= old.min_ns
            /\ \A f \in Field \ {"min_ns"} : new[f] >= old[f]

(* A reader that holds the pointer it was given reads the version that was  *)
(* published when it came, and every field as it was copied for it, as long *)
(* as the second snapshot after it has not begun.                           *)
ReadersSeeTheirVersion ==
    reader.at = "data" /\ started < reader.published + 2 =>
        /\ reader.version = reader.published
        /\ buffers[reader.index].data = reader.expected

MetricsSound == StatsExact /\ SnapshotsAdvance /\ ReadersSeeTheirVersion
=============================================================================

--------------------------- MODULE MonotonicClock ---------------------------
(***************************************************************************)
(* monotonic_clock (lcr/system): threads turn the CPU's counter into        *)
(* nanoseconds with the calibrator that calib_ptr_ points to, while another *)
(* thread measures a new one and swaps the pointer.  A thread that loaded   *)
(* the old pointer goes on using it, so old calibrators are retired, or     *)
(* leaked once the list is full, and freed only at the end of the process.  *)
(*                                                                         *)
(* The counter is shared and never runs backwards (the invariant TSC that   *)
(* the class requires) and runs at one tick per nanosecond; the wall clock  *)
(* also goes forward but may be set to another time.  Subtraction is on     *)
(* Width bits, as it is on 64.                                             *)
(***************************************************************************)
EXTENDS Integers, Sequences, FiniteSets

CONSTANTS Thread,           \* the threads that call now_ns
          RetiredCapacity,  \* retired_.capacity()
          Width,            \* values of the counter and of a timestamp
          MaxTsc,           \* bound: the counter
          Offsets,          \* bound: what the wall clock is set to, over the counter
          MaxCalls,         \* bound: calls of now_ns per thread
          MaxCalibrations   \* bound: calls of calibrate_now

VARIABLES tsc,         \* the CPU's counter
          offset,      \* wall clock minus counter, now
          calib,       \* per calibrator ever made: base_tsc and base_wallclock_ns
          calib_ptr,   \* calib_ptr_, 0 for nullptr
          retired,     \* retired_
          freed,       \* the calibrators deleted
          making,      \* calibrate_now: "idle", "base" or "swap"
          sample,      \* the wall clock calibrate_tsc has read
          pc,          \* per thread: "idle" or "loaded"
          ptr,         \* per thread: the pointer it loaded
          last_ns,     \* per thread: last_ns_tls
          highest,     \* history: the highest offset the wall clock has had
          calls        \* per thread: calls of now_ns that returned

clockVars == <<tsc, offset, calib, calib_ptr, retired, freed, making, sample, pc, ptr,
               last_ns, highest, calls>>

-----------------------------------------------------------------------------

(* uint64_t delta = tsc - base_tsc; one tick is one nanosecond.            *)
tsc_to_ns(t, c) == c.base_wallclock_ns + ((t - c.base_tsc) % Width)

(* The constructor publishes the first calibrator.                         *)
Init ==
    /\ tsc = 0 /\ offset = 0
    /\ calib = <<[base_tsc |-> 0, base_wallclock_ns |-> 0]>>
    /\ calib_ptr = 1
    /\ retired = {} /\ freed = {}
    /\ making = "idle" /\ sample = 0
    /\ pc = [t \in Thread |-> "idle"]
    /\ ptr = [t \in Thread |-> 0]
    /\ last_ns = [t \in Thread |-> 0]
    /\ highest = 0
    /\ calls = [t \in Thread |-> 0]

(* now_ns: the pointer first, then the counter.                            *)
load_calibrator(t) ==
    /\ pc[t] = "idle" /\ calib_ptr # 0 /\ calls[t] < MaxCalls
    /\ ptr' = [ptr EXCEPT ![t] = calib_ptr]
    /\ pc' = [pc EXCEPT ![t] = "loaded"]
    /\ UNCHANGED <<tsc, offset, calib, calib_ptr, retired, freed, making, sample, last_ns,
                   highest, calls>>

(* Mutant: the last timestamp is returned again.                           *)
MonotonicNotStrict(ns, last) == IF ns < last THEN last ELSE ns

(* A timestamp that is not above the thread's last becomes its successor.  *)
Monotonic(ns, last) == IF ns <= last THEN last + 1 ELSE ns

read_tsc(t) ==
    /\ pc[t] = "loaded"
    /\ last_ns' = [last_ns EXCEPT ![t] = Monotonic(tsc_to_ns(tsc, calib[ptr[t]]), @)]
    /\ pc' = [pc EXCEPT ![t] = "idle"]
    /\ calls' = [calls EXCEPT ![t] = @ + 1]
    /\ UNCHANGED <<tsc, offset, calib, calib_ptr, retired, freed, making, sample, ptr, highest>>

now_ns(t) == load_calibrator(t) \/ read_tsc(t)

-----------------------------------------------------------------------------
(* calibrate_now, by one supervisor.                                       *)

read_wallclock ==
    /\ making = "idle" /\ calib_ptr # 0 /\ Len(calib) <= MaxCalibrations
    /\ sample' = tsc + offset
    /\ making' = "base"
    /\ UNCHANGED <<tsc, offset, calib, calib_ptr, retired, freed, pc, ptr, last_ns, highest, calls>>

read_base_tsc ==
    /\ making = "base"
    /\ calib' = Append(calib, [base_tsc |-> tsc, base_wallclock_ns |-> sample])
    /\ making' = "swap"
    /\ UNCHANGED <<tsc, offset, calib_ptr, retired, freed, sample, pc, ptr, last_ns, highest, calls>>

(* Mutant: the calibrator that was replaced is deleted.                    *)
RetireDeletes(old) == freed' = freed \cup {old} /\ UNCHANGED retired

(* The old calibrator goes to the list while it has room.                  *)
retire(old) ==
    /\ retired' = IF Cardinality(retired) < RetiredCapacity THEN retired \cup {old} ELSE retired
    /\ UNCHANGED freed

exchange ==
    /\ making = "swap"
    /\ calib_ptr' = Len(calib)
    /\ retire(calib_ptr)
    /\ making' = "idle"
    /\ UNCHANGED <<tsc, offset, calib, sample, pc, ptr, last_ns, highest, calls>>

(* The destructor, at the end of the process: no thread is in now_ns.      *)
destroy ==
    /\ making = "idle" /\ calib_ptr # 0
    /\ \A t \in Thread : pc[t] = "idle"
    /\ freed' = freed \cup retired \cup {calib_ptr}
    /\ retired' = {}
    /\ calib_ptr' = 0
    /\ UNCHANGED <<tsc, offset, calib, making, sample, pc, ptr, last_ns, highest, calls>>

calibrate_now == read_wallclock \/ read_base_tsc \/ exchange

(* The counter runs; the wall clock runs with it, or is set.               *)
tick ==
    /\ tsc < MaxTsc
    /\ tsc' = tsc + 1
    /\ UNCHANGED <<offset, calib, calib_ptr, retired, freed, making, sample, pc, ptr,
                   last_ns, highest, calls>>

set_wallclock ==
    /\ \E o \in Offsets \ {offset} :
          offset' = o /\ highest' = IF o > highest THEN o ELSE highest
    /\ UNCHANGED <<tsc, calib, calib_ptr, retired, freed, making, sample, pc, ptr,
                   last_ns, calls>>

Next ==
    \/ \E t \in Thread : now_ns(t)
    \/ calibrate_now \/ destroy \/ tick \/ set_wallclock

Spec == Init /\ [][Next]_clockVars

-----------------------------------------------------------------------------

(* A thread's timestamps increase strictly, whatever calibrators and        *)
(* settings of the wall clock come between them; none runs ahead of the     *)
(* latest time the wall clock can have shown by more than the calls that    *)
(* were one nanosecond apart (a counter value older than the calibrator     *)
(* would wrap around and pin the thread to a time far away); and no thread  *)
(* computes with a calibrator that was freed.                               *)
TimestampsSound ==
    /\ [][\A t \in Thread : calls'[t] # calls[t] => last_ns'[t] > last_ns[t]]_clockVars
    /\ []\A t \in Thread :
          /\ last_ns[t] <= highest + tsc + calls[t]
          /\ pc[t] = "loaded" => ptr[t] \notin freed

=============================================================================

------------------------ MODULE MonotonicClockProofs ------------------------
(***************************************************************************)
(* Proofs about monotonic_clock for any threads, any width of the counter, *)
(* any settings of the wall clock and any number of calibrations.          *)
(***************************************************************************)
EXTENDS MonotonicClock, TLAPS

Sized == Width \in Nat \ {0} /\ Offsets \subseteq Int

\* The difference of two counter values does not grow when it is cut to the
\* counter's width.
LEMMA ModBelow ==
  ASSUME NEW w \in Nat \ {0}, NEW x \in Nat
  PROVE  x % w \in Nat /\ x % w <= x
<1>1. /\ x = w * (x \div w) + (x % w)
      /\ x \div w \in Nat /\ x % w \in 0 .. w - 1
  OBVIOUS
<1>2. w * (x \div w) >= 0
  BY <1>1
<1> QED
  BY <1>1, <1>2

\* A bound that is a sum grows with its first part.
LEMMA SumGrows ==
  ASSUME NEW x \in Int, NEW a \in Int, NEW b \in Int, NEW c \in Int, x <= a + c, a <= b
  PROVE  x <= b + c
OBVIOUS

-----------------------------------------------------------------------------

Calibrator == [base_tsc : Int, base_wallclock_ns : Int]

Types ==
    /\ tsc \in Int /\ offset \in Int /\ sample \in Int /\ highest \in Int
    /\ calib \in Seq(Calibrator)
    /\ calib_ptr \in 0 .. Len(calib)
    /\ making \in {"idle", "base", "swap"}
    /\ pc \in [Thread -> {"idle", "loaded"}]
    /\ ptr \in [Thread -> Nat]
    /\ last_ns \in [Thread -> Int]
    /\ calls \in [Thread -> Nat]

\* A calibrator was made at a counter value that has passed, from a wall clock
\* read before it.
CalibInv ==
    /\ offset <= highest
    /\ making = "base" => sample <= highest + tsc
    /\ making = "swap" => Len(calib) >= 1
    /\ \A i \in 1 .. Len(calib) :
          /\ calib[i].base_tsc <= tsc
          /\ calib[i].base_wallclock_ns <= highest + calib[i].base_tsc

\* Nothing is freed before the clock is destroyed, and then no thread holds a
\* pointer.
PointerInv ==
    /\ calib_ptr # 0 => freed = {}
    /\ making # "idle" => calib_ptr # 0
    /\ \A t \in Thread : pc[t] = "loaded" =>
          calib_ptr # 0 /\ ptr[t] \in 1 .. Len(calib)

Bounded ==
    \A t \in Thread :
        /\ last_ns[t] <= highest + tsc + calls[t]
        /\ pc[t] = "loaded" => ptr[t] \notin freed

IInv == Types /\ CalibInv /\ PointerInv /\ Bounded

\* The constructor's calibrator is made at the counter's start.
LEMMA InitInv ==
  ASSUME Init
  PROVE  IInv
<1>1. calib \in Seq(Calibrator) /\ Len(calib) = 1
  BY DEF Init, Calibrator
<1>2. Types
  BY <1>1 DEF Init, Types
<1>3. CalibInv
  BY <1>1 DEF Init, CalibInv
<1>4. PointerInv /\ Bounded
  BY DEF Init, PointerInv, Bounded
<1> QED
  BY <1>2, <1>3, <1>4 DEF IInv

\* The parts of a calibrator.
LEMMA CalibParts ==
  ASSUME Types, NEW i \in 1 .. Len(calib)
  PROVE  calib[i].base_tsc \in Int /\ calib[i].base_wallclock_ns \in Int
<1>1. calib[i] \in Calibrator
  BY DEF Types
<1> QED
  BY <1>1 DEF Calibrator

\* A time computed with a calibrator is not ahead of every time that the wall
\* clock can have shown.
LEMMA NotAhead ==
  ASSUME Sized, Types, CalibInv, NEW i \in 1 .. Len(calib)
  PROVE  tsc_to_ns(tsc, calib[i]) \in Int /\ tsc_to_ns(tsc, calib[i]) <= highest + tsc
<1> DEFINE b == calib[i].base_tsc
           w == calib[i].base_wallclock_ns
<1>1. b \in Int /\ w \in Int /\ b <= tsc /\ w <= highest + b
  BY CalibParts DEF CalibInv
<1>2. (tsc - b) \in Nat /\ tsc \in Int /\ highest \in Int
  BY <1>1 DEF Types
<1>3. tsc_to_ns(tsc, calib[i]) = w + ((tsc - b) % Width)
  BY DEF tsc_to_ns
<1> HIDE DEF b, w
<1>4. (tsc - b) % Width \in Nat /\ (tsc - b) % Width <= tsc - b
  BY <1>2, ModBelow DEF Sized
<1> QED
  BY <1>1, <1>2, <1>3, <1>4

-----------------------------------------------------------------------------

\* The pointer that a thread loads is that of a living calibrator.
LEMMA LoadInv ==
  ASSUME IInv, NEW t \in Thread, load_calibrator(t)
  PROVE  IInv'
<1> USE DEF IInv
<1>1. /\ pc[t] = "idle" /\ calib_ptr # 0
      /\ ptr' = [ptr EXCEPT ![t] = calib_ptr] /\ pc' = [pc EXCEPT ![t] = "loaded"]
      /\ UNCHANGED <<tsc, offset, calib, calib_ptr, retired, freed, making, sample, last_ns,
                     highest, calls>>
  BY DEF load_calibrator
<1>2. calib_ptr \in Nat /\ calib_ptr \in 1 .. Len(calib)
  BY <1>1 DEF Types
<1>3. Types'
  BY <1>1, <1>2 DEF Types
<1>4. CalibInv'
  BY <1>1 DEF CalibInv
<1>5. /\ ptr'[t] = calib_ptr
      /\ \A u \in Thread : u # t => pc'[u] = pc[u] /\ ptr'[u] = ptr[u]
  BY <1>1 DEF Types
<1>6. PointerInv'
  BY <1>1, <1>2, <1>5 DEF PointerInv
<1>7. Bounded'
  BY <1>1, <1>5 DEF Bounded, PointerInv
<1> QED
  BY <1>3, <1>4, <1>6, <1>7

\* The time returned: above the thread's last one, and at most one nanosecond
\* above the bound of the call before.
LEMMA ReadInv ==
  ASSUME Sized, IInv, NEW t \in Thread, read_tsc(t)
  PROVE  IInv' /\ last_ns'[t] > last_ns[t]
<1> USE DEF IInv
<1> DEFINE ns == tsc_to_ns(tsc, calib[ptr[t]])
<1>1. /\ pc[t] = "loaded"
      /\ last_ns' = [last_ns EXCEPT ![t] = Monotonic(ns, last_ns[t])]
      /\ pc' = [pc EXCEPT ![t] = "idle"] /\ calls' = [calls EXCEPT ![t] = calls[t] + 1]
      /\ UNCHANGED <<tsc, offset, calib, calib_ptr, retired, freed, making, sample, ptr, highest>>
  BY DEF read_tsc
<1>2. ns \in Int /\ ns <= highest + tsc
  BY <1>1, NotAhead DEF PointerInv
<1> HIDE DEF ns
<1>3. /\ last_ns'[t] = Monotonic(ns, last_ns[t]) /\ last_ns[t] \in Int
      /\ calls'[t] = calls[t] + 1 /\ calls[t] \in Nat
      /\ \A u \in Thread : u # t => /\ last_ns'[u] = last_ns[u]
                                    /\ calls'[u] = calls[u] /\ pc'[u] = pc[u]
  BY <1>1 DEF Types
<1>4. /\ last_ns'[t] \in Int /\ last_ns'[t] > last_ns[t]
      /\ last_ns'[t] <= highest + tsc + calls[t] + 1
  BY <1>2, <1>3 DEF Monotonic, Bounded, Types
<1>5. Types'
  BY <1>1, <1>3, <1>4 DEF Types
<1>6. CalibInv'
  BY <1>1 DEF CalibInv
<1>7. pc'[t] = "idle"
  BY <1>1 DEF Types
<1>8. PointerInv'
  BY <1>1, <1>3, <1>7 DEF PointerInv
<1>9. Bounded'
  <2>1. ASSUME NEW u \in Thread, u # t
        PROVE  last_ns'[u] <= highest' + tsc' + calls'[u] /\ (pc'[u] = "loaded" => ptr'[u] \notin freed')
    BY <1>1, <1>3, <2>1 DEF Bounded
  <2>2. last_ns'[t] <= highest' + tsc' + calls'[t]
    BY <1>1, <1>3, <1>4 DEF Types
  <2> QED
    BY <1>7, <2>1, <2>2 DEF Bounded
<1> QED
  BY <1>4, <1>5, <1>6, <1>8, <1>9

\* A new calibrator is bounded by the clocks, and the old one stays alive.
LEMMA CalibrateInv ==
  ASSUME IInv, calibrate_now
  PROVE  IInv'
<1> USE DEF IInv
<1>1. CASE read_wallclock
  <2>1. /\ making = "idle" /\ calib_ptr # 0 /\ making' = "base" /\ sample' = tsc + offset
        /\ UNCHANGED <<tsc, offset, calib, calib_ptr, retired, freed, pc, ptr, last_ns, highest,
                       calls>>
    BY <1>1 DEF read_wallclock
  <2>2. Types'
    BY <2>1 DEF Types
  <2>3. CalibInv'
    BY <2>1 DEF CalibInv, Types
  <2>4. PointerInv' /\ Bounded'
    BY <2>1 DEF PointerInv, Bounded
  <2> QED
    BY <2>2, <2>3, <2>4
<1>2. CASE read_base_tsc
  <2>1. /\ making = "base" /\ making' = "swap"
        /\ calib' = Append(calib, [base_tsc |-> tsc, base_wallclock_ns |-> sample])
        /\ UNCHANGED <<tsc, offset, calib_ptr, retired, freed, sample, pc, ptr, last_ns,
                       highest, calls>>
    BY <1>2 DEF read_base_tsc
  <2>2. [base_tsc |-> tsc, base_wallclock_ns |-> sample] \in Calibrator
    BY DEF Types, Calibrator
  <2>3. /\ calib' \in Seq(Calibrator) /\ Len(calib') = Len(calib) + 1 /\ Len(calib) \in Nat
        /\ calib'[Len(calib')] = [base_tsc |-> tsc, base_wallclock_ns |-> sample]
        /\ \A i \in 1 .. Len(calib) : calib'[i] = calib[i]
    BY <2>1, <2>2 DEF Types
  <2>4. Types'
    BY <2>1, <2>3 DEF Types
  <2>5. \A i \in 1 .. Len(calib') :
           calib'[i].base_tsc <= tsc /\ calib'[i].base_wallclock_ns <= highest + calib'[i].base_tsc
    <3> SUFFICES ASSUME NEW i \in 1 .. Len(calib')
                 PROVE  /\ calib'[i].base_tsc <= tsc
                        /\ calib'[i].base_wallclock_ns <= highest + calib'[i].base_tsc
      OBVIOUS
    <3>1. CASE i = Len(calib')
      BY <2>1, <2>3, <3>1 DEF CalibInv, Types
    <3>2. CASE i \in 1 .. Len(calib)
      BY <2>3, <3>2 DEF CalibInv
    <3> QED
      BY <2>3, <3>1, <3>2
  <2>6. CalibInv'
    BY <2>1, <2>3, <2>5 DEF CalibInv
  <2>7. PointerInv' /\ Bounded'
    BY <2>1, <2>3 DEF PointerInv, Bounded
  <2> QED
    BY <2>4, <2>6, <2>7
<1>3. CASE exchange
  <2>1. /\ making = "swap" /\ making' = "idle" /\ calib_ptr' = Len(calib) /\ freed' = freed
        /\ UNCHANGED <<tsc, offset, calib, sample, pc, ptr, last_ns, highest, calls>>
    BY <1>3 DEF exchange, retire
  <2>2. Len(calib) \in Nat /\ Len(calib) >= 1 /\ calib_ptr # 0
    BY <2>1 DEF Types, CalibInv, PointerInv
  <2>3. Types'
    BY <2>1, <2>2 DEF Types
  <2>4. CalibInv'
    BY <2>1 DEF CalibInv
  <2>5. PointerInv' /\ Bounded'
    BY <2>1, <2>2 DEF PointerInv, Bounded
  <2> QED
    BY <2>3, <2>4, <2>5
<1> QED
  BY <1>1, <1>2, <1>3 DEF calibrate_now

\* The destructor frees the calibrators when no thread holds one.
LEMMA DestroyInv ==
  ASSUME IInv, destroy
  PROVE  IInv'
BY DEF destroy, IInv, Types, CalibInv, PointerInv, Bounded

\* The bounds grow with the counter.
LEMMA TickInv ==
  ASSUME IInv, tick
  PROVE  IInv'
<1> USE DEF IInv
<1>1. /\ tsc' = tsc + 1
      /\ UNCHANGED <<offset, calib, calib_ptr, retired, freed, making, sample, pc, ptr,
                     last_ns, highest, calls>>
  BY DEF tick
<1>2. Types'
  BY <1>1 DEF Types
<1>3. CalibInv'
  <2>1. \A i \in 1 .. Len(calib) : calib[i].base_tsc <= tsc + 1
    BY CalibParts DEF CalibInv, Types
  <2>2. making = "base" => sample <= highest + (tsc + 1)
    BY DEF CalibInv, Types
  <2> QED
    BY <1>1, <2>1, <2>2 DEF CalibInv
<1>4. PointerInv' /\ Bounded'
  BY <1>1 DEF PointerInv, Bounded, Types
<1> QED
  BY <1>2, <1>3, <1>4

\* The bounds grow with the highest setting of the wall clock.
LEMMA SetWallclockInv ==
  ASSUME Sized, IInv, set_wallclock
  PROVE  IInv'
<1> USE DEF IInv
<1>1. /\ offset' \in Int /\ highest' \in Int /\ highest' >= highest /\ offset' <= highest'
      /\ UNCHANGED <<tsc, calib, calib_ptr, retired, freed, making, sample, pc, ptr,
                     last_ns, calls>>
  BY DEF set_wallclock, Sized, Types
<1>2. Types'
  BY <1>1 DEF Types
<1>3. CalibInv'
  <2>1. tsc \in Int /\ sample \in Int /\ highest \in Int
    BY DEF Types
  <2>2. \A i \in 1 .. Len(calib) : calib[i].base_wallclock_ns <= highest' + calib[i].base_tsc
    <3> SUFFICES ASSUME NEW i \in 1 .. Len(calib)
                 PROVE  calib[i].base_wallclock_ns <= highest' + calib[i].base_tsc
      OBVIOUS
    <3>1. calib[i].base_wallclock_ns <= highest + calib[i].base_tsc
      BY DEF CalibInv
    <3> QED
      BY <1>1, <2>1, <3>1, CalibParts, SumGrows
  <2>3. making = "base" => sample <= highest' + tsc
    <3>1. making = "base" => sample <= highest + tsc
      BY DEF CalibInv
    <3>2. highest' \in Int /\ highest <= highest'
      BY <1>1
    <3>3. sample <= highest + tsc => sample <= highest' + tsc
      BY <2>1, <3>2, SumGrows
    <3> QED
      BY <3>1, <3>3
  <2> QED
    BY <1>1, <2>2, <2>3 DEF CalibInv
<1>4. PointerInv' /\ Bounded'
  BY <1>1 DEF PointerInv, Bounded, Types
<1> QED
  BY <1>2, <1>3, <1>4

-----------------------------------------------------------------------------

\* The calls of now_ns, the calibrations and the settings of the wall clock
\* may come in any order: a thread's timestamps increase strictly, never run
\* away from the wall clock, and no thread uses a freed calibrator.
THEOREM TimestampsAlwaysSound ==
  ASSUME Sized
  PROVE  Spec => TimestampsSound
<1> DEFINE Strict == \A t \in Thread : calls'[t] # calls[t] => last_ns'[t] > last_ns[t]
<1>1. Init => IInv
  BY InitInv
<1>2. IInv /\ [Next]_clockVars => IInv' /\ [Strict]_clockVars
  <2> SUFFICES ASSUME IInv, [Next]_clockVars
               PROVE  IInv' /\ [Strict]_clockVars
    OBVIOUS
  <2>1. CASE UNCHANGED clockVars
    BY <2>1 DEF clockVars, IInv, Types, CalibInv, PointerInv, Bounded
  <2>2. CASE UNCHANGED calls /\ IInv'
    BY <2>2
  <2>3. ASSUME NEW t \in Thread, load_calibrator(t) PROVE IInv' /\ [Strict]_clockVars
    BY <2>2, <2>3, LoadInv DEF load_calibrator
  <2>4. ASSUME NEW t \in Thread, read_tsc(t) PROVE IInv' /\ [Strict]_clockVars
    <3>1. IInv' /\ last_ns'[t] > last_ns[t]
      BY <2>4, ReadInv
    <3>2. \A u \in Thread : u # t => calls'[u] = calls[u]
      BY <2>4 DEF read_tsc, IInv, Types
    <3> QED
      BY <3>1, <3>2
  <2>5. CASE calibrate_now
    BY <2>2, <2>5, CalibrateInv DEF calibrate_now, read_wallclock, read_base_tsc, exchange
  <2>6. CASE destroy
    BY <2>2, <2>6, DestroyInv DEF destroy
  <2>7. CASE tick
    BY <2>2, <2>7, TickInv DEF tick
  <2>8. CASE set_wallclock
    BY <2>2, <2>8, SetWallclockInv DEF set_wallclock
  <2> QED
    BY <2>1, <2>3, <2>4, <2>5, <2>6, <2>7, <2>8 DEF Next, now_ns
<1>3. IInv => Bounded
  BY DEF IInv
<1> QED
  BY <1>1, <1>2, <1>3, PTL DEF Spec, TimestampsSound, Bounded
=============================================================================

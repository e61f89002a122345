--------------------------- MODULE InstrumentEngine ---------------------------
(***************************************************************************)
(* flashstrike::instrument: the engines that run the matching engine of    *)
(* one instrument on a thread of its own.  The caller submits events to    *)
(* inbound_ring_; the matching thread applies each one and, in Engine,     *)
(* passes it on through recorder_ring_ to the thread that appends it to    *)
(* the log.  AsyncMatchingEngine is the same without the second thread.    *)
(* One stop_flag_ ends both threads and every wait for room in a ring.     *)
(***************************************************************************)
EXTENDS Naturals, Sequences, SequencesExt

CONSTANTS InboundCapacity,    \* inbound_ring_
          RecorderCapacity,   \* recorder_ring_
          MaxEvent            \* bound: events submitted

VARIABLES kind,            \* "Engine" or "AsyncMatchingEngine"
          stop_flag_,
          inbound_ring_,
          recorder_ring_,
          submitting,      \* submit_event() is waiting for room
          accepted,        \* events submit_event() returned true for
          next_event,      \* the next event of the caller
          matching,        \* its thread: [pc, ev]
          recording,       \* "run", "drain" or "exit"
          stopped,         \* shutdown() has returned
          applied,         \* events applied to the matching engine
          logged           \* events appended to the log

caller == <<submitting, accepted, next_event>>
rings  == <<inbound_ring_, recorder_ring_>>
vars   == <<kind, stop_flag_, rings, caller, matching, recording, stopped, applied, logged>>

Init ==
    /\ kind \in {"Engine", "AsyncMatchingEngine"}
    /\ stop_flag_ = FALSE
    /\ inbound_ring_ = <<>> /\ recorder_ring_ = <<>>
    /\ submitting = FALSE /\ accepted = {} /\ next_event = 1
    /\ matching = [pc |-> "run", ev |-> 0]
    /\ recording = IF kind = "Engine" THEN "run" ELSE "exit"
    /\ stopped = FALSE
    /\ applied = <<>> /\ logged = <<>>

(***************************************************************************)
(* submit_event: push, or give up once the flag is set.                    *)
(***************************************************************************)
submit_event ==
    /\ ~submitting /\ next_event <= MaxEvent
    /\ submitting' = TRUE
    /\ UNCHANGED <<kind, stop_flag_, rings, accepted, next_event, matching, recording,
                   stopped, applied, logged>>

submit_ends ==
    /\ submitting
    /\ \/ /\ Len(inbound_ring_) < InboundCapacity
          /\ inbound_ring_' = Append(inbound_ring_, next_event)
          /\ accepted' = accepted \cup {next_event}
       \/ /\ Len(inbound_ring_) = InboundCapacity /\ stop_flag_
          /\ UNCHANGED <<inbound_ring_, accepted>>
    /\ submitting' = FALSE
    /\ next_event' = next_event + 1
    /\ UNCHANGED <<kind, stop_flag_, recorder_ring_, matching, recording, stopped, applied,
                   logged>>

shutdown ==
    /\ ~stop_flag_
    /\ stop_flag_' = TRUE
    /\ UNCHANGED <<kind, rings, caller, matching, recording, stopped, applied, logged>>

threads_joined ==
    /\ stop_flag_ /\ ~stopped
    /\ matching.pc = "exit" /\ recording = "exit"
    /\ stopped' = TRUE
    /\ UNCHANGED <<kind, stop_flag_, rings, caller, matching, recording, applied, logged>>

(***************************************************************************)
(* The matching thread.  An event is applied first and recorded after; its *)
(* wait for room in recorder_ring_ ends with the flag, and the event with  *)
(* it.                                                                     *)
(***************************************************************************)
process_event ==
    /\ matching.pc \in {"run", "drain"} /\ inbound_ring_ # <<>>
    /\ inbound_ring_' = Tail(inbound_ring_)
    /\ applied' = Append(applied, Head(inbound_ring_))
    /\ matching' = IF kind = "Engine"
                   THEN [pc |-> IF matching.pc = "run" THEN "push" ELSE "drain_push",
                         ev |-> Head(inbound_ring_)]
                   ELSE matching
    /\ UNCHANGED <<kind, stop_flag_, recorder_ring_, caller, recording, stopped, logged>>

(* Mutant of record_event: a full ring drops the event at once.            *)
RecordOrDrop ==
    /\ matching.pc \in {"push", "drain_push"}
    /\ recorder_ring_' = IF Len(recorder_ring_) < RecorderCapacity
                         THEN Append(recorder_ring_, matching.ev) ELSE recorder_ring_
    /\ matching' = [pc |-> IF matching.pc = "push" THEN "run" ELSE "drain", ev |-> 0]
    /\ UNCHANGED <<kind, stop_flag_, inbound_ring_, caller, recording, stopped, applied,
                   logged>>

(* Mutant of record_event: the wait for room does not heed the flag.       *)
RecordWaitsForRoom ==
    /\ matching.pc \in {"push", "drain_push"}
    /\ Len(recorder_ring_) < RecorderCapacity
    /\ recorder_ring_' = Append(recorder_ring_, matching.ev)
    /\ matching' = [pc |-> IF matching.pc = "push" THEN "run" ELSE "drain", ev |-> 0]
    /\ UNCHANGED <<kind, stop_flag_, inbound_ring_, caller, recording, stopped, applied,
                   logged>>

record_event ==
    /\ matching.pc \in {"push", "drain_push"}
    /\ \/ /\ Len(recorder_ring_) < RecorderCapacity
          /\ recorder_ring_' = Append(recorder_ring_, matching.ev)
       \/ /\ Len(recorder_ring_) = RecorderCapacity /\ stop_flag_
          /\ UNCHANGED recorder_ring_
    /\ matching' = [pc |-> IF matching.pc = "push" THEN "run" ELSE "drain", ev |-> 0]
    /\ UNCHANGED <<kind, stop_flag_, inbound_ring_, caller, recording, stopped, applied,
                   logged>>

matching_engine_thread_stops ==
    /\ inbound_ring_ = <<>>
    /\ \/ matching.pc = "run" /\ stop_flag_ /\ matching' = [matching EXCEPT !.pc = "drain"]
       \/ matching.pc = "drain" /\ matching' = [matching EXCEPT !.pc = "exit"]
    /\ UNCHANGED <<kind, stop_flag_, rings, caller, recording, stopped, applied, logged>>

(***************************************************************************)
(* The recorder thread.                                                    *)
(***************************************************************************)
append_event ==
    /\ recording \in {"run", "drain"} /\ recorder_ring_ # <<>>
    /\ recorder_ring_' = Tail(recorder_ring_)
    /\ logged' = Append(logged, Head(recorder_ring_))
    /\ UNCHANGED <<kind, stop_flag_, inbound_ring_, caller, matching, recording, stopped,
                   applied>>

recorder_thread_stops ==
    /\ recorder_ring_ = <<>>
    /\ \/ recording = "run" /\ stop_flag_ /\ recording' = "drain"
       \/ recording = "drain" /\ recording' = "exit"
    /\ UNCHANGED <<kind, stop_flag_, rings, caller, matching, stopped, applied, logged>>

Matching == process_event \/ record_event \/ matching_engine_thread_stops
Recording == append_event \/ recorder_thread_stops

Next == \/ submit_event \/ submit_ends \/ shutdown \/ threads_joined
        \/ Matching \/ Recording

(* The three threads run.                                                  *)
Fairness == /\ WF_vars(submit_ends) /\ WF_vars(threads_joined)
            /\ WF_vars(Matching) /\ WF_vars(Recording)

Spec == Init /\ [][Next]_vars /\ Fairness

(***************************************************************************)
(* Properties                                                              *)
(***************************************************************************)

(* Until the shutdown the log follows the matching engine exactly: what is *)
(* logged, in recorder_ring_ and in the hand of the matching thread is     *)
(* what was applied, in that order; and what was accepted is applied or    *)
(* still in inbound_ring_.                                                 *)
LogFollowsEngine ==
    ~stop_flag_ =>
        /\ kind = "Engine" =>
              applied = logged \o recorder_ring_
                           \o (IF matching.pc = "push" THEN <<matching.ev>> ELSE <<>>)
        /\ accepted = ToSet(applied \o inbound_ring_)

(* shutdown() returns, whatever was in the rings and whoever was waiting   *)
(* for room in them.                                                       *)
ShutdownReturns == stop_flag_ ~> stopped

(* "Destructor ensures forced join and clean WAL flush to avoid data       *)
(* loss": every event the matching engine applied is in the log once       *)
(* shutdown() has returned.  Violated: the recorder thread may find its    *)
(* ring empty and exit while the matching thread is still applying.        *)
AppliedIsLogged == stopped /\ kind = "Engine" => applied = logged

==============================================================================

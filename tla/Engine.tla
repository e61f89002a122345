-------------------------------- MODULE Engine --------------------------------
(***************************************************************************)
(* The receive path: websocket::Engine's receive thread assembles messages *)
(* in slots of the message ring, promotes a slot to a block of the memory  *)
(* pool when its inline buffer is full, and shapes saturation into         *)
(* backpressure events with two hystereses.  The session thread drains the *)
(* control and message rings and closes the transport when the overload    *)
(* lasts.  A message is the number of frames it has filled, and whether it *)
(* holds a block.                                                          *)
(***************************************************************************)
EXTENDS Naturals, Sequences, FiniteSets

CONSTANTS Modes,            \* BackpressurePolicy::mode: the policies considered
          Activate,         \* its activation threshold
          Deactivate,       \* its deactivation threshold
          Escalation,       \* the session's escalation_threshold
          RingCapacity,     \* slots of the message ring
          ControlCapacity,  \* events the control ring holds
          PoolSize,         \* blocks of the memory pool
          InlineFrames,     \* frames that fit the inline buffer
          BlockFrames       \* frames that fit a block

VARIABLES mode,              \* the policy of this transport, a template argument
          running,           \* running_
          pc,                \* where the receive thread is in its loop
          close_signaled,    \* close_signaled_
          slot,              \* current_slot
          ring,              \* committed messages: does it hold a block?
          free,              \* free blocks of the pool
          ring_backpressure, \* ring_backpressure_
          pool_backpressure, \* pool_backpressure_
          pressed,           \* backpressure_active_
          control,           \* the control ring
          overload,          \* the session's overload_state_.transport
          joining            \* the session waits in close() for the thread

shaping == <<ring_backpressure, pool_backpressure, pressed>>
thread  == <<running, pc, close_signaled>>
session == <<overload, joining>>
vars    == <<mode, thread, slot, ring, free, shaping, control, session>>

NoSlot == [frames |-> 0, external |-> FALSE, held |-> FALSE]
Calm   == [active |-> FALSE, up |-> 0, down |-> 0]

Init ==
    /\ mode \in Modes
    /\ running = TRUE /\ pc = "check" /\ close_signaled = FALSE
    /\ slot = NoSlot
    /\ ring_backpressure = Calm /\ pool_backpressure = Calm /\ pressed = FALSE
    /\ ring = <<>> /\ control = <<>>
    /\ free = PoolSize
    /\ overload = [active |-> FALSE, count |-> 0]
    /\ joining = FALSE

-----------------------------------------------------------------------------
(* BinaryHysteresis                                                        *)

on_active_signal(h) ==
    IF h.active THEN [h EXCEPT !.up = 0, !.down = 0]
    ELSE IF h.up + 1 >= Activate THEN [active |-> TRUE, up |-> 0, down |-> 0]
         ELSE [h EXCEPT !.up = @ + 1, !.down = 0]

on_inactive_signal(h) ==
    IF ~h.active THEN [h EXCEPT !.up = 0, !.down = 0]
    ELSE IF h.down + 1 >= Deactivate THEN Calm
         ELSE [h EXCEPT !.down = @ + 1, !.up = 0]

-----------------------------------------------------------------------------
(* Events of the receive thread.                                           *)

Full(q) == Len(q) = ControlCapacity

(* emit_event_: an event that does not fit is lost.                        *)
emit_event(q, e) == IF Full(q) THEN q ELSE Append(q, e)

(* signal_close_: once per transport.                                      *)
signal_close ==
    /\ close_signaled' = TRUE
    /\ control' = IF close_signaled THEN control ELSE emit_event(control, "Close")

(* handle_fatal_error_: the thread that stops the loop reports the error,  *)
(* then signals the close.  A half-read message waits for EndLoop.         *)
FatalError ==
    /\ pc = "fatal"
    /\ running' = FALSE
    /\ IF running
       THEN pc' = "fatal_close" /\ control' = emit_event(control, "Error")
       ELSE pc' = "check" /\ UNCHANGED control
    /\ UNCHANGED <<close_signaled, slot, ring, free, shaping, session>>

FatalClose ==
    /\ pc = "fatal_close"
    /\ pc' = "check"
    /\ signal_close
    /\ UNCHANGED <<running, slot, ring, free, shaping, session>>

(* A mutant: a "detected" that does not fit is dropped, like a "cleared".  *)
DropDetected(rh, ph, next) ==
    /\ ring_backpressure' = rh /\ pool_backpressure' = ph
    /\ pressed' = (rh.active \/ ph.active)
    /\ control' = IF pressed' = pressed THEN control
                  ELSE emit_event(control, IF pressed' THEN "Detected" ELSE "Cleared")
    /\ pc' = next

(* update_backpressure_state_, after the hystereses moved to rh and ph:    *)
(* a lost "cleared" is ignored, a lost "detected" is fatal.                *)
update_backpressure_state(rh, ph, next) ==
    /\ ring_backpressure' = rh /\ pool_backpressure' = ph
    /\ pressed' = (rh.active \/ ph.active)
    /\ CASE pressed' = pressed  -> control' = control /\ pc' = next
         [] pressed' /\ ~pressed -> /\ control' = emit_event(control, "Detected")
                                   /\ pc' = IF Full(control) THEN "fatal" ELSE next
         [] ~pressed' /\ pressed -> control' = emit_event(control, "Cleared") /\ pc' = next

(* Success and failure of an acquisition or a promotion: under             *)
(* ZeroTolerance nothing is shaped, and a failure is fatal.                *)
Succeeds(rh, ph) ==
    IF mode = "ZeroTolerance"
    THEN pc' = "read" /\ UNCHANGED <<shaping, control>>
    ELSE update_backpressure_state(rh, ph, "read")

Fails(rh, ph) ==
    IF mode = "ZeroTolerance"
    THEN pc' = "fatal" /\ UNCHANGED <<shaping, control>>
    ELSE update_backpressure_state(rh, ph, "check")

-----------------------------------------------------------------------------
(* receive_loop_: the loop test, then a slot or a promotion where one is   *)
(* needed, then a read.                                                    *)

capacity == IF slot.external THEN BlockFrames ELSE InlineFrames

LoopTest ==
    /\ pc = "check" /\ running
    /\ pc' = IF slot.held /\ slot.frames < capacity THEN "read" ELSE "work"
    /\ UNCHANGED <<running, close_signaled, slot, ring, free, shaping, control, session>>

acquire_slot ==
    /\ pc = "work" /\ ~slot.held
    /\ IF Len(ring) < RingCapacity
       THEN /\ slot' = [NoSlot EXCEPT !.held = TRUE]
            /\ Succeeds(on_inactive_signal(ring_backpressure), pool_backpressure)
       ELSE /\ slot' = slot
            /\ Fails(on_active_signal(ring_backpressure), pool_backpressure)
    /\ UNCHANGED <<running, close_signaled, ring, free, session>>

(* reserve() takes a block; it fails when the pool is empty, and when the  *)
(* message already fills its block.                                        *)
promote_slot ==
    /\ pc = "work" /\ slot.held
    /\ IF ~slot.external /\ free > 0
       THEN /\ slot' = [slot EXCEPT !.external = TRUE]
            /\ free' = free - 1
            /\ Succeeds(ring_backpressure, on_inactive_signal(pool_backpressure))
       ELSE /\ UNCHANGED <<slot, free>>
            /\ Fails(ring_backpressure, on_active_signal(pool_backpressure))
    /\ UNCHANGED <<running, close_signaled, ring, session>>

(* read_some() returns a fragment, or the last frame of a message.         *)
ReadFrame(last) ==
    /\ pc = "read"
    /\ pc' = "check"
    /\ IF last
       THEN ring' = Append(ring, slot.external) /\ slot' = NoSlot
       ELSE slot' = [slot EXCEPT !.frames = @ + 1] /\ UNCHANGED ring
    /\ UNCHANGED <<running, close_signaled, free, shaping, control, session>>

(* read_some() fails, or returns a close frame with or without a cause.    *)
ReadFailure(error) ==
    /\ pc = "read"
    /\ pc' = "check"
    /\ running' = FALSE
    /\ control' = IF error THEN emit_event(control, "Error") ELSE control
    /\ UNCHANGED <<close_signaled, slot, ring, free, shaping, session>>

(* A mutant: the block of a half-read message is not returned.             *)
EndLeaksBlock ==
    /\ pc = "check" /\ ~running
    /\ pc' = "ended"
    /\ slot' = NoSlot
    /\ signal_close
    /\ UNCHANGED <<running, free, ring, shaping, session>>

(* After the loop: a half-read message is discarded, the close signalled.  *)
EndLoop ==
    /\ pc = "check" /\ ~running
    /\ pc' = "ended"
    /\ slot' = NoSlot
    /\ free' = IF slot.external THEN free + 1 ELSE free
    /\ signal_close
    /\ UNCHANGED <<running, ring, shaping, session>>

ReceiveLoop ==
    \/ LoopTest \/ acquire_slot \/ promote_slot
    \/ \E last \in BOOLEAN : ReadFrame(last)
    \/ FatalError \/ FatalClose \/ EndLoop

-----------------------------------------------------------------------------
(* The session thread, which waits for the receive thread while it joins.  *)

Polling == joining => pc = "ended"

(* One control event, through the connection's signal, to the session.     *)
PollEvent ==
    /\ Polling
    /\ control # <<>> /\ Head(control) # "Close"
    /\ control' = Tail(control)
    /\ overload' = CASE Head(control) = "Detected" -> [overload EXCEPT !.active = TRUE]
                     [] Head(control) = "Cleared" -> [overload EXCEPT !.active = FALSE]
                     [] OTHER -> overload
    /\ UNCHANGED <<thread, slot, ring, free, shaping, joining>>

Blocks(q) == Cardinality({i \in 1 .. Len(q) : q[i]})

(* Close: the receive thread is joined, the session forgets the overload,  *)
(* and a new transport starts on cleared rings.                            *)
Reconnect ==
    /\ pc = "ended" /\ control # <<>> /\ Head(control) = "Close"
    /\ running' = TRUE /\ pc' = "check" /\ close_signaled' = FALSE
    /\ slot' = NoSlot
    /\ ring_backpressure' = Calm /\ pool_backpressure' = Calm /\ pressed' = FALSE
    /\ ring' = <<>> /\ control' = <<>>
    /\ free' = free + Blocks(ring)
    /\ overload' = [active |-> FALSE, count |-> 0]
    /\ joining' = FALSE

(* peek_message(), then release_message() returns the block.               *)
TakeMessage ==
    /\ Polling
    /\ ring # <<>>
    /\ ring' = Tail(ring)
    /\ free' = IF Head(ring) THEN free + 1 ELSE free
    /\ UNCHANGED <<thread, slot, shaping, control, session>>

(* ConsecutiveStateCounter::next_frame.                                    *)
next_frame(o) == [o EXCEPT !.count = IF o.active THEN @ + 1 ELSE 0]

(* A mutant: the overload that lasts is not acted upon.                    *)
NeverEscalates ==
    /\ Polling
    /\ overload' = IF overload.count = Escalation THEN overload ELSE next_frame(overload)
    /\ UNCHANGED <<thread, slot, ring, free, shaping, control, joining>>

(* enforce_backpressure_policy_, at the end of a poll: an overload of      *)
(* Escalation polls closes the connection.                                 *)
EndPoll ==
    /\ Polling
    /\ IF overload.active /\ mode # "ZeroTolerance"
             /\ next_frame(overload).count >= Escalation
       THEN /\ running' = FALSE /\ joining' = TRUE
            /\ overload' = [active |-> FALSE, count |-> 0]
       ELSE /\ overload' = next_frame(overload)
            /\ UNCHANGED <<running, joining>>
    /\ UNCHANGED <<pc, close_signaled, slot, ring, free, shaping, control>>

SessionPoll == PollEvent \/ TakeMessage \/ EndPoll \/ Reconnect

Next ==
    /\ \/ ReceiveLoop
       \/ \E error \in BOOLEAN : ReadFailure(error)
       \/ SessionPoll
    /\ UNCHANGED mode

Spec == Init /\ [][Next]_vars

(* The receive thread keeps looping on a network that keeps sending; the   *)
(* session keeps polling: it drains both rings and finishes its polls.     *)
FairSpec ==
    /\ Spec
    /\ WF_vars(ReceiveLoop /\ UNCHANGED mode)
    /\ WF_vars(PollEvent /\ UNCHANGED mode)
    /\ WF_vars(TakeMessage /\ UNCHANGED mode)
    /\ WF_vars(EndPoll /\ UNCHANGED mode)
    /\ WF_vars(Reconnect /\ UNCHANGED mode)

-----------------------------------------------------------------------------

(* Type correctness of the receive path.                                   *)
TypeOK ==
    /\ slot \in [frames : 0 .. BlockFrames, external : BOOLEAN, held : BOOLEAN]
    /\ free \in 0 .. PoolSize
    /\ Len(ring) <= RingCapacity /\ Len(control) <= ControlCapacity
    /\ overload.count \in 0 .. Escalation

(* Every block of the pool is free, or held by exactly one message: none   *)
(* is lost or returned twice over discards, errors, closes and reconnects. *)
PoolConserved ==
    free + Blocks(ring) + (IF slot.external THEN 1 ELSE 0) = PoolSize

(* A transport signals its close once, as its last event, on every way out *)
(* of the receive loop.                                                    *)
CloseIsLast ==
    \A i \in 1 .. Len(control) : control[i] = "Close" => i = Len(control)

(* While the transport is saturated, the session holds it overloaded once  *)
(* it has drained the control ring: no order of events, no full ring and   *)
(* no lost "cleared" leaves it believing that all is well.                 *)
PressureNeverMissed ==
    LET told == {i \in 1 .. Len(control) : control[i] \in {"Detected", "Cleared"}}
    IN  running /\ pressed /\ pc # "fatal" =>
           IF told = {} THEN overload.active
           ELSE control[CHOOSE i \in told : \A j \in told : j <= i] = "Detected"

(* A saturated transport does not stay up and saturated: the session       *)
(* catches up, or it closes the transport.                                 *)
StallResolved == pressed /\ running ~> ~(pressed /\ running)

=============================================================================

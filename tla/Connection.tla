----------------------------- MODULE Connection -----------------------------
(***************************************************************************)
(* transport::Connection: the state machine of one logical connection over *)
(* a succession of transports, with its retries, its liveness timeout and  *)
(* its signals.  The caller's thread runs open(), close() and poll(); the  *)
(* receive thread of the transport pushes events and messages into the     *)
(* control and message rings at any time.                                  *)
(*                                                                         *)
(* The connection is one record, and every member function is an operator  *)
(* from records to records.  `sd` says whether the receive thread reports  *)
(* LocalShutdown when it is told to stop.                                  *)
(***************************************************************************)
EXTENDS Naturals, Sequences

CONSTANTS RetryMode,        \* RetryPolicy::mode
          MaxAttempts,      \* RetryPolicy::max_attempts, 0 for no limit
          Pressure,         \* the backpressure policy emits events (not ZeroTolerance)
          ReceiveErrors,    \* errors the receive thread may report, "None" for none
          SignalCapacity,   \* signals the signal ring holds
          ControlCapacity,  \* events the control ring holds
          Slack,            \* free signal slots the caller leaves before a call
          MessageCapacity,  \* bound: messages in the message ring
          MaxEpoch,         \* bound: connections
          AttemptCap        \* bound: retries counted when there is no limit

Retryable ==
    {"ConnectionFailed", "HandshakeFailed", "Timeout", "RemoteClosed",
     "TransportFailure"}
Error ==
    Retryable \cup {"None", "Backpressure", "ProtocolError", "LocalShutdown"}
State ==
    {"Disconnected", "Connecting", "Connected", "Disconnecting",
     "WaitingReconnect"}
Signal ==
    {"Connected", "Disconnected", "RetryImmediate", "RetryScheduled",
     "LivenessThreatened", "BackpressureDetected", "BackpressureCleared"}
PressureEvents == {"BackpressureDetected", "BackpressureCleared"}

ASSUME ConnectionAssumption ==
    /\ RetryMode \in {"Never", "Always", "RetryableOnly"}
    /\ MaxAttempts \in Nat
    /\ Pressure \in BOOLEAN
    /\ ReceiveErrors \subseteq Error
    /\ {SignalCapacity, ControlCapacity, Slack, MessageCapacity} \subseteq Nat
    /\ {MaxEpoch, AttemptCap} \subseteq Nat
    /\ AttemptCap > MaxAttempts

VARIABLES conn,   \* the connection and the rings it shares with its transport
          pc,     \* the phase of poll(), "user" outside it
          asked   \* history: close() has been called since the last open()

vars == <<conn, pc, asked>>

(* ws:         "none" without a transport; "running" while the receive     *)
(*             thread reads; "failed" once it has reported an error;       *)
(*             "ended" once it has signalled the close.                    *)
(* next_retry: "none" when not set, "waiting", or "due".                   *)
(* silence:    how long the current connection has seen no traffic.        *)
Init ==
    /\ conn = [state |-> "Disconnected", ws |-> "none", pressed |-> FALSE,
               control |-> <<>>, messages |-> <<>>, signals |-> <<>>,
               last_error |-> "None", disconnect_reason |-> "None",
               retry_root_error |-> "None", retry_attempts |-> 0,
               next_retry |-> "none", epoch |-> 0,
               silence |-> "fresh", liveness_warning |-> FALSE,
               liveness_timeout |-> FALSE]
    /\ pc = "user"
    /\ asked = FALSE

-----------------------------------------------------------------------------
(* The transport.                                                          *)

(* emit_event_: an event that does not fit in the control ring is lost.    *)
emit_event(c, e) ==
    IF Len(c.control) < ControlCapacity
    THEN [c EXCEPT !.control = Append(@, e)] ELSE c

ErrorEvent(e) == <<"Error", e>>

(* The receive thread reports error e, "None" for a graceful close.        *)
ReportError(c, e) ==
    [(IF e = "None" THEN c ELSE emit_event(c, ErrorEvent(e))) EXCEPT !.ws = "failed"]

(* signal_close_, the last thing the receive thread does.                  *)
signal_close(c) == [emit_event(c, <<"Close">>) EXCEPT !.ws = "ended"]

(* ws_->close(): stops the receive thread and joins it.                    *)
CloseTransport(c, sd) ==
    CASE c.ws = "running" ->
           signal_close(ReportError(c, IF sd THEN "LocalShutdown" ELSE "None"))
      [] c.ws = "failed" -> signal_close(c)
      [] OTHER -> c

(* destroy_transport_if_needed_                                            *)
destroy_transport(c, sd) ==
    IF c.ws = "none" THEN c ELSE [CloseTransport(c, sd) EXCEPT !.ws = "none"]

(* A mutant: the rings are not cleared for the new transport.              *)
CreateKeepsRings(c) == [c EXCEPT !.ws = "running", !.pressed = FALSE]

(* create_transport_, followed by a successful connect().                  *)
create_transport(c) ==
    [c EXCEPT !.control = <<>>, !.messages = <<>>, !.ws = "running",
              !.pressed = FALSE]

-----------------------------------------------------------------------------
(* The state machine: transition_, one operator per event.                 *)

CloseRequested(c, sd) ==
    CASE c.state = "Connected" ->
           CloseTransport([c EXCEPT !.disconnect_reason = "LocalClose",
                                    !.state = "Disconnecting"], sd)
      [] c.state \in {"Connecting", "WaitingReconnect"} ->
           destroy_transport([c EXCEPT !.state = "Disconnected"], sd)
      [] OTHER -> c

close(c, sd) ==
    IF c.state \in {"Disconnected", "Disconnecting"} THEN c
    ELSE CloseRequested(c, sd)

(* emit_: a signal that does not fit closes the connection.                *)
emit(c, sig, sd) ==
    IF Len(c.signals) < SignalCapacity
    THEN [c EXCEPT !.signals = Append(@, sig)] ELSE close(c, sd)

should_retry(e) ==
    CASE RetryMode = "Never" -> FALSE
      [] RetryMode = "Always" -> TRUE
      [] OTHER -> e \in Retryable

arm_immediate_reconnect(c, e, sd) ==
    [emit(c, "RetryImmediate", sd) EXCEPT !.retry_root_error = e,
                                          !.retry_attempts = 1,
                                          !.next_retry = "none"]

(* backoff_ and the addition to the current time.  The delay of an error   *)
(* without a class is milliseconds::max(), and the addition overflows: the *)
(* result may lie in the past.                                             *)
backoff(e) ==
    IF e \in Retryable \cup {"Backpressure"} THEN {"waiting"}
    ELSE {"waiting", "due"}

schedule_next_retry(c, delay, sd) ==
    IF MaxAttempts > 0 /\ c.retry_attempts >= MaxAttempts
    THEN [c EXCEPT !.state = "Disconnected"]
    ELSE [emit(c, "RetryScheduled", sd) EXCEPT
            !.retry_attempts = IF @ < AttemptCap THEN @ + 1 ELSE @,
            !.next_retry = delay]

TransportConnected(c, sd) ==
    LET d == emit([c EXCEPT !.state = "Connected"], "Connected", sd)
    IN  [d EXCEPT !.retry_attempts = 0, !.retry_root_error = "None",
                  !.silence = "fresh",
                  !.liveness_warning = FALSE, !.liveness_timeout = FALSE,
                  !.disconnect_reason = "None", !.epoch = @ + 1]

TransportConnectFailed(c, e, sd) ==
    IF should_retry(e)
    THEN arm_immediate_reconnect(
           destroy_transport([c EXCEPT !.state = "WaitingReconnect"], sd), e, sd)
    ELSE [destroy_transport(c, sd) EXCEPT
            !.state = "Disconnected", !.disconnect_reason = "TransportError"]

TransportReconnectFailed(c, e, delay, sd) ==
    LET d == [destroy_transport(c, sd) EXCEPT !.disconnect_reason = "TransportError"]
    IN  IF should_retry(e)
        THEN schedule_next_retry([d EXCEPT !.state = "WaitingReconnect"], delay, sd)
        ELSE [d EXCEPT !.state = "Disconnected"]

(* A mutant: the transport survives its close.                             *)
ClosedKeepsTransport(c, sd) ==
    IF c.state \notin {"Connected", "Disconnecting"} THEN c
    ELSE IF c.disconnect_reason # "LocalClose" /\ should_retry(c.last_error)
         THEN arm_immediate_reconnect([c EXCEPT !.state = "WaitingReconnect"],
                                      c.last_error, sd)
         ELSE [c EXCEPT !.state = "Disconnected"]

(* A mutant: a close asked for by the caller is retried like any other.    *)
ClosedRetriesAlways(c, sd) ==
    IF c.state \notin {"Connected", "Disconnecting"} THEN c
    ELSE IF should_retry(c.last_error)
         THEN arm_immediate_reconnect(
                destroy_transport([c EXCEPT !.state = "WaitingReconnect"], sd),
                c.last_error, sd)
         ELSE destroy_transport([c EXCEPT !.state = "Disconnected"], sd)

TransportClosed(c, sd) ==
    IF c.state \notin {"Connected", "Disconnecting"} THEN c
    ELSE IF c.disconnect_reason # "LocalClose" /\ should_retry(c.last_error)
         THEN arm_immediate_reconnect(
                destroy_transport([c EXCEPT !.state = "WaitingReconnect"], sd),
                c.last_error, sd)
         ELSE destroy_transport([c EXCEPT !.state = "Disconnected"], sd)

(* A mutant: the last error is the one the dying transport reports.        *)
ErrorOverridesTimeout(c, e) ==
    [c EXCEPT !.last_error = e,
              !.disconnect_reason = IF @ \in {"LivenessTimeout", "LocalClose"}
                                    THEN @ ELSE "TransportError"]

on_transport_error(c, e) ==
    IF c.disconnect_reason \in {"LivenessTimeout", "LocalClose"} THEN c
    ELSE [c EXCEPT !.last_error = e, !.disconnect_reason = "TransportError"]

(* A mutant: a close that was asked for is not acted upon.                 *)
ClosedOnlyWhenConnected(c, sd) ==
    IF c.state # "Connected" THEN c
    ELSE TransportClosed(emit(c, "Disconnected", sd), sd)

on_transport_closed(c, sd) ==
    IF c.state \in {"Disconnected", "Connecting"} THEN c
    ELSE TransportClosed(emit(c, "Disconnected", sd), sd)

OnEvent(c, e, sd) ==
    CASE e[1] = "Close" -> on_transport_closed(c, sd)
      [] e[1] = "Error" -> on_transport_error(c, e[2])
      [] OTHER -> emit(c, e[1], sd)

-----------------------------------------------------------------------------
(* The caller's thread.                                                    *)

(* The outcome of connect(): engine.connect() fails only one way.          *)
Connected(c, sd) ==
    TransportConnected([create_transport(c) EXCEPT
                          !.state = "Connecting", !.last_error = "None"], sd)

Failed(c) ==
    [create_transport(c) EXCEPT !.state = "Connecting", !.ws = "ended",
                                !.last_error = "ConnectionFailed"]

(* The caller drains its signals in time.                                  *)
Drained == pc = "user" /\ Len(conn.signals) + Slack <= SignalCapacity

Open(sd) ==
    /\ Drained
    /\ conn.state \in {"Disconnected", "WaitingReconnect"}
    /\ \/ conn.epoch < MaxEpoch /\ conn' = Connected(conn, sd)
       \/ conn' = TransportConnectFailed(Failed(conn), "ConnectionFailed", sd)
    /\ asked' = FALSE
    /\ UNCHANGED pc

Close(sd) ==
    /\ pc = "user"
    /\ conn' = close(conn, sd)
    /\ asked' = TRUE
    /\ UNCHANGED pc

(* poll() does nothing while disconnected.                                 *)
Poll ==
    /\ Drained /\ conn.state # "Disconnected"
    /\ pc' = "drain"
    /\ UNCHANGED <<conn, asked>>

(* One control event.                                                      *)
PollEvent(sd) ==
    /\ pc = "drain" /\ conn.control # <<>>
    /\ conn' = OnEvent([conn EXCEPT !.control = Tail(@)], Head(conn.control), sd)
    /\ UNCHANGED <<pc, asked>>

PollDrained ==
    /\ pc = "drain" /\ conn.control = <<>>
    /\ pc' = "retry"
    /\ UNCHANGED <<conn, asked>>

(* reconnect_, when the retry is due.                                      *)
PollRetry(sd) ==
    /\ pc = "retry"
    /\ pc' = "liveness"
    /\ IF conn.state = "WaitingReconnect" /\ conn.next_retry # "waiting"
       THEN \/ conn.epoch < MaxEpoch /\ conn' = Connected(conn, sd)
            \/ \E delay \in backoff(conn.retry_root_error) :
                  conn' = TransportReconnectFailed(Failed(conn), "ConnectionFailed",
                                                   delay, sd)
       ELSE UNCHANGED conn
    /\ UNCHANGED asked

LivenessOutdated(c, sd) == emit(c, "LivenessThreatened", sd)

LivenessExpired(c, sd) ==
    IF c.state # "Connected" THEN c
    ELSE CloseTransport([c EXCEPT !.last_error = "Timeout",
                                  !.disconnect_reason = "LivenessTimeout",
                                  !.state = "Disconnecting"], sd)

enforce_liveness_policy(c, sd) ==
    LET outdated == c.silence # "fresh"
        warned   == [c EXCEPT !.liveness_warning = outdated]
        d        == IF outdated /\ ~c.liveness_warning
                    THEN LivenessOutdated(warned, sd) ELSE warned
    IN  IF c.silence = "stale" /\ ~c.liveness_timeout
        THEN LivenessExpired([d EXCEPT !.liveness_timeout = TRUE], sd)
        ELSE d

PollLiveness(sd) ==
    /\ pc = "liveness"
    /\ pc' = "user"
    /\ conn' = IF conn.state = "Connected"
               THEN enforce_liveness_policy(conn, sd) ELSE conn
    /\ UNCHANGED asked

poll_signal ==
    /\ pc = "user" /\ conn.signals # <<>>
    /\ conn' = [conn EXCEPT !.signals = Tail(@)]
    /\ UNCHANGED <<pc, asked>>

(* peek_message() and release_message()                                    *)
take_message ==
    /\ pc = "user" /\ conn.messages # <<>>
    /\ conn' = [conn EXCEPT !.messages = Tail(@), !.silence = "fresh"]
    /\ UNCHANGED <<pc, asked>>

(* A send that the transport accepts.                                      *)
send ==
    /\ pc = "user" /\ conn.state = "Connected" /\ conn.ws = "running"
    /\ conn' = [conn EXCEPT !.silence = "fresh"]
    /\ UNCHANGED <<pc, asked>>

PollStep ==
    \/ Poll \/ PollDrained
    \/ \E sd \in BOOLEAN : PollEvent(sd) \/ PollRetry(sd) \/ PollLiveness(sd)

-----------------------------------------------------------------------------
(* The receive thread, and time.                                           *)

(* A message; it carries the epoch of the transport that received it.      *)
ReceiveMessage ==
    /\ conn.ws = "running" /\ Len(conn.messages) < MessageCapacity
    /\ conn' = [conn EXCEPT !.messages = Append(@, conn.epoch)]
    /\ UNCHANGED <<pc, asked>>

(* The read fails, or the peer closes.                                     *)
ReceiveError(e) ==
    /\ conn.ws = "running"
    /\ conn' = ReportError(conn, e)
    /\ UNCHANGED <<pc, asked>>

(* update_backpressure_state_: when "detected" does not fit in the control *)
(* ring the transport stops, and its last events do not fit either.        *)
ChangePressure ==
    /\ Pressure /\ conn.ws = "running"
    /\ conn' = IF conn.pressed
               THEN [emit_event(conn, <<"BackpressureCleared">>) EXCEPT !.pressed = FALSE]
               ELSE IF Len(conn.control) < ControlCapacity
                    THEN [emit_event(conn, <<"BackpressureDetected">>) EXCEPT !.pressed = TRUE]
                    ELSE signal_close(ReportError(conn, "Backpressure"))
    /\ UNCHANGED <<pc, asked>>

ReceiveEnds ==
    /\ conn.ws = "failed"
    /\ conn' = signal_close(conn)
    /\ UNCHANGED <<pc, asked>>

Receive ==
    \/ ReceiveMessage \/ ChangePressure \/ ReceiveEnds
    \/ \E e \in ReceiveErrors : ReceiveError(e)

(* The retry delay elapses, or the silence goes on.                        *)
Tick ==
    /\ \/ /\ conn.next_retry = "waiting"
          /\ conn' = [conn EXCEPT !.next_retry = "due"]
       \/ /\ conn.silence = "fresh" /\ conn.state = "Connected"
          /\ conn' = [conn EXCEPT !.silence = "outdated"]
       \/ /\ conn.silence = "outdated" /\ conn.state = "Connected"
          /\ conn' = [conn EXCEPT !.silence = "stale"]
    /\ UNCHANGED <<pc, asked>>

Caller ==
    \/ \E sd \in BOOLEAN : Open(sd) \/ Close(sd)
    \/ poll_signal \/ take_message \/ send

Next == Caller \/ PollStep \/ Receive \/ Tick

Spec == Init /\ [][Next]_vars

(* The caller keeps polling, the receive thread finishes what it started,  *)
(* and time passes.                                                        *)
FairSpec ==
    /\ Spec
    /\ WF_vars(PollStep) /\ WF_vars(poll_signal)
    /\ WF_vars(ReceiveEnds) /\ WF_vars(Tick)

-----------------------------------------------------------------------------

Down == {"Disconnected", "WaitingReconnect"}

(* Type correctness of the connection.                                     *)
TypeOK ==
    /\ conn.state \in State
    /\ conn.ws \in {"none", "running", "failed", "ended"}
    /\ conn.control \in Seq({<<"Close">>} \cup {<<"Error", e>> : e \in Error}
                               \cup {<<p>> : p \in PressureEvents})
    /\ conn.signals \in Seq(Signal)
    /\ Len(conn.control) <= ControlCapacity /\ Len(conn.signals) <= SignalCapacity
    /\ conn.epoch \in 0 .. MaxEpoch
    /\ pc \in {"user", "drain", "retry", "liveness"}

(* A transport exists exactly while the connection is up or closing, so    *)
(* the rings are only ever cleared when no receive thread can write them.  *)
TransportOwned == conn.ws = "none" <=> conn.state \in Down

(* Every message waiting in the ring was received by the transport of the  *)
(* current epoch, however the reconnects interleave with the receive       *)
(* thread.                                                                 *)
NoCrossEpochMessage ==
    \A i \in 1 .. Len(conn.messages) : conn.messages[i] = conn.epoch

(* At most max_attempts retries are made in one cycle.                     *)
AttemptsBounded == MaxAttempts > 0 => conn.retry_attempts <= MaxAttempts

(* The session's view: with signals that always fit, the connection is     *)
(* the one Link describes.  Every Connected has its Disconnected, in       *)
(* order; the epoch counts the Connected signals; a connection closed by   *)
(* the caller is not retried.                                              *)
L == INSTANCE Link WITH
       state   <- IF conn.state # "Disconnecting" THEN conn.state
                  ELSE IF conn.disconnect_reason = "LocalClose"
                       THEN "Closing" ELSE "Expired",
       epoch   <- conn.epoch,
       signals <- SelectSeq(conn.signals,
                            LAMBDA g : g \in {"Connected", "Disconnected"})

IsLink == L!Spec

(* A connection that liveness closed is retried, whatever error the        *)
(* dying transport reports after the timeout.                              *)
TimeoutIsRetried ==
    [][/\ conn.state = "Disconnecting" /\ conn'.state # "Disconnecting"
       /\ conn.disconnect_reason = "LivenessTimeout"
       => conn'.state = "WaitingReconnect"]_vars

(* A dead transport is noticed: the connection does not stay up, or        *)
(* closing, over a transport whose receive thread has ended.               *)
LossResolved == conn.ws = "ended" ~> conn.ws # "ended"

(* Once close() has been called the connection does not reconnect before   *)
(* open() is called again.                                                 *)
CloseIsFinal == asked => conn.state \in {"Disconnected", "Disconnecting"}

=============================================================================

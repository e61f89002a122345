---------------------------- MODULE MC_Pipelines ----------------------------
(***************************************************************************)
(* The producer/consumer pipelines of the system, for TLC: the SPSC ring   *)
(* they all use, the receive path of the transport, the threads of an      *)
(* instrument's matching engine, and the Lite client over its data plane.  *)
(* They share no state: a behaviour exercises the one that `pipeline`      *)
(* names, and the others rest in one initial state.                        *)
(***************************************************************************)
EXTENDS SpscRing, FiniteSets

CONSTANTS
    a, b,
    Modes, Activate, Deactivate, Escalation, MessageSlots, ControlCapacity,   \* Engine
    PoolSize, InlineFrames, BlockFrames,
    InboundCapacity, RecorderCapacity, MaxEvent,                    \* InstrumentEngine
    MaxPerPoll, DataRing, Hasty, MaxReq, MaxInbox                   \* LiteClient

(* A callback for one symbol or two; a message with several trades of one. *)
Requests == {{a}, {a, b}}
Batches  == {<<b>>, <<a, b, a>>}

ASSUME PipelinesAssumption ==
    /\ Modes \subseteq {"ZeroTolerance", "Strict", "Relaxed", "Custom"}
    /\ {Activate, Deactivate, Escalation, MessageSlots, ControlCapacity, InlineFrames,
        InboundCapacity, RecorderCapacity, MaxPerPoll, DataRing} \subseteq Nat \ {0}
    /\ {PoolSize, BlockFrames, MaxEvent, MaxReq, MaxInbox} \subseteq Nat
    /\ BlockFrames > InlineFrames
    /\ MaxPerPoll <= DataRing
    /\ Hasty \in BOOLEAN

VARIABLES pipeline,
    e_mode, e_running, e_pc, e_close_signaled, e_slot, e_ring, e_free,
    e_ring_backpressure, e_pool_backpressure, e_pressed, e_control, e_overload, e_joining,
    i_kind, i_stop_flag, i_inbound, i_recorder, i_submitting, i_accepted, i_next,
    i_matching, i_recording, i_stopped, i_applied, i_logged,
    l_managers, l_dispatcher, l_buckets, l_rejections, l_trades, l_books, l_pc,
    l_processed, l_next_req, l_outbox, l_inbox, l_subscribed, l_heard

Receive == INSTANCE Engine WITH
    RingCapacity <- MessageSlots,
    mode <- e_mode, running <- e_running, pc <- e_pc, close_signaled <- e_close_signaled,
    slot <- e_slot, ring <- e_ring, free <- e_free,
    ring_backpressure <- e_ring_backpressure, pool_backpressure <- e_pool_backpressure,
    pressed <- e_pressed, control <- e_control, overload <- e_overload,
    joining <- e_joining

Instrument == INSTANCE InstrumentEngine WITH
    kind <- i_kind, stop_flag_ <- i_stop_flag, inbound_ring_ <- i_inbound,
    recorder_ring_ <- i_recorder, submitting <- i_submitting, accepted <- i_accepted,
    next_event <- i_next, matching <- i_matching, recording <- i_recording,
    stopped <- i_stopped, applied <- i_applied, logged <- i_logged

Lite == INSTANCE LiteClient WITH
    Symbol <- {a, b}, RingCapacity <- DataRing,
    managers <- l_managers, dispatcher <- l_dispatcher, buckets <- l_buckets,
    rejections <- l_rejections, trades <- l_trades, books <- l_books, pc <- l_pc,
    processed <- l_processed, next_req <- l_next_req, outbox <- l_outbox,
    inbox <- l_inbox, subscribed <- l_subscribed, heard <- l_heard

receive == <<e_mode, e_running, e_pc, e_close_signaled, e_slot, e_ring, e_free,
             e_ring_backpressure, e_pool_backpressure, e_pressed, e_control, e_overload,
             e_joining>>
instrument == <<i_kind, i_stop_flag, i_inbound, i_recorder, i_submitting, i_accepted,
                i_next, i_matching, i_recording, i_stopped, i_applied, i_logged>>
lite == <<l_managers, l_dispatcher, l_buckets, l_rejections, l_trades, l_books, l_pc,
          l_processed, l_next_req, l_outbox, l_inbox, l_subscribed, l_heard>>
all == <<pipeline, vars, receive, instrument, lite>>

MCInit ==
    /\ pipeline \in {"ring", "receive", "instrument", "lite"}
    /\ Init /\ Receive!Init /\ Instrument!Init /\ Lite!Init
    /\ pipeline = "ring" \/ buffer = [c \in Cells |-> a]
    /\ pipeline = "receive" \/ e_mode = CHOOSE m \in Modes : TRUE
    /\ pipeline = "instrument" \/ i_kind = "Engine"

UseRing == pipeline = "ring" /\ Next /\ UNCHANGED <<pipeline, receive, instrument, lite>>

UseReceive ==
    pipeline = "receive" /\ Receive!Next /\ UNCHANGED <<pipeline, vars, instrument, lite>>

UseInstrument ==
    pipeline = "instrument" /\ Instrument!Next /\ UNCHANGED <<pipeline, vars, receive, lite>>

UseLite ==
    pipeline = "lite" /\ Lite!Next /\ UNCHANGED <<pipeline, vars, receive, instrument>>

(* The two whose callers stop: an engine that is shut down, and a user who *)
(* has made the calls they wanted to make.                                 *)
Rest == pipeline \in {"instrument", "lite"} /\ UNCHANGED all

MCNext == UseRing \/ UseReceive \/ UseInstrument \/ UseLite \/ Rest

(* The fairness of each component's specification.                         *)
MCSpec ==
    /\ MCInit /\ [][MCNext]_all
    /\ WF_vars(pipeline = "ring" /\ acquire_producer_slots(1))
    /\ WF_vars(pipeline = "ring" /\ peek_consumer_slots(1))
    /\ WF_vars(pipeline = "ring" /\ read_consumer_slot)
    /\ WF_vars(pipeline = "ring" /\ release_consumer_slots)
    /\ WF_receive(pipeline = "receive" /\ Receive!ReceiveLoop /\ UNCHANGED e_mode)
    /\ WF_receive(pipeline = "receive" /\ Receive!PollEvent /\ UNCHANGED e_mode)
    /\ WF_receive(pipeline = "receive" /\ Receive!TakeMessage /\ UNCHANGED e_mode)
    /\ WF_receive(pipeline = "receive" /\ Receive!EndPoll /\ UNCHANGED e_mode)
    /\ WF_receive(pipeline = "receive" /\ Receive!Reconnect /\ UNCHANGED e_mode)
    /\ WF_instrument(pipeline = "instrument" /\ Instrument!submit_ends)
    /\ WF_instrument(pipeline = "instrument" /\ Instrument!threads_joined)
    /\ WF_instrument(pipeline = "instrument" /\ Instrument!Matching)
    /\ WF_instrument(pipeline = "instrument" /\ Instrument!Recording)
    /\ WF_lite(pipeline = "lite" /\ Lite!poll)
    /\ WF_lite(pipeline = "lite" /\ Lite!Polling)
    /\ SF_lite(pipeline = "lite" /\ Lite!exchange_answers)

-----------------------------------------------------------------------------

(* Ring: committed items are consumed, and a producer that keeps retrying  *)
(* acquire_producer_slot() gets a slot: neither a full ring nor a stale    *)
(* cached index blocks either side for ever.                               *)
NobodyStuck ==
    /\ CommittedIsConsumed
    /\ (pipeline = "ring" /\ acquired = 0) ~> acquired > 0

(* Receive path: no block of the pool is lost or returned twice, a         *)
(* transport signals its close once, as its last event, and no full ring   *)
(* hides saturation from the session.                                      *)
ReceivesSoundly ==
    Receive!PoolConserved /\ Receive!CloseIsLast /\ Receive!PressureNeverMissed

(* Receive path: a saturated transport does not stay up and saturated.     *)
StallResolved == Receive!StallResolved

(* Instrument engine: until the shutdown the log follows the engine.       *)
LogFollowsEngine == Instrument!LogFollowsEngine

(* Instrument engine: shutdown() returns.                                  *)
ShutdownReturns == Instrument!ShutdownReturns

(* Lite client: each trade reaches each listener of its symbol once, and   *)
(* every callback belongs to a symbol the session owns.                    *)
TradesReachListeners ==
    Lite!TradesReachListeners /\ [](pipeline = "lite" => Lite!CallbacksOwned)

(* Lite client: a user who gives up every callback sees the client idle.   *)
UnsubscribedIsIdle == Lite!UnsubscribedIsIdle

(* Lite client: a subscribe cancels a pending unsubscribe.                 *)
ResubscribeCancels == Lite!ResubscribeCancels
==============================================================================

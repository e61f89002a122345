---------------------------- MODULE MC_Connection ----------------------------
(***************************************************************************)
(* The transport, for TLC: the connection, the socket backends below it    *)
(* and the ring of message slots between them, each on its own (Engine     *)
(* joins the receive loop to the session's thread).  There are two         *)
(* connections: one whose caller leaves room for the signals of every      *)
(* call, and one whose caller lets them overflow while the transport       *)
(* reports backpressure on a small control ring.  A behaviour exercises    *)
(* the part that `part` names; the others rest in their initial state.     *)
(***************************************************************************)
EXTENDS Connection

CONSTANTS b1, None,
          MaxConnects,                                        \* Backend
          RingCapacity, InlineSize, BlockSize, MaxReserveSize \* ManagedRing

ASSUME TransportAssumption ==
    /\ MaxConnects \in Nat
    /\ {RingCapacity, InlineSize} \subseteq Nat \ {0}
    /\ BlockSize \in Nat /\ BlockSize > InlineSize
    /\ MaxReserveSize \in Nat

VARIABLES part,
          o_conn, o_pc, o_asked,
          b_kind, b_closing, b_closed, b_socket, b_reader, b_closers, b_sender,
          b_result, b_sent, b_connects,
          r_slots, r_arena, r_memory, r_pool, r_head, r_tail, r_producer, r_room,
          r_consumer, r_written, r_queued

Overflow == INSTANCE Connection WITH
    RetryMode <- "Always", Pressure <- TRUE, ReceiveErrors <- {"None", "Backpressure"},
    SignalCapacity <- 2, Slack <- 0, ControlCapacity <- 2,
    conn <- o_conn, pc <- o_pc, asked <- o_asked

Socket == INSTANCE Backend WITH
    kind <- b_kind, closing <- b_closing, closed <- b_closed, socket <- b_socket,
    reader <- b_reader, closers <- b_closers, sender <- b_sender, result <- b_result,
    sent <- b_sent, connects <- b_connects

Ring == INSTANCE ManagedRing WITH
    Capacity <- RingCapacity, Block <- {b1}, Byte <- {"x", "y"},
    slots <- r_slots, arena <- r_arena, memory <- r_memory, pool <- r_pool,
    head <- r_head, tail <- r_tail, producer <- r_producer, room <- r_room,
    consumer <- r_consumer, written <- r_written, queued <- r_queued

overflow == <<o_conn, o_pc, o_asked>>
backend  == <<b_kind, b_closing, b_closed, b_socket, b_reader, b_closers, b_sender,
              b_result, b_sent, b_connects>>
ring     == <<r_slots, r_arena, r_memory, r_pool, r_head, r_tail, r_producer, r_room,
              r_consumer, r_written, r_queued>>

MCInit ==
    /\ part \in {"draining", "overflowing", "socket", "ring"}
    /\ part = "socket" \/ b_kind = "asio"
    /\ Init /\ Overflow!Init /\ Socket!Init /\ Ring!Init

MCNext ==
    \/ part = "draining" /\ Next /\ UNCHANGED <<part, overflow, backend, ring>>
    \/ part = "overflowing" /\ Overflow!Next /\ UNCHANGED <<part, vars, backend, ring>>
    \/ part = "socket" /\ Socket!Next /\ UNCHANGED <<part, vars, overflow, ring>>
    \/ part = "ring" /\ Ring!Next /\ UNCHANGED <<part, vars, overflow, backend>>

(* The fairness of the first connection's FairSpec and of the backend.     *)
MCSpec ==
    /\ MCInit /\ [][MCNext]_<<part, vars, overflow, backend, ring>>
    /\ WF_vars(part = "draining" /\ PollStep)
    /\ WF_vars(part = "draining" /\ poll_signal)
    /\ WF_vars(part = "draining" /\ ReceiveEnds)
    /\ WF_vars(part = "draining" /\ Tick)
    /\ WF_backend(part = "socket" /\ Socket!ReadGoesOn)
    /\ WF_backend(part = "socket" /\ Socket!CloseGoesOn("user"))
    /\ WF_backend(part = "socket" /\ Socket!CloseGoesOn("loop"))

(* A transport is owned exactly while the connection is up or closing, at  *)
(* most max_attempts retries are made in one cycle, and no message of an   *)
(* earlier epoch waits in the ring, even for a connection that loses       *)
(* signals and events.                                                     *)
TransportAlwaysOwned ==
    /\ TransportOwned /\ Overflow!TransportOwned
    /\ AttemptsBounded /\ Overflow!AttemptsBounded
    /\ NoCrossEpochMessage /\ Overflow!NoCrossEpochMessage

(* Backend: what a read returns keeps the contract whatever races with it. *)
ReadContract == Socket!ReadContract

(* Backend: after close() the socket goes away and asio's read returns.    *)
CloseReleasesReader == Socket!CloseReleasesReader

(* managed_spsc_ring: messages stay byte for byte as written through       *)
(* promotion, reuse of slots and reuse of blocks, and no block is lost.    *)
MessagesIntact == Ring!MessagesIntact /\ Ring!BlocksReturned
==============================================================================

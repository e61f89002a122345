----------------------------- MODULE MC_Session -----------------------------
(***************************************************************************)
(* Two sessions, for TLC: one whose client takes care (batched requests,   *)
(* hard symbol limits, two channels), and one whose client calls at any    *)
(* time (one channel, a paced transmission queue).  A behaviour exercises  *)
(* the one that `use` names; the other rests in its initial state.         *)
(***************************************************************************)
EXTENDS Session

CONSTANTS a, b,
          AnyReq, AnyEpoch     \* bounds of the second session

TwoSymbols == {a, b}

ASSUME AnyAssumption == {AnyReq, AnyEpoch} \subseteq Nat

VARIABLES use,
          o_managers, o_tables, o_req_id_seq, o_queue, o_poll_counter, o_state,
          o_epoch, o_signals, o_pc, o_processed, o_wire, o_outbox, o_inbox,
          o_subscribed

AnyUse == INSTANCE Session WITH
    Types <- 1, Batching <- "Paced", EmitInterval <- 2, MaxPerChannel <- 0, MaxGlobal <- 0,
    MaxReq <- AnyReq, MaxEpoch <- AnyEpoch,
    Liberties <- {"any_unsubscribe", "call_while_down", "reopen"},
    managers <- o_managers, tables <- o_tables, req_id_seq <- o_req_id_seq,
    queue <- o_queue, poll_counter <- o_poll_counter, state <- o_state,
    epoch <- o_epoch, signals <- o_signals, pc <- o_pc, processed <- o_processed,
    wire <- o_wire, outbox <- o_outbox, inbox <- o_inbox, subscribed <- o_subscribed

others == <<o_managers, o_tables, o_req_id_seq, o_queue, o_poll_counter, o_state,
            o_epoch, o_signals, o_pc, o_processed, o_wire, o_outbox, o_inbox,
            o_subscribed>>

MCInit ==
    /\ use \in {"careful", "any"}
    /\ Init /\ AnyUse!Init

MCNext ==
    \/ use = "careful" /\ Next /\ UNCHANGED <<use, others>>
    \/ use = "any" /\ AnyUse!Next /\ UNCHANGED <<use, vars>>

(* The fairness of the careful session's FairSpec.                         *)
MCSpec ==
    /\ MCInit /\ [][MCNext]_<<use, vars, others>>
    /\ WF_vars(use = "careful" /\ Poll)
    /\ WF_vars(use = "careful" /\ Exchange)
    /\ SF_vars(use = "careful" /\ PollConnection /\ PollClosed)

(* Whatever the client does and whenever it does it, the replay database   *)
(* holds no symbol that the manager does not own.                          *)
ReplayAlwaysWithinOwned == ReplayWithinOwned /\ AnyUse!ReplayWithinOwned
=============================================================================

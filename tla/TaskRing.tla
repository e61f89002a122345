------------------------------- MODULE TaskRing -------------------------------
(***************************************************************************)
(* lcr::lockfree::spmc_task_ring: one producer, several consumers, each    *)
(* item for one of them.  A consumer claims a cell by advancing tail_ with *)
(* a compare-and-swap, and moves the item out afterwards.  Items are       *)
(* numbered in the order they are pushed.                                  *)
(***************************************************************************)
EXTENDS Naturals, Sequences, FiniteSets

CONSTANTS Capacity,  \* a power of two, at least 2
          Consumer,
          MaxItems   \* bound: items pushed in a behaviour

VARIABLES buffer, head, tail,
          producer,  \* where the producer is in push()
          pushed,    \* items pushed so far
          pc,        \* where each consumer is in pop()
          seen,      \* the tail it loaded
          taken      \* what the pops returned, in order

vars == <<buffer, head, tail, producer, pushed, pc, seen, taken>>

Masked(i) == i % Capacity

Init ==
    /\ buffer = [i \in 0 .. Capacity - 1 |-> 0]
    /\ head = 0 /\ tail = 0
    /\ producer = "idle" /\ pushed = 0
    /\ pc = [c \in Consumer |-> "idle"]
    /\ seen = [c \in Consumer |-> 0]
    /\ taken = <<>>

-----------------------------------------------------------------------------
(* push(): the room test, the write, the store of head_.                   *)

(* A mutant: the last cell is used too.                                    *)
PushIntoLastCell ==
    /\ producer = "idle" /\ pushed < MaxItems
    /\ producer' = "write"
    /\ UNCHANGED <<buffer, head, tail, pushed, pc, seen, taken>>

push_begin ==
    /\ producer = "idle" /\ pushed < MaxItems
    /\ Masked(head + 1) # tail
    /\ producer' = "write"
    /\ UNCHANGED <<buffer, head, tail, pushed, pc, seen, taken>>

push_write ==
    /\ producer = "write"
    /\ buffer' = [buffer EXCEPT ![head] = pushed + 1]
    /\ producer' = "publish"
    /\ UNCHANGED <<head, tail, pushed, pc, seen, taken>>

push_publish ==
    /\ producer = "publish"
    /\ head' = Masked(head + 1)
    /\ pushed' = pushed + 1
    /\ producer' = "idle"
    /\ UNCHANGED <<buffer, tail, pc, seen, taken>>

-----------------------------------------------------------------------------
(* pop(): tail_ is loaded once and then reloaded by a failing swap.        *)

pop_load(c) ==
    /\ pc[c] = "idle"
    /\ seen' = [seen EXCEPT ![c] = tail]
    /\ pc' = [pc EXCEPT ![c] = "test"]
    /\ UNCHANGED <<buffer, head, tail, producer, pushed, taken>>

pop_test(c) ==
    /\ pc[c] = "test"
    /\ pc' = [pc EXCEPT ![c] = IF seen[c] = head THEN "idle" ELSE "claim"]
    /\ UNCHANGED <<buffer, head, tail, producer, pushed, seen, taken>>

pop_claim(c) ==
    /\ pc[c] = "claim" /\ tail = seen[c]
    /\ tail' = Masked(tail + 1)
    /\ pc' = [pc EXCEPT ![c] = "move"]
    /\ UNCHANGED <<buffer, head, producer, pushed, seen, taken>>

pop_retry(c) ==
    /\ pc[c] = "claim"
    /\ seen' = [seen EXCEPT ![c] = tail]
    /\ pc' = [pc EXCEPT ![c] = "test"]
    /\ UNCHANGED <<buffer, head, tail, producer, pushed, taken>>

pop_move(c) ==
    /\ pc[c] = "move"
    /\ taken' = Append(taken, buffer[seen[c]])
    /\ pc' = [pc EXCEPT ![c] = "idle"]
    /\ UNCHANGED <<buffer, head, tail, producer, pushed, seen>>

push == push_begin \/ push_write \/ push_publish

pop(c) ==
    pop_load(c) \/ pop_test(c) \/ pop_claim(c) \/ pop_retry(c) \/ pop_move(c)

Next == push \/ \E c \in Consumer : pop(c)

Spec == Init /\ [][Next]_vars

-----------------------------------------------------------------------------

(* Each element is consumed exactly once: pops return different items,     *)
(* each of them one that was pushed, and an item that no pop returned is   *)
(* claimed by a consumer or still in the ring.                             *)
ConsumedOnce ==
    /\ Len(taken) + Cardinality({c \in Consumer : pc[c] = "move"})
           + Masked(head + Capacity - tail) = pushed
    /\ \A i \in 1 .. Len(taken) : taken[i] \in 1 .. pushed
    /\ \A i, j \in 1 .. Len(taken) : i # j => taken[i] # taken[j]

=============================================================================

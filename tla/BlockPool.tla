------------------------------ MODULE BlockPool ------------------------------
(***************************************************************************)
(* lcr::memory::block_pool: a Treiber stack of free blocks.  acquire()     *)
(* pops with a compare-and-swap on head_ after reading the next pointer of *)
(* the head it loaded; release() links its block to the head it loaded and *)
(* swings head_ to it.  Each atomic access is a step.                      *)
(***************************************************************************)
EXTENDS Naturals, FiniteSets

CONSTANTS Block,     \* the pool's blocks
          Acquirer,  \* threads that call acquire()
          Releaser,  \* threads that call release()
          None       \* nullptr

VARIABLES head,   \* head_
          next,   \* each node's next
          pc,     \* where each thread is
          old,    \* its old_head
          mine,   \* the next pointer it read, or the node it pushes
          used    \* blocks handed out by acquire() and not yet released

vars == <<head, next, pc, old, mine, used>>

Thread == Acquirer \cup Releaser

(* The constructor has pushed every block: the list is some chain of them. *)
Chain(h, n) ==
    LET at[i \in 0 .. Cardinality(Block)] ==
          IF i = 0 THEN h ELSE IF at[i - 1] = None THEN None ELSE n[at[i - 1]]
    IN  at

Listed(h, n) == {Chain(h, n)[i] : i \in 0 .. Cardinality(Block)} \ {None}

(* A chain that visits m different nodes ends after them.                  *)
Terminates(h, n) == Chain(h, n)[Cardinality(Listed(h, n))] = None

Init ==
    /\ head \in Block /\ next \in [Block -> Block \cup {None}]
    /\ Listed(head, next) = Block /\ Terminates(head, next)
    /\ pc = [t \in Thread |-> "idle"]
    /\ old = [t \in Thread |-> None]
    /\ mine = [t \in Thread |-> None]
    /\ used = {}

-----------------------------------------------------------------------------
(* acquire(): pop_node_.  An empty list returns nullptr.                   *)

pop_load(t) ==
    /\ pc[t] = "idle" /\ head # None
    /\ pc' = [pc EXCEPT ![t] = "next"]
    /\ old' = [old EXCEPT ![t] = head]
    /\ UNCHANGED <<head, next, mine, used>>

pop_next(t) ==
    /\ pc[t] = "next"
    /\ pc' = [pc EXCEPT ![t] = "pop"]
    /\ mine' = [mine EXCEPT ![t] = next[old[t]]]
    /\ UNCHANGED <<head, next, old, used>>

pop_done(t) ==
    /\ pc[t] = "pop" /\ head = old[t]
    /\ head' = mine[t]
    /\ used' = used \cup {old[t]}
    /\ pc' = [pc EXCEPT ![t] = "idle"]
    /\ old' = [old EXCEPT ![t] = None] /\ mine' = [mine EXCEPT ![t] = None]
    /\ UNCHANGED next

(* The weak compare-and-swap fails, spuriously or not, and reloads.        *)
pop_retry(t) ==
    /\ pc[t] = "pop"
    /\ old' = [old EXCEPT ![t] = head]
    /\ mine' = [mine EXCEPT ![t] = None]
    /\ pc' = [pc EXCEPT ![t] = IF head = None THEN "idle" ELSE "next"]
    /\ UNCHANGED <<head, next, used>>

-----------------------------------------------------------------------------
(* release(): push_node_.                                                  *)

push_load(t, b) ==
    /\ pc[t] = "idle" /\ b \in used
    /\ used' = used \ {b}
    /\ mine' = [mine EXCEPT ![t] = b]
    /\ old' = [old EXCEPT ![t] = head]
    /\ pc' = [pc EXCEPT ![t] = "link"]
    /\ UNCHANGED <<head, next>>

push_link(t) ==
    /\ pc[t] = "link"
    /\ next' = [next EXCEPT ![mine[t]] = old[t]]
    /\ pc' = [pc EXCEPT ![t] = "push"]
    /\ UNCHANGED <<head, old, mine, used>>

(* A mutant: the head is replaced without comparing it.                    *)
PushBlindly(t) ==
    /\ pc[t] = "push"
    /\ head' = mine[t]
    /\ pc' = [pc EXCEPT ![t] = "idle"]
    /\ old' = [old EXCEPT ![t] = None] /\ mine' = [mine EXCEPT ![t] = None]
    /\ UNCHANGED <<next, used>>

push_done(t) ==
    /\ pc[t] = "push" /\ head = old[t]
    /\ head' = mine[t]
    /\ pc' = [pc EXCEPT ![t] = "idle"]
    /\ old' = [old EXCEPT ![t] = None] /\ mine' = [mine EXCEPT ![t] = None]
    /\ UNCHANGED <<next, used>>

push_retry(t) ==
    /\ pc[t] = "push"
    /\ old' = [old EXCEPT ![t] = head]
    /\ pc' = [pc EXCEPT ![t] = "link"]
    /\ UNCHANGED <<head, next, mine, used>>

acquire(t) == pop_load(t) \/ pop_next(t) \/ pop_done(t) \/ pop_retry(t)

release(t) ==
    \/ \E b \in Block : push_load(t, b)
    \/ push_link(t) \/ push_done(t) \/ push_retry(t)

Next ==
    \/ \E t \in Acquirer : acquire(t)
    \/ \E t \in Releaser : release(t)

Spec == Init /\ [][Next]_vars

-----------------------------------------------------------------------------

Pushing == {mine[t] : t \in {r \in Releaser : pc[r] \in {"link", "push"}}}

(* Every block is in exactly one place: in the free list, handed out, or   *)
(* on its way back, so acquire() never hands out a block that is in use    *)
(* and no block is lost, whatever the interleaving of pops and pushes.     *)
BlocksPartitioned ==
    LET free == Listed(head, next)
    IN  /\ Terminates(head, next)
        /\ free \cup used \cup Pushing = Block
        /\ Cardinality(free) + Cardinality(used) + Cardinality(Pushing)
              = Cardinality(Block)

=============================================================================

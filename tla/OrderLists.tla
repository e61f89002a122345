----------------------------- MODULE OrderLists -----------------------------
(***************************************************************************)
(* What OrderBook promises the matching engine: every order that rests has *)
(* one place in the queue of one price level, newcomers go to the end of a *)
(* queue, and an id names its order until it is removed.                   *)
(***************************************************************************)
EXTENDS Sequences, Naturals

CONSTANTS Id, Level, MaxOrders

VARIABLE queue    \* the ids resting at each level, oldest first

Place == UNION {{<<l, i>> : i \in DOMAIN queue[l]} : l \in Level}
Named(o) == {x \in Place : queue[x[1]][x[2]] = o}

Init == queue = [l \in Level |-> <<>>]

Leave(q, o) == SelectSeq(q, LAMBDA x : x # o)

Arrive(o, l) ==
    /\ Named(o) = {}
    /\ queue' = [queue EXCEPT ![l] = Append(@, o)]

Depart(o) ==
    /\ Named(o) # {}
    /\ queue' = [k \in Level |-> Leave(queue[k], o)]

Relocate(o, l) ==
    /\ Named(o) # {}
    /\ queue' = [k \in Level |->
          IF k = l THEN Append(Leave(queue[k], o), o) ELSE Leave(queue[k], o)]

Next == \E o \in Id : Depart(o) \/ \E l \in Level : Arrive(o, l) \/ Relocate(o, l)

Spec == Init /\ [][Next]_queue

=============================================================================

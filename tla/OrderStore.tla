----------------------------- MODULE OrderStore -----------------------------
(***************************************************************************)
(* How the order book stores its orders: OrderPool (slots with an          *)
(* intrusive free list), OrderIdMap (open addressing with linear probing   *)
(* and tombstones) and the doubly linked list of each price level, whose   *)
(* links are indices into the pool.                                        *)
(***************************************************************************)
EXTENDS Integers, Sequences, FiniteSets

CONSTANTS Id,         \* order ids, from 1
          Level,      \* price levels
          MaxOrders,  \* slots of the pool
          TableSize,  \* cells of the id map: a power of two >= 2 * MaxOrders
          Hash        \* hash_orderId_: the cell at which an id's probe starts

VARIABLES slot,       \* the pool's orders: id, level and the two links
          next_free,  \* Order::next_free
          free_head,  \* free_head_
          table,      \* the id map's cells
          ends        \* head and tail of each level's list

vars == <<slot, next_free, free_head, table, ends>>

Idx == 0 .. MaxOrders - 1
Cell == 0 .. TableSize - 1
None == -1                               \* INVALID_INDEX

EmptyCell == [key |-> 0, val |-> None]     \* EMPTY_KEY
Tombstone == [key |-> -1, val |-> None]    \* TOMBSTONE_KEY, the largest id

Unused == [id |-> None, level |-> None, prev |-> None, next |-> None]

Init ==
    /\ slot = [i \in Idx |-> Unused]
    /\ next_free = [i \in Idx |-> IF i = MaxOrders - 1 THEN None ELSE i + 1]
    /\ free_head = 0
    /\ table = [c \in Cell |-> EmptyCell]
    /\ ends = [l \in Level |-> [head |-> None, tail |-> None]]

-----------------------------------------------------------------------------
(* OrderIdMap.                                                             *)

Probe(o, i) == (Hash[o] + i) % TableSize

\* The first distance at which a probe for o stops, or TableSize.
StopsAt(o, Stop(_)) ==
    LET S == {i \in Cell : Stop(table[Probe(o, i)])}
    IN  IF S = {} THEN TableSize ELSE CHOOSE i \in S : \A j \in S : i <= j

\* find: an empty cell ends the probe, a tombstone does not.
FoundAt(o) == StopsAt(o, LAMBDA c : c = EmptyCell \/ c.key = o)
find(o) == IF FoundAt(o) = TableSize THEN None ELSE table[Probe(o, FoundAt(o))].val

\* Mutant: a removed entry becomes empty and cuts the probes that pass it.
RemoveWithoutTombstone(o) ==
    [table EXCEPT ![Probe(o, FoundAt(o))] = EmptyCell]

map_remove(o) == [table EXCEPT ![Probe(o, FoundAt(o))] = Tombstone]

FreeAt(o) == StopsAt(o, LAMBDA c : c \in {EmptyCell, Tombstone})
map_insert(o, i) == [table EXCEPT ![Probe(o, FreeAt(o))] = [key |-> o, val |-> i]]

-----------------------------------------------------------------------------
(* The level lists.  Both work on a pair of the pool and the list ends.    *)

unlink(s, e, i) ==
    LET o == s[i]
        end == e[o.level]
        next == [j \in Idx |-> IF j = o.prev THEN [s[j] EXCEPT !.next = o.next]
                               ELSE s[j]]
    IN  [slot |-> [j \in Idx |-> IF j = o.next THEN [next[j] EXCEPT !.prev = o.prev]
                                 ELSE next[j]],
         ends |-> [e EXCEPT ![o.level] =
                     [head |-> IF end.head = i THEN o.next ELSE end.head,
                      tail |-> IF end.tail = i THEN o.prev ELSE end.tail]]]

link(s, e, i, o, l) ==
    LET last == e[l].tail
        new == [id |-> o, level |-> l, prev |-> last, next |-> None]
    IN  [slot |-> [j \in Idx |-> CASE j = i -> new
                                   [] j = last /\ j # i -> [s[j] EXCEPT !.next = i]
                                   [] OTHER -> s[j]],
         ends |-> [e EXCEPT ![l] = [head |-> IF @.head = None THEN i ELSE @.head,
                                    tail |-> i]]]

-----------------------------------------------------------------------------
(* OrderPool: the free list is a stack through next_free.                  *)

allocate ==
    /\ free_head # None
    /\ free_head' = next_free[free_head]
    /\ next_free' = [next_free EXCEPT ![free_head] = None]

release(i) ==
    /\ free_head' = i
    /\ next_free' = [next_free EXCEPT ![i] = free_head]

-----------------------------------------------------------------------------
(* OrderBook.                                                              *)

\* insert_order: a slot, then an entry of the map, then the level's list.
\* Without a slot it fails, and without a cell the slot goes back.
insert_order(o, l) ==
    LET i == free_head
        r == link(slot, ends, i, o, l)
    IN  /\ find(o) = None
        /\ FreeAt(o) < TableSize
        /\ allocate
        /\ table' = map_insert(o, i)
        /\ slot' = r.slot /\ ends' = r.ends

remove_order(o) ==
    LET i == find(o)
        r == unlink(slot, ends, i)
    IN  /\ i # None
        /\ slot' = [r.slot EXCEPT ![i] = Unused]
        /\ ends' = r.ends
        /\ table' = map_remove(o)
        /\ release(i)

\* reprice_order's unlink_order_ and link_order_.
move_order(o, l) ==
    LET i == find(o)
        u == unlink(slot, ends, i)
        r == link(u.slot, u.ends, i, o, l)
    IN  /\ i # None /\ slot[i].level # l
        /\ slot' = r.slot /\ ends' = r.ends
        /\ UNCHANGED <<table, next_free, free_head>>

Next ==
    \E o \in Id :
        \/ remove_order(o)
        \/ \E l \in Level : insert_order(o, l) \/ move_order(o, l)

Spec == Init /\ [][Next]_vars

-----------------------------------------------------------------------------

\* The slots reached from an index by following a link, at most all of them.
Walk(from, link_of) ==
    LET path[n \in 0 .. MaxOrders] ==
          IF n = 0 THEN <<>>
          ELSE LET p == path[n - 1]
                   at == IF p = <<>> THEN from ELSE link_of[p[Len(p)]]
               IN  IF at = None THEN p ELSE Append(p, at)
    IN  path[MaxOrders]

Forward(l) == Walk(ends[l].head, [i \in Idx |-> slot[i].next])
Backward(l) == Walk(ends[l].tail, [i \in Idx |-> slot[i].prev])
Free == Walk(free_head, next_free)

Elements(s) == {s[i] : i \in DOMAIN s}

(* No slot is lost or used twice: the free list and the level lists share  *)
(* out the pool, a list is the same in both directions, an id is found in  *)
(* the map exactly when its order is in the book, and the map has a cell   *)
(* for every order the pool has a slot for.                                *)
SlotsShared ==
    LET fwd == [l \in Level |-> Forward(l)]
        bwd == [l \in Level |-> Backward(l)]
        free == Elements(Free)
    IN  /\ free \cup UNION {Elements(fwd[l]) : l \in Level} = Idx
        /\ \A l \in Level :
              /\ free \cap Elements(fwd[l]) = {}
              /\ Len(fwd[l]) = Len(bwd[l])
              /\ \A i \in DOMAIN fwd[l] :
                    /\ fwd[l][i] = bwd[l][Len(fwd[l]) + 1 - i]
                    /\ find(slot[fwd[l][i]].id) = fwd[l][i]
        /\ \A o \in Id : find(o) # None => slot[find(o)].id = o
        /\ free_head # None => \A o \in Id : FreeAt(o) < TableSize

(* The pool, the map and the lists are the queues the matching engine      *)
(* relies on, whatever tombstones and recycled slots they have left.       *)
Lists == INSTANCE OrderLists WITH
            queue <- [l \in Level |->
                LET f == Forward(l) IN [i \in DOMAIN f |-> slot[f[i]].id]]

IsOrderLists == Lists!Spec

=============================================================================

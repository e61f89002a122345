----------------------------- MODULE Partitions -----------------------------
(***************************************************************************)
(* The price ladder under the matching engine: how PartitionPlan cuts the   *)
(* price range of an instrument into partitions, how Partition keeps one    *)
(* bit per price level in machine words and finds its best price in them,   *)
(* how PartitionPool hands partitions out to the two PriceLevelStores, and  *)
(* how a store turns a price into a partition and a level.                  *)
(*                                                                         *)
(* The engine's own rules (who trades with whom, which cached best is stale *)
(* after which shortcut) are in MatchingEngine, which sees a partition as a *)
(* set of occupied prices.  This module checks that the layout in memory is *)
(* such a set.                                                             *)
(***************************************************************************)
EXTENDS Integers, Sequences, FiniteSets, FiniteSetsExt, Bitwise

CONSTANTS
    WordBits,     \* BITS_PER_WORD: bits of one bitmap word
    Instruments,  \* instruments: ticks of 1/10^decimals, a maximum, a target
    LevelBound,   \* plans with more ticks are only computed, not operated on
    MaxOrders     \* bound: orders resting at one moment

VARIABLES
    plan,         \* the PartitionPlan and the NormalizedInstrument it returns
    partitions,   \* partitions_: the pool's partitions, by index
    free_list,    \* free_list_[0 .. free_head_], as a stack
    active,       \* per store: active_partitions_, 0 for nullptr
    active_bitmap,\* per store: active_bitmap_, one integer per word
    resting       \* per store: how many orders rest at each price

ladderVars == <<plan, partitions, free_list, active, active_bitmap, resting>>

Side == {"BID", "ASK"}

INVALID_PRICE == -1

---------------------------------------------------------------------------
(* lcr/numbers.hpp: the smallest power of two not below n, by smearing the  *)
(* highest bit of n - 1 to the right.                                      *)

Smear(n, k) == n | (n \div 2^k)

round_up_to_power_of_two(n) ==
    IF n <= 1
    THEN 1
    ELSE Smear(Smear(Smear(Smear(Smear(n - 1, 1), 2), 4), 8), 16) + 1

(* llround of n/d for positive n and d: half away from zero. *)
llround(n, d) == (2 * n + d) \div (2 * d)

(* The first power of ten that rounds the tick, 1/10^decimals, to a positive *)
(* integer, and that integer.                                              *)
normalize_tick_size(decimals) ==
    LET Rounded(k) == llround(10^k, 10^decimals)
        scale      == CHOOSE k \in 0..9 : Rounded(k) > 0 /\ \A j \in 0..(k - 1) : Rounded(j) = 0
    IN  [scale |-> 10^scale, tick |-> Rounded(scale)]

Log2(n) == CHOOSE k \in 0..n : 2^k = n

(* PartitionPlan::compute with the price limits of Instrument::normalize.  *)
compute(i) ==
    LET norm  == normalize_tick_size(i.decimals)
        ticks == round_up_to_power_of_two((i.max * norm.scale) \div norm.tick)
        parts == round_up_to_power_of_two(i.target)
    IN  [num_ticks |-> ticks, num_partitions |-> parts, partition_size |-> ticks \div parts,
         partition_bits |-> Log2(ticks \div parts),
         price_min |-> norm.tick, price_max |-> ticks * norm.tick]

(* The assertions of compute and of the PriceLevelStore constructor.       *)
Plannable(i) ==
    LET norm == normalize_tick_size(i.decimals)
    IN  /\ i.max * norm.scale > norm.tick
        /\ 2 * round_up_to_power_of_two(i.target)
             <= round_up_to_power_of_two((i.max * norm.scale) \div norm.tick)

---------------------------------------------------------------------------
(* Partition.  Level i of a partition has the price set when the partition  *)
(* was taken from the pool; bit i of the bitmap says whether it is active.  *)

Words(n) == (n + WordBits - 1) \div WordBits

Fresh(size) ==
    [price |-> [i \in 0..(size - 1) |-> INVALID_PRICE], bitmap |-> [w \in 0..(Words(size) - 1) |-> 0],
     best_price |-> INVALID_PRICE, has_best |-> FALSE]

initialize_for_partid(partid, size) ==
    [Fresh(size) EXCEPT !.price = [i \in 0..(size - 1) |-> partid * size + i]]

BitSet(word, bit) == (word \div 2^bit) % 2 = 1

is_active(bitmap, off) == BitSet(bitmap[off \div WordBits], off % WordBits)

set_active(bitmap, off) ==
    [bitmap EXCEPT ![off \div WordBits] = @ | 2^(off % WordBits)]

clear_active(bitmap, off) ==
    [bitmap EXCEPT ![off \div WordBits] = @ - (@ & 2^(off % WordBits))]

empty(p) == \A w \in DOMAIN p.bitmap : p.bitmap[w] = 0

try_update_best(s, p, price) ==
    IF ~p.has_best
    THEN [p EXCEPT !.best_price = price, !.has_best = TRUE]
    ELSE [p EXCEPT !.best_price = IF s = "BID" THEN Max({@, price}) ELSE Min({@, price})]

clz(word) == CHOOSE n \in 0..(WordBits - 1) : word \div 2^(WordBits - 1 - n) = 1
ctz(word) == CHOOSE n \in 0..(WordBits - 1) : BitSet(word, n) /\ word % 2^n = 0

\* Mutant: the bid scan takes the lowest bit of the word, as the ask scan does.
BestLevelLowBit(s, p) ==
    LET used == {w \in DOMAIN p.bitmap : p.bitmap[w] # 0}
        w    == IF s = "BID" THEN Max(used) ELSE Min(used)
    IN  w * WordBits + ctz(p.bitmap[w])

(* The level of the best price: for bids the highest bit of the last word   *)
(* that is not zero, for asks the lowest bit of the first such word.        *)
BestLevel(s, p) ==
    LET used == {w \in DOMAIN p.bitmap : p.bitmap[w] # 0}
    IN  IF s = "BID"
        THEN LET w == Max(used) IN w * WordBits + (WordBits - 1 - clz(p.bitmap[w]))
        ELSE LET w == Min(used) IN w * WordBits + ctz(p.bitmap[w])

recompute_best(s, p) ==
    IF empty(p)
    THEN [p EXCEPT !.best_price = INVALID_PRICE, !.has_best = FALSE]
    ELSE [p EXCEPT !.best_price = p.price[BestLevel(s, p)], !.has_best = TRUE]

---------------------------------------------------------------------------
(* PriceLevelStore: a price is its partition's id and its level's offset.   *)

partition_id(price) == price \div 2^plan.partition_bits
offset_in_partition(price) == price & (2^plan.partition_bits - 1)

Accepted == plan.price_min..(plan.price_max - 1)

(* PartitionPool's constructor and the stores': everything free.            *)
Init ==
    /\ plan \in {compute(i) : i \in {j \in Instruments : Plannable(j)}}
    /\ partitions = [k \in 1..plan.num_partitions |->
                        IF plan.num_ticks > LevelBound THEN Fresh(1) ELSE Fresh(plan.partition_size)]
    /\ free_list = [k \in 1..plan.num_partitions |-> k]
    /\ active = [s \in Side |-> [q \in 0..(plan.num_partitions - 1) |-> 0]]
    /\ active_bitmap = [s \in Side |-> [w \in 0..(Words(plan.num_partitions) - 1) |-> 0]]
    /\ resting = [s \in Side |-> [price \in 0..(LevelBound - 1) |-> 0]]

Last(s) == s[Len(s)]
Front(s) == SubSeq(s, 1, Len(s) - 1)

(* get_or_create_partition_: the store's partition, or the one on top of    *)
(* the pool's free list, initialised and marked in the store's bitmap.      *)
Obtained(s, q) == IF active[s][q] # 0 THEN active[s][q] ELSE Last(free_list)

get_or_create_partition(s, q) ==
    IF active[s][q] # 0
    THEN UNCHANGED <<free_list, active, active_bitmap>>
    ELSE /\ free_list' = Front(free_list)
         /\ active' = [active EXCEPT ![s][q] = Last(free_list)]
         /\ active_bitmap' = [active_bitmap EXCEPT ![s] = set_active(@, q)]

InUse(s, q) ==
    IF active[s][q] # 0 THEN partitions[active[s][q]]
    ELSE initialize_for_partid(q, plan.partition_size)

Operated == plan.num_ticks <= LevelBound

Resting(s) == {price \in DOMAIN resting[s] : resting[s][price] > 0}

(* insert_order_: the level's bit is set when the level was inactive, and    *)
(* the partition's best is raised to the price.                             *)
insert_order(s, price) ==
    LET q == partition_id(price)
        p == InUse(s, q)
        linked == [p EXCEPT !.bitmap = IF price \notin Resting(s)
                                       THEN set_active(@, offset_in_partition(price)) ELSE @]
    IN  /\ Operated
        /\ MapThenSumSet(LAMBDA t : MapThenSumSet(LAMBDA x : resting[t][x], DOMAIN resting[t]), Side) < MaxOrders
        /\ active[s][q] # 0 \/ free_list # << >>
        /\ get_or_create_partition(s, q)
        /\ partitions' = [partitions EXCEPT ![Obtained(s, q)] = try_update_best(s, linked, price)]
        /\ resting' = [resting EXCEPT ![s][price] = @ + 1]
        /\ UNCHANGED plan

Unlinked(s, price, p) ==
    [p EXCEPT !.bitmap = IF resting[s][price] = 1
                         THEN clear_active(@, offset_in_partition(price)) ELSE @]

(* remove_order_ with unlink_order_and_update_partition_: an emptied level   *)
(* clears its bit; a partition that keeps other levels recomputes its best   *)
(* when the emptied level was the best.                                     *)
remove_order(s, price) ==
    LET k     == active[s][partition_id(price)]
        p     == Unlinked(s, price, partitions[k])
        stale == resting[s][price] = 1 /\ ~empty(p) /\ p.best_price = price
    IN  /\ partitions' = [partitions EXCEPT ![k] = IF stale THEN recompute_best(s, p) ELSE p]
        /\ resting' = [resting EXCEPT ![s][price] = @ - 1]
        /\ UNCHANGED <<plan, free_list, active, active_bitmap>>

(* The shortcuts of try_to_reprice_order_by_flashstrike_ that stay within    *)
(* one partition: unlink and link again, the partition's best left alone.    *)
(* Shortcut #2 needs a new price worse than the partition's best; shortcut   *)
(* #1 a better one for the order at the store's best (MatchingEngine has     *)
(* that best), here any order at its partition's best.                      *)
reprice_within_partition(s, old, price) ==
    LET q   == partition_id(old)
        k   == active[s][q]
        p   == Unlinked(s, old, partitions[k])
        linked == [p EXCEPT !.bitmap = IF price \in Resting(s)
                                       THEN @ ELSE set_active(@, offset_in_partition(price))]
        Worse(a, b) == IF s = "BID" THEN a < b ELSE a > b
    IN  /\ price # old
        /\ partition_id(price) = q
        /\ \/ Worse(price, partitions[k].best_price)
           \/ old = partitions[k].best_price /\ Worse(old, price)
        /\ partitions' = [partitions EXCEPT ![k] = linked]
        /\ resting' = [resting EXCEPT ![s][old] = @ - 1, ![s][price] = @ + 1]
        /\ UNCHANGED <<plan, free_list, active, active_bitmap>>

Next ==
    \E s \in Side :
        \/ \E price \in Accepted : insert_order(s, price)
        \/ \E old \in Resting(s) :
              \/ remove_order(s, old)
              \/ \E price \in Accepted : reprice_within_partition(s, old, price)

Spec == Init /\ [][Next]_ladderVars

---------------------------------------------------------------------------
TypeOK ==
    /\ \A k \in DOMAIN partitions : partitions[k].has_best \in BOOLEAN
    /\ \A n \in DOMAIN free_list : free_list[n] \in DOMAIN partitions
    /\ \A s \in Side : \A q \in DOMAIN active[s] : active[s][q] \in {0} \cup DOMAIN partitions

(* Every price that the engine accepts below its maximum has a partition    *)
(* and a level, no two prices share them, and the partitions have no level  *)
(* to spare.                                                                *)
PlanTiles ==
    /\ plan.num_partitions * plan.partition_size = plan.num_ticks
    /\ \A price \in 0..(plan.price_max - 1) :
          /\ partition_id(price) < plan.num_partitions
          /\ offset_in_partition(price) < plan.partition_size
          /\ partition_id(price) * plan.partition_size + offset_in_partition(price) = price

(* No partition is on the free list twice, or free and in use, or used for   *)
(* two ranges or two sides (allocate, get_or_create_partition_), and a       *)
(* store's bitmap marks exactly the ranges it has a partition for.          *)
PartitionsOwnedOnce ==
    LET uses == {<<s, q>> \in Side \X (0..(plan.num_partitions - 1)) : active[s][q] # 0}
    IN  /\ \A a, b \in DOMAIN free_list : free_list[a] = free_list[b] => a = b
        /\ \A u, v \in uses : active[u[1]][u[2]] = active[v[1]][v[2]] => u = v
        /\ \A u \in uses : \A n \in DOMAIN free_list : active[u[1]][u[2]] # free_list[n]
        /\ Len(free_list) + Cardinality(uses) = plan.num_partitions
        /\ \A s \in Side : \A q \in DOMAIN active[s] :
              is_active(active_bitmap[s], q) <=> active[s][q] # 0

(* A level's bit is set exactly while an order rests at the level's price,   *)
(* and the level found for a price carries that price.                      *)
BitsMatchOrders ==
    Operated =>
        \A s \in Side : \A q \in DOMAIN active[s] :
            active[s][q] # 0 =>
                LET p == partitions[active[s][q]]
                IN  \A off \in DOMAIN p.price :
                      /\ p.price[off] = q * plan.partition_size + off
                      /\ is_active(p.bitmap, off) <=> p.price[off] \in Resting(s)

(* A step that lowers a partition's best price has found the best price that *)
(* really rests there: the word scan of recompute_best skips no level and    *)
(* stops at no empty one.                                                   *)
RecomputeFindsBest ==
    [][\A s \in Side : \A q \in DOMAIN active[s] :
          LET k    == active[s][q]
              here == {price \in Resting(s)' : partition_id(price) = q}
          IN  (/\ k # 0
               /\ \E price \in Resting(s) : remove_order(s, price)
               /\ partitions'[k].best_price # partitions[k].best_price)
              => partitions'[k].best_price = IF s = "BID" THEN Max(here) ELSE Min(here)]_ladderVars

(* The ladder in memory is the set of prices the engine takes it for: the    *)
(* plan gives every accepted price a level of its own, partitions have one   *)
(* owner, bits are the occupied levels, and recomputing finds the best one.  *)
LadderFaithful ==
    /\ [](PlanTiles /\ PartitionsOwnedOnce /\ BitsMatchOrders)
    /\ RecomputeFindsBest
=============================================================================

--------------------------- MODULE MatchingEngine ---------------------------
(***************************************************************************)
(* The Flashstrike matching engine: Manager over OrderBook and the two     *)
(* PriceLevelStores.  One thread runs it; the only other party is the      *)
(* consumer of the trades ring, whose slowness the engine waits for.       *)
(*                                                                         *)
(* A store keeps, for each price, the orders in arrival order, and caches  *)
(* two levels of best price: one per partition (a range of PartSize        *)
(* prices) and a global one.  Orders are named by their ids; OrderStore    *)
(* shows that the pool, the id map and the intrusive lists give each id    *)
(* one order on one list.  Left out: `filled` (it only selects the status  *)
(* returned to the caller), fees, users, timestamps and telemetry.  The    *)
(* price tick is 1.                                                        *)
(***************************************************************************)
EXTENDS Integers, Sequences, FiniteSets

CONSTANTS Id,             \* order ids
          MaxOrders,      \* max_orders: slots of the order pool
          NumPartitions,  \* num_partitions_, also the size of the shared pool
          PartSize,       \* partition_size_
          PriceMin, QtyMin, QtyMax, MinNotional,  \* NormalizedInstrument
          TradeCapacity,  \* trades the ring holds
          InPrice, InQty  \* prices and quantities that requests carry

ASSUME SizesAssumption ==
    /\ {MaxOrders, NumPartitions, PartSize, TradeCapacity} \subseteq Nat \ {0}
    /\ {PriceMin, QtyMin} \subseteq Nat \ {0}
    /\ {QtyMax, MinNotional} \subseteq Nat

ASSUME InputAssumption == InPrice \subseteq Nat /\ InQty \subseteq Nat

VARIABLES book,    \* bids_ and asks_
          qty,     \* Order::qty; 0 when the id is neither resting nor taking
          op,      \* the request being processed
          ring,    \* number of events in trades_ring_
          halted   \* an assertion of the store has failed

vars == <<book, qty, op, ring, halted>>

Side == {"BID", "ASK"}
Opp(s) == IF s = "BID" THEN "ASK" ELSE "BID"
NoPrice == -1                          \* INVALID_PRICE

\* num_ticks * tick size
PriceMax == NumPartitions * PartSize
Price == 0 .. PriceMax - 1
Partition == 0 .. NumPartitions - 1

partition_id(p) == p \div PartSize

\* PriceComparator
Better(s, a, b) == IF s = "BID" THEN a > b ELSE a < b
crosses(s, incoming, resting) ==
    IF s = "BID" THEN incoming >= resting ELSE incoming <= resting

EmptyStore == [queue |-> [p \in Price |-> <<>>],
               total |-> [p \in Price |-> 0],
               pbest |-> [k \in Partition |-> NoPrice],
               best  |-> NoPrice]

NoTrade == [price |-> NoPrice]

NoOp == [pc |-> "idle"]

Init ==
    /\ book = [s \in Side |-> EmptyStore]
    /\ qty = [i \in Id |-> 0]
    /\ op = NoOp
    /\ ring = 0
    /\ halted = FALSE

-----------------------------------------------------------------------------
(* PriceLevelStore.  Operators on one side's store.                        *)

Levels(k) == {p \in Price : partition_id(p) = k}

\* The level's bit in the partition's bitmap: it is set while orders rest.
Active(st, p) == st.queue[p] # <<>>

Orders(st, p) == {st.queue[p][i] : i \in DOMAIN st.queue[p]}

\* A partition is taken from the pool once, with its first order, and is
\* never given back: pbest tells which ones a side has.
Created(st) == {k \in Partition : st.pbest[k] # NoPrice}

\* get_or_create_partition_: its two assertions.
MayCreate(s, p) ==
    /\ partition_id(p) \in Partition
    /\ \/ partition_id(p) \in Created(book[s])
       \/ Cardinality(Created(book["BID"])) + Cardinality(Created(book["ASK"]))
             < NumPartitions

\* The best of two prices of which the first may be missing.
Improve(s, old, p) == IF old = NoPrice \/ Better(s, p, old) THEN p ELSE old

Without(seq, i) ==
    [j \in 1 .. Len(seq) - 1 |-> IF j < i THEN seq[j] ELSE seq[j + 1]]

Position(seq, o) == CHOOSE i \in DOMAIN seq : seq[i] = o

unlink_order(st, o, p, q) ==
    [st EXCEPT !.queue[p] = Without(@, Position(@, o)), !.total[p] = @ - q]

link_order(st, o, p, q) ==
    [st EXCEPT !.queue[p] = Append(@, o), !.total[p] = @ + q]

insert_order(s, st, o, p, q) ==
    [link_order(st, o, p, q) EXCEPT
        !.best = Improve(s, @, p),
        !.pbest[partition_id(p)] = Improve(s, @, p)]

\* Partition::recompute_best and recompute_global_best_: the best of a set.
BestOf(s, S) ==
    IF S = {} THEN NoPrice
    ELSE CHOOSE p \in S : \A x \in S : ~Better(s, x, p)

recompute_best(s, st, k) ==
    [st EXCEPT !.pbest[k] = BestOf(s, {p \in Levels(k) : Active(st, p)})]

recompute_global_best(s, st) ==
    [st EXCEPT !.best = BestOf(s, {st.pbest[k] : k \in Created(st)})]

\* remove_order_: an emptied partition keeps its cached best; an emptied
\* level that was the partition's best makes it look for the next one.
remove_order(s, st, o, p, q) ==
    LET k == partition_id(p)
        u == unlink_order(st, o, p, q)
        empty == \A x \in Levels(k) : ~Active(u, x)
        r == IF ~Active(u, p) /\ ~empty /\ st.pbest[k] = p
             THEN recompute_best(s, u, k) ELSE u
        changed == ~Active(u, p) /\ (empty \/ st.pbest[k] = p)
    IN  IF st.best = p /\ changed THEN recompute_global_best(s, r) ELSE r

\* try_to_reprice_order_by_flashstrike_, and the removal and insertion that
\* reprice_order falls back to.
SamePartition(old, new) == partition_id(old) = partition_id(new)

Strike1(s, st, old, new) ==
    SamePartition(old, new) /\ old = st.best /\ Better(s, new, old)

Strike2(s, st, old, new) ==
    /\ SamePartition(old, new) /\ old # st.best
    /\ Better(s, st.pbest[partition_id(old)], new)

Strike3(s, st, old, new) ==
    ~SamePartition(old, new) /\ old # st.pbest[partition_id(old)]

Move(st, o, old, new, q) == link_order(unlink_order(st, o, old, q), o, new, q)

reprice_order(s, st, o, old, new, q) ==
    CASE Strike1(s, st, old, new) -> [Move(st, o, old, new, q) EXCEPT !.best = new]
      [] Strike2(s, st, old, new) -> Move(st, o, old, new, q)
      [] Strike3(s, st, old, new) ->
            insert_order(s, unlink_order(st, o, old, q), o, new, q)
      [] OTHER ->
            insert_order(s, remove_order(s, st, o, old, q), o, new, q)

-----------------------------------------------------------------------------
(* OrderBook: where an id rests.                                           *)

RestsAt(o, s, p) == o \in Orders(book[s], p)

Live == {o \in Id : \E s \in Side, p \in Price : RestsAt(o, s, p)}

\* insert_order of a remainder: without a free slot the order is dropped
\* (BAD_ALLOC), whatever it has already traded.
insert(o, s, p) ==
    IF Cardinality(Live) >= MaxOrders
    THEN /\ qty' = [qty EXCEPT ![o] = 0]
         /\ UNCHANGED <<book, halted>>
    ELSE IF MayCreate(s, p)
    THEN /\ book' = [book EXCEPT ![s] = insert_order(s, @, o, p, qty[o])]
         /\ UNCHANGED <<qty, halted>>
    ELSE halted' = TRUE /\ UNCHANGED <<book, qty>>

-----------------------------------------------------------------------------
(* Manager.                                                                *)

validate_order(p, q) ==
    /\ PriceMin <= p /\ p <= PriceMax
    /\ QtyMin <= q /\ q <= QtyMax
    /\ p * q >= MinNotional

\* The early exit of match_order_: a limit order that does not cross the
\* opposite best.
NoCross(type, s, p) ==
    LET b == book[Opp(s)].best
    IN  type = "LIMIT" /\ b # NoPrice /\ ~crosses(s, p, b)

Taker(o, type, s, p, resting, start) ==
    [pc |-> "match", id |-> o, type |-> type, side |-> s, price |-> p,
     resting |-> resting, start |-> start, ev |-> NoTrade]

Idle == op.pc = "idle" /\ ~halted

\* A validated order starts to match; with nothing to cross it rests at once.
process_order(o, type, s, p, q) ==
    /\ Idle /\ o \notin Live /\ validate_order(p, q)
    /\ qty' = [qty EXCEPT ![o] = q]
    /\ op' = [Taker(o, type, s, p, FALSE, q) EXCEPT
                !.pc = IF NoCross(type, s, p) THEN "end" ELSE "match"]
    /\ UNCHANGED <<book, ring, halted>>

\* The level the loop looks at, and whether it goes on.
Opposite == book[Opp(op.side)]
Matchable ==
    /\ Opposite.best # NoPrice
    /\ Active(Opposite, Opposite.best)
    /\ qty[op.id] > 0

\* Mutant: the loop takes the youngest order of the level.
TradeWithYoungest ==
    LET p == Opposite.best
        maker == Opposite.queue[p][Len(Opposite.queue[p])]
        q == IF qty[op.id] < qty[maker] THEN qty[op.id] ELSE qty[maker]
        st == [Opposite EXCEPT !.total[p] = @ - q]
    IN  /\ op.pc = "match" /\ Matchable /\ ~halted
        /\ book' = [book EXCEPT ![Opp(op.side)] =
              IF qty[maker] = q
              THEN remove_order(Opp(op.side), st, maker, p, 0) ELSE st]
        /\ qty' = [qty EXCEPT ![op.id] = @ - q, ![maker] = @ - q]
        /\ op' = [op EXCEPT !.pc = "emit",
                    !.ev = [price |-> p, maker |-> maker, qty |-> q]]
        /\ UNCHANGED <<ring, halted>>

\* One turn of match_order_'s loop: the head of the opposite best level
\* trades, and leaves the book when it is filled.
match_order ==
    LET p == Opposite.best
        maker == Head(Opposite.queue[p])
        q == IF qty[op.id] < qty[maker] THEN qty[op.id] ELSE qty[maker]
        st == [Opposite EXCEPT !.total[p] = @ - q]
    IN  /\ op.pc = "match" /\ Matchable /\ ~halted
        /\ book' = [book EXCEPT ![Opp(op.side)] =
              IF qty[maker] = q
              THEN remove_order(Opp(op.side), st, maker, p, 0) ELSE st]
        /\ qty' = [qty EXCEPT ![op.id] = @ - q, ![maker] = @ - q]
        /\ op' = [op EXCEPT !.pc = "emit",
                    !.ev = [price |-> p, maker |-> maker, qty |-> q]]
        /\ UNCHANGED <<ring, halted>>

\* emit_trade_event_ spins until the ring has room.
emit_trade_event ==
    /\ op.pc = "emit" /\ ring < TradeCapacity
    /\ ring' = ring + 1
    /\ op' = [op EXCEPT !.pc = "match", !.ev = NoTrade]
    /\ UNCHANGED <<book, qty, halted>>

Unmatched == op.pc = "end" \/ (op.pc = "match" /\ ~Matchable)

\* The rest of process_order.
end_process_order ==
    /\ Unmatched /\ ~op.resting /\ ~halted
    /\ IF op.type = "MARKET" \/ qty[op.id] = 0
       THEN /\ qty' = [qty EXCEPT ![op.id] = 0]
            /\ UNCHANGED <<book, halted>>
       ELSE insert(op.id, op.side, op.price)
    /\ op' = NoOp
    /\ UNCHANGED ring

\* Mutant: the level keeps the quantity that a repriced order has traded.
RestingKeepsTotal ==
    /\ Unmatched /\ op.resting /\ ~halted
    /\ book' = IF qty[op.id] > 0 THEN book
               ELSE [book EXCEPT ![op.side] =
                       remove_order(op.side, @, op.id, op.price, 0)]
    /\ op' = NoOp
    /\ UNCHANGED <<qty, ring, halted>>

\* The rest of match_resting_order_: the level's total follows the trades,
\* and a filled order leaves the book.
match_resting_order ==
    LET st == [book[op.side] EXCEPT !.total[op.price] =
                  @ - (op.start - qty[op.id])]
    IN  /\ Unmatched /\ op.resting /\ ~halted
        /\ book' = [book EXCEPT ![op.side] =
              IF qty[op.id] > 0 THEN st
              ELSE remove_order(op.side, st, op.id, op.price, 0)]
        /\ op' = NoOp
        /\ UNCHANGED <<qty, ring, halted>>

\* modify_order_price: the order moves, and then matches like a new one.
modify_order_price(o, s, old, new) ==
    /\ Idle /\ RestsAt(o, s, old) /\ old # new
    /\ 0 < new /\ new < PriceMax
    /\ IF MayCreate(s, new)
       THEN /\ book' = [book EXCEPT ![s] =
                  reprice_order(s, @, o, old, new, qty[o])]
            /\ op' = IF NoCross("LIMIT", s, new) THEN NoOp
                     ELSE Taker(o, "LIMIT", s, new, TRUE, qty[o])
            /\ UNCHANGED <<qty, ring, halted>>
       ELSE halted' = TRUE /\ UNCHANGED <<book, qty, op, ring>>

modify_order_quantity(o, s, p, q) ==
    /\ Idle /\ RestsAt(o, s, p) /\ q > 0
    /\ book' = [book EXCEPT ![s].total[p] = @ + (q - qty[o])]
    /\ qty' = [qty EXCEPT ![o] = q]
    /\ UNCHANGED <<op, ring, halted>>

cancel_order(o, s, p) ==
    /\ Idle /\ RestsAt(o, s, p)
    /\ book' = [book EXCEPT ![s] = remove_order(s, @, o, p, qty[o])]
    /\ qty' = [qty EXCEPT ![o] = 0]
    /\ UNCHANGED <<op, ring, halted>>

\* The consumer of the trades takes one.
pop_trade ==
    /\ ring > 0 /\ ring' = ring - 1
    /\ UNCHANGED <<book, qty, op, halted>>

Request ==
    \/ \E o \in Id, t \in {"LIMIT", "MARKET"}, s \in Side, p \in InPrice,
          q \in InQty : process_order(o, t, s, p, q)
    \/ \E o \in Id, s \in Side, p \in Price :
          \/ \E new \in InPrice : modify_order_price(o, s, p, new)
          \/ \E q \in InQty : modify_order_quantity(o, s, p, q)
          \/ cancel_order(o, s, p)

Matching ==
    match_order \/ emit_trade_event \/ end_process_order \/ match_resting_order

Next == Request \/ Matching \/ pop_trade

Spec == Init /\ [][Next]_vars

-----------------------------------------------------------------------------
(* Properties.                                                             *)

\* A price at which orders of a side rest, and the best such price.
Occupied(s) == {p \in Price : Active(book[s], p)}
IsBest(s, p) == p \in Occupied(s) /\ \A x \in Occupied(s) : ~Better(s, x, p)

(* Price-time priority: a trade is made with the oldest order at the best  *)
(* price at which the opposite side has orders, although the cached bests  *)
(* that choose the level may name emptied ones.                            *)
TradesAtBest ==
    op'.pc = "emit" /\ op.pc # "emit" =>
        /\ IsBest(Opp(op.side), op'.ev.price)
        /\ op'.ev.maker = Head(book[Opp(op.side)].queue[op'.ev.price])

PriceTimePriority == [][TradesAtBest]_vars

\* The quantity resting at a price.
Resting(s, p) ==
    LET sum[i \in 0 .. Len(book[s].queue[p])] ==
          IF i = 0 THEN 0 ELSE sum[i - 1] + qty[book[s].queue[p][i]]
    IN  sum[Len(book[s].queue[p])]

\* What a repriced order has traded and its level does not know yet.
Unsettled(s, p) ==
    IF op.pc # "idle" /\ op.resting /\ op.side = s /\ op.price = p
    THEN op.start - qty[op.id] ELSE 0

(* The book's records agree: an order rests at one place, with a positive  *)
(* quantity, and each level's cached total is the quantity resting there,  *)
(* through fills, repricings and resizes.                                  *)
BookConsistent ==
    /\ \A s \in Side, p \in Price :
          book[s].total[p] = Resting(s, p) + Unsettled(s, p)
    /\ \A o \in Id :
          Cardinality({<<s, p, i>> \in Side \X Price \X (1 .. MaxOrders) :
              i \in DOMAIN book[s].queue[p] /\ book[s].queue[p][i] = o}) <= 1
    /\ \A o \in Live : qty[o] > 0 \/ (op.pc # "idle" /\ op.id = o)
    /\ \A o \in Id \ Live : qty[o] = 0 \/ (op.pc # "idle" /\ op.id = o)

(* The documentation's "Continue until no crossing remains": between       *)
(* requests no resting bid reaches a resting ask.                          *)
NotCrossed ==
    Idle => \A b \in Occupied("BID"), a \in Occupied("ASK") : b < a

(* The documentation's loop condition "incoming crosses": a limit order    *)
(* trades only at prices that its limit allows.                            *)
TradesWithinLimit ==
    [][op'.pc = "emit" /\ op.pc # "emit" /\ op.type = "LIMIT" =>
          crosses(op.side, op.price, op'.ev.price)]_vars

=============================================================================

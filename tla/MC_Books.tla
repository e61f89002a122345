------------------------------- MODULE MC_Books -------------------------------
(***************************************************************************)
(* The books that a single thread keeps, for TLC.  The session's control   *)
(* plane keeps the subscription controller and the replay database, here   *)
(* with two channels, two symbols and two request identifiers that both    *)
(* channels may use; Session composes them.  The matching engine keeps the *)
(* order store, here with an id map in which every probe starts at the     *)
(* last cell and wraps around, and the ladder of price partitions, here    *)
(* for ranges that are and are not powers of two.  A behaviour exercises   *)
(* the one that `book` names, the others rest in one initial state.        *)
(***************************************************************************)
EXTENDS SubscriptionController, Integers

CONSTANTS a, b, r1, r2,
          MaxCopies,      \* bound: copies of one symbol in a request
          Order, Level, MaxOrders, TableSize,
          WordBits, LevelBound, MaxResting    \* Partitions

ASSUME BooksAssumption ==
    /\ MaxCopies \in Nat \ {0}
    /\ Order \subseteq Nat \ {0} /\ MaxOrders \in Nat \ {0}
    /\ TableSize \in Nat /\ TableSize >= 2 * MaxOrders
    /\ {WordBits, LevelBound, MaxResting} \subseteq Nat \ {0}

VARIABLES book, tables, slot, next_free, free_head, table, ends,
          plan, partitions, free_list, active, active_bitmap, resting

Replay == INSTANCE ReplayDatabase

Store == INSTANCE OrderStore WITH
    Id <- Order, Hash <- [o \in Order |-> TableSize - 1]

(* Whole and broken ranges, one word and several, one tick per unit and    *)
(* ten.                                                                    *)
Ladder == INSTANCE Partitions WITH
    MaxOrders <- MaxResting,
    Instruments <-
        {[decimals |-> 1, max |-> m, target |-> t] : m \in 2..9, t \in 1..5}
        \cup {[decimals |-> 0, max |-> 7, target |-> t] : t \in 1..2}

store  == <<slot, next_free, free_head, table, ends>>
ladder == <<plan, partitions, free_list, active, active_bitmap, resting>>

MCInit ==
    /\ book \in {"controller", "database", "orders", "ladder"}
    /\ \/ book = "ladder"
       \/ plan = Ladder!compute([decimals |-> 0, max |-> 7, target |-> 2])
    /\ Init /\ Replay!Init /\ Store!Init /\ Ladder!Init

(* A plan with more levels than LevelBound is computed and left alone.     *)
OnlyPlanned == ~Ladder!Operated /\ UNCHANGED ladder

MCNext ==
    \/ book = "controller" /\ Next /\ UNCHANGED <<book, tables, store, ladder>>
    \/ book = "database" /\ Replay!Next /\ UNCHANGED <<book, vars, store, ladder>>
    \/ book = "orders" /\ Store!Next /\ UNCHANGED <<book, vars, tables, ladder>>
    \/ book = "ladder" /\ Ladder!Next /\ UNCHANGED <<book, vars, tables, store>>
    \/ book = "ladder" /\ OnlyPlanned /\ UNCHANGED <<book, vars, tables, store>>

MCSpec == MCInit /\ [][MCNext]_<<book, vars, tables, store, ladder>>

(* replay::Database: the request map and the owner map of each table agree *)
(* in every order of adds, removals, rejections and takes, and a symbol    *)
(* keeps its owner until it leaves the table.                              *)
DatabaseConsistent ==
    [](book = "database" => Replay!DatabaseConsistent) /\ Replay!FirstWriteWins

(* OrderBook: no slot of the pool is lost or used twice, and its slots,    *)
(* links and id map are the queues of OrderLists.                          *)
IsOrderLists == [](book = "orders" => Store!SlotsShared) /\ Store!IsOrderLists

(* PriceLevelStore: the partitions in memory are the set of prices that    *)
(* MatchingEngine takes them for.                                          *)
LadderFaithful == Ladder!LadderFaithful
===============================================================================

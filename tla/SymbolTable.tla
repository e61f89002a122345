----------------------------- MODULE SymbolTable -----------------------------
(***************************************************************************)
(* InternTable (wirekrak/core/symbol/intern.hpp): threads turn symbol       *)
(* strings into small integers that stand for them from then on.  intern()  *)
(* looks the string up under a shared lock, lets go, takes the lock alone,  *)
(* looks again, and only then stores the string and its id.  The lock is a  *)
(* std::shared_mutex; between letting go of it and taking it again any      *)
(* other thread may run.  name() reads the strings without the lock.        *)
(***************************************************************************)
EXTENDS Naturals, Sequences, FiniteSets

CONSTANTS Thread, Symbol, MaxSymbols

VARIABLES
    symbols,   \* symbols_: the strings, id i at position i + 1
    map,       \* map_: the set of <<string, id>> entries
    writer,    \* the thread that holds the lock alone, or "none"
    pc,        \* per thread: "idle", "miss" (lookup failed), "store", "index", "trap"
    asked,     \* per thread: the string of its call
    ids        \* the <<string, id>> pairs handed out so far

tableVars == <<symbols, map, writer, pc, asked, ids>>

Init ==
    /\ symbols = << >>
    /\ map = {}
    /\ writer = "none"
    /\ pc = [t \in Thread |-> "idle"]
    /\ asked = [t \in Thread |-> CHOOSE s \in Symbol : TRUE]
    /\ ids = {}

find(s) == {e \in map : e[1] = s}

HandOut(t, s, id) ==
    /\ ids' = ids \cup {<<s, id>>}
    /\ pc' = [pc EXCEPT ![t] = "idle"]

(* The lookup under the shared lock: no writer can hold it.                *)
FastPath(t, s) ==
    /\ pc[t] = "idle" /\ writer = "none"
    /\ asked' = [asked EXCEPT ![t] = s]
    /\ IF find(s) # {}
       THEN \E e \in find(s) : HandOut(t, s, e[2])
       ELSE pc' = [pc EXCEPT ![t] = "miss"] /\ UNCHANGED ids
    /\ UNCHANGED <<symbols, map, writer>>

\* Mutant: the string is stored without a second lookup.
NoDoubleCheck(t) ==
    /\ pc[t] = "miss" /\ writer = "none"
    /\ pc' = [pc EXCEPT ![t] = IF Len(symbols) >= MaxSymbols THEN "trap" ELSE "store"]
    /\ writer' = t
    /\ UNCHANGED <<symbols, map, asked, ids>>

(* The exclusive lock and the second lookup; a full table traps in every    *)
(* build and ends the process.                                             *)
DoubleCheck(t) ==
    /\ pc[t] = "miss" /\ writer = "none"
    /\ IF find(asked[t]) # {}
       THEN /\ \E e \in find(asked[t]) : HandOut(t, asked[t], e[2])
            /\ UNCHANGED writer
       ELSE /\ pc' = [pc EXCEPT ![t] = IF Len(symbols) >= MaxSymbols THEN "trap" ELSE "store"]
            /\ writer' = t
            /\ UNCHANGED ids
    /\ UNCHANGED <<symbols, map, asked>>

EmplaceSymbol(t) ==
    /\ pc[t] = "store"
    /\ symbols' = Append(symbols, asked[t])
    /\ pc' = [pc EXCEPT ![t] = "index"]
    /\ UNCHANGED <<map, writer, asked, ids>>

(* map_.emplace keeps an entry that is already there; the id is returned    *)
(* and the lock released.                                                  *)
EmplaceIndex(t) ==
    /\ pc[t] = "index"
    /\ map' = IF find(asked[t]) = {} THEN map \cup {<<asked[t], Len(symbols) - 1>>} ELSE map
    /\ HandOut(t, asked[t], Len(symbols) - 1)
    /\ writer' = "none"
    /\ UNCHANGED <<symbols, asked>>

intern(t) ==
    \/ \E s \in Symbol : FastPath(t, s)
    \/ DoubleCheck(t)
    \/ EmplaceSymbol(t)
    \/ EmplaceIndex(t)

Running == \A t \in Thread : pc[t] # "trap"

(* name(): the bounds check and the read, both without the lock.           *)
name(id) == IF id >= Len(symbols) THEN "none" ELSE symbols[id + 1]

Next == Running /\ \E t \in Thread : intern(t)

Spec == Init /\ [][Next]_tableVars

---------------------------------------------------------------------------
TypeOK ==
    /\ symbols \in Seq(Symbol)
    /\ Len(symbols) <= MaxSymbols
    /\ map \subseteq Symbol \X (0..(MaxSymbols - 1))
    /\ writer \in Thread \cup {"none"}
    /\ pc \in [Thread -> {"idle", "miss", "store", "index", "trap"}]
    /\ asked \in [Thread -> Symbol]

(* A string has one id for ever and an id one string, for every thread and  *)
(* whatever the calls race with, and name() gives the string back for every *)
(* id that was handed out, also while another string is being stored.       *)
OneIdPerSymbol ==
    /\ \A a, b \in ids : a[1] = b[1] <=> a[2] = b[2]
    /\ \A a \in ids : name(a[2]) = a[1]
    /\ \A i, j \in DOMAIN symbols : symbols[i] = symbols[j] => i = j
=============================================================================

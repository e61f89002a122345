--------------------------- MODULE ReplayDatabase ---------------------------
(***************************************************************************)
(* replay::Database: one Table per subscription type.  The environment     *)
(* calls the operations in every order; a subscribe request may name a     *)
(* symbol twice, since nothing before the table removes duplicates.        *)
(***************************************************************************)
EXTENDS ReplayTable

CONSTANTS Symbol,      \* the symbols of a channel
          ReqId,       \* request identifiers
          Types,       \* number of subscription types, the tables_ tuple
          MaxCopies    \* bound: copies of one symbol in a request

VARIABLE tables        \* tables_

vars == <<tables>>

Domain == 1 .. Types

(* The symbol vectors of a request: at least one symbol.                   *)
Requests == UNION {[S -> 1 .. MaxCopies] : S \in (SUBSET Symbol) \ {{}}}

Init ==
    tables = [d \in Domain |-> NoIntent]

Add(d, r, symbols) ==
    tables' = [tables EXCEPT ![d] = add(@, r, symbols)]

RemoveSymbol(d, s) ==
    tables' = [tables EXCEPT ![d] = erase_symbol(@, s)]

(* The first table of the tuple that holds (r, s) takes the rejection.     *)
Taker(r, s) ==
    {d \in Domain : /\ rejects(tables[d], r, s)
                    /\ \A e \in Domain : rejects(tables[e], r, s) => d <= e}

Rejection(r, s) ==
    tables' = [d \in Domain |->
                 IF d \in Taker(r, s)
                 THEN try_process_rejection(tables[d], r, s)
                 ELSE tables[d]]

(* All requests of one table are handed out, and the table is cleared.     *)
take_subscriptions(d) ==
    tables' = [tables EXCEPT ![d] = NoIntent]

clear_all ==
    tables' = [d \in Domain |-> NoIntent]

Next ==
    \/ \E d \in Domain :
          \/ \E r \in ReqId, symbols \in Requests : Add(d, r, symbols)
          \/ \E s \in Symbol : RemoveSymbol(d, s)
          \/ take_subscriptions(d)
    \/ \E r \in ReqId, s \in Symbol : Rejection(r, s)
    \/ clear_all

Spec == Init /\ [][Next]_vars

-----------------------------------------------------------------------------

(* Type correctness of the tuple of tables.                                *)
TypeOK ==
    /\ tables = [d \in Domain |-> tables[d]]
    /\ \A d \in Domain :
          LET t == tables[d]
          IN  /\ t = [subs |-> t.subs, owner |-> t.owner]
              /\ t.subs = [r \in DOMAIN t.subs |-> t.subs[r]]
              /\ \A r \in DOMAIN t.subs :
                    t.subs[r] = [s \in DOMAIN t.subs[r] |-> t.subs[r][s]]
              /\ t.owner = [s \in DOMAIN t.owner |-> t.owner[s]]
              /\ DOMAIN t.subs \subseteq ReqId
              /\ DOMAIN t.owner \subseteq Symbol

(* The request map and the owner map of each table agree in every order of *)
(* adds, removals, rejections and takes: a symbol is never in two requests *)
(* and is never replayed twice, and no request stays behind empty.         *)
DatabaseConsistent ==
    /\ TypeOK
    /\ \A d \in Domain : TableConsistent(tables[d])

(* Existing subscriptions are never mutated by a new request: a symbol     *)
(* keeps its owner until it leaves the table.                              *)
FirstWriteWins ==
    [][\A d \in Domain :
         \A s \in DOMAIN tables[d].owner \cap DOMAIN tables'[d].owner :
            tables'[d].owner[s] = tables[d].owner[s]
      ]_vars

=============================================================================

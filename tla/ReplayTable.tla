---------------------------- MODULE ReplayTable ----------------------------
(***************************************************************************)
(* replay::Table and replay::Subscription: the subscribe requests of one   *)
(* channel that a reconnect sends again.  A value of the class is the      *)
(* record [subs, owner]: subscriptions_, from req_id to the request's      *)
(* remaining symbols, and symbol_owner_, from symbol to req_id.  The       *)
(* symbols of a request are a bag: a vector whose order is never used but  *)
(* which may hold a symbol twice.                                          *)
(***************************************************************************)
EXTENDS Naturals

NoIntent == [subs |-> [r \in {} |-> {}], owner |-> [s \in {} |-> 0]]

(* f without the members of S in its domain.                               *)
Drop(f, S) == [x \in DOMAIN f \ S |-> f[x]]

contains_symbol(t, s) == s \in DOMAIN t.owner

(* A mutant: the symbols owned by an earlier request are not dropped.      *)
AddOverwrites(t, req_id, symbols) ==
    IF DOMAIN symbols = {} \/ req_id \in DOMAIN t.subs THEN t
    ELSE [subs  |-> [r \in DOMAIN t.subs \cup {req_id} |->
                       IF r = req_id THEN symbols ELSE t.subs[r]],
          owner |-> [s \in DOMAIN t.owner \cup DOMAIN symbols |->
                       IF s \in DOMAIN symbols THEN req_id ELSE t.owner[s]]]

(* First write wins: a symbol owned already is dropped from the request;   *)
(* an empty request and one whose req_id is taken are not stored.          *)
add(t, req_id, symbols) ==
    LET kept == Drop(symbols, DOMAIN t.owner)
    IN  IF DOMAIN kept = {} \/ req_id \in DOMAIN t.subs THEN t
        ELSE [subs  |-> [r \in DOMAIN t.subs \cup {req_id} |->
                           IF r = req_id THEN kept ELSE t.subs[r]],
              owner |-> [s \in DOMAIN t.owner \cup DOMAIN kept |->
                           IF s \in DOMAIN kept THEN req_id ELSE t.owner[s]]]

(* Subscription::erase_symbol, then the request is erased if empty.        *)
EraseFrom(t, req_id, s) ==
    LET left == Drop(t.subs[req_id], {s})
    IN  IF DOMAIN left = {}
        THEN Drop(t.subs, {req_id})
        ELSE [t.subs EXCEPT ![req_id] = left]

(* try_process_rejection() returns true iff the request held the symbol.   *)
rejects(t, req_id, s) ==
    req_id \in DOMAIN t.subs /\ s \in DOMAIN t.subs[req_id]

(* A mutant: the rejected symbol keeps its owner.                          *)
RejectKeepsOwner(t, req_id, s) ==
    IF rejects(t, req_id, s)
    THEN [t EXCEPT !.subs = EraseFrom(t, req_id, s)]
    ELSE t

try_process_rejection(t, req_id, s) ==
    IF rejects(t, req_id, s)
    THEN [subs |-> EraseFrom(t, req_id, s), owner |-> Drop(t.owner, {s})]
    ELSE t

erase_symbol(t, s) ==
    IF ~contains_symbol(t, s) THEN t
    ELSE IF t.owner[s] \notin DOMAIN t.subs
         THEN [t EXCEPT !.owner = Drop(@, {s})]
         ELSE IF s \in DOMAIN t.subs[t.owner[s]]
              THEN [subs  |-> EraseFrom(t, t.owner[s], s),
                    owner |-> Drop(t.owner, {s})]
              ELSE t

(* Both maps tell the same story: a request is never empty, and a symbol   *)
(* is in a request's bag exactly when that request owns it.                *)
TableConsistent(t) ==
    /\ \A r \in DOMAIN t.subs : DOMAIN t.subs[r] # {}
    /\ \A r \in DOMAIN t.subs : \A s \in DOMAIN t.subs[r] :
          s \in DOMAIN t.owner /\ t.owner[s] = r
    /\ \A s \in DOMAIN t.owner :
          t.owner[s] \in DOMAIN t.subs /\ s \in DOMAIN t.subs[t.owner[s]]

=============================================================================

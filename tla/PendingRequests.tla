-------------------------- MODULE PendingRequests --------------------------
(***************************************************************************)
(* subscription::PendingRequests: the symbols of the requests that wait    *)
(* for an answer of the exchange.  The C++ class keeps two containers, a   *)
(* map requests_ from req_id to the symbols still unanswered, and a flat   *)
(* set pending_symbols_ for membership tests; every operation writes both. *)
(* A value of the class is the record [requests, symbols]; the vector of a *)
(* request is a set, since add() never stores a symbol twice.              *)
(***************************************************************************)

NoRequests == [requests |-> [r \in {} |-> {}], symbols |-> {}]

contains(p, sid) == sid \in p.symbols

empty(p) == DOMAIN p.requests = {}

(* requests_[req_id]: the request's symbols, none when it has no entry.    *)
Entry(p, req_id) ==
    IF req_id \in DOMAIN p.requests THEN p.requests[req_id] ELSE {}

(* An entry is erased as soon as its last symbol goes.                     *)
SetEntry(f, req_id, S) ==
    IF S = {}
    THEN [r \in DOMAIN f \ {req_id} |-> f[r]]
    ELSE [r \in DOMAIN f \cup {req_id} |-> IF r = req_id THEN S ELSE f[r]]

(* Symbols pending in another request already are skipped.                 *)
add(p, req_id, sids) ==
    [requests |-> SetEntry(p.requests, req_id,
                           Entry(p, req_id) \cup (sids \ p.symbols)),
     symbols  |-> p.symbols \cup sids]

(* A mutant: the symbol leaves its request but not the flat set.           *)
RemoveKeepsSymbol(p, req_id, sid) ==
    IF sid \in Entry(p, req_id)
    THEN [p EXCEPT !.requests = SetEntry(@, req_id, Entry(p, req_id) \ {sid})]
    ELSE p

(* remove(req_id, sid) reports success iff removes(p, req_id, sid).        *)
removes(p, req_id, sid) == sid \in Entry(p, req_id)

remove(p, req_id, sid) ==
    IF removes(p, req_id, sid)
    THEN [requests |-> SetEntry(p.requests, req_id, Entry(p, req_id) \ {sid}),
          symbols  |-> p.symbols \ {sid}]
    ELSE p

(* remove(sid) of every sid in S, from whichever request holds it.         *)
remove_owned(p, S) ==
    LET left(r) == p.requests[r] \ S
    IN  [requests |-> [r \in {x \in DOMAIN p.requests : left(x) # {}} |-> left(r)],
         symbols  |-> p.symbols \ S]

(* Both containers tell the same story: no request is empty, no symbol is  *)
(* in two requests, and the flat set is the union of the requests.         *)
Consistent(p) ==
    /\ \A r \in DOMAIN p.requests : p.requests[r] # {}
    /\ \A r1, r2 \in DOMAIN p.requests :
          r1 # r2 => p.requests[r1] \cap p.requests[r2] = {}
    /\ p.symbols = UNION {p.requests[r] : r \in DOMAIN p.requests}

=============================================================================

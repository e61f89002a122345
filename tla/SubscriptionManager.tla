------------------------ MODULE SubscriptionManager ------------------------
(***************************************************************************)
(* subscription::Manager: the local state machine of one channel.  A value *)
(* of the class is the record [active, subs, unsubs] of active_symbols_,   *)
(* pending_subscriptions_ and pending_unsubscriptions_; each operation     *)
(* takes that record and returns the next one.                             *)
(***************************************************************************)
EXTENDS PendingRequests

NoSubscriptions == [active |-> {}, subs |-> NoRequests, unsubs |-> NoRequests]

(* The symbols of a subscribe request that survive the filter and are      *)
(* returned to the caller, to be sent and to be stored for replay.         *)
accepted(m, S) == S \ (m.active \cup m.subs.symbols \cup m.unsubs.symbols)

register_subscription(m, S, req_id) ==
    LET revived == (S \cap m.unsubs.symbols) \ (m.active \cup m.subs.symbols)
    IN  [active |-> m.active \cup revived,
         subs   |-> add(m.subs, req_id, accepted(m, S)),
         unsubs |-> remove_owned(m.unsubs, revived)]

(* The symbols of an unsubscribe request whose subscribe is still pending: *)
(* they are cancelled on the spot and returned to the caller.              *)
cancelled(m, S) == S \cap m.subs.symbols

register_unsubscription(m, S, req_id) ==
    LET filtered == ((S \ m.subs.symbols) \cap m.active) \ m.unsubs.symbols
    IN  [m EXCEPT !.subs   = remove_owned(@, cancelled(m, S)),
                  !.unsubs = add(@, req_id, filtered)]

(* A mutant: the ACK of any request activates a pending symbol.            *)
ConfirmAnyRequest(m, req_id, sid, success) ==
    IF ~contains(m.subs, sid) THEN m
    ELSE [m EXCEPT !.subs   = remove(@, req_id, sid),
                   !.active = IF success THEN @ \cup {sid} ELSE @]

(* confirm_subscription_ and reject_subscription_: an ACK whose req_id is  *)
(* not the one the symbol waits for changes nothing.                       *)
process_subscribe_ack(m, req_id, sid, success) ==
    IF contains(m.subs, sid) /\ removes(m.subs, req_id, sid)
    THEN [m EXCEPT !.subs   = remove(@, req_id, sid),
                   !.active = IF success THEN @ \cup {sid} ELSE @]
    ELSE m

process_unsubscribe_ack(m, req_id, sid, success) ==
    IF contains(m.unsubs, sid) /\ removes(m.unsubs, req_id, sid)
    THEN [m EXCEPT !.unsubs = remove(@, req_id, sid),
                   !.active = IF success THEN @ \ {sid} ELSE @]
    ELSE m

(* try_process_rejection() returns true iff the manager owned the request. *)
rejects(m, req_id, sid) ==
    removes(m.subs, req_id, sid) \/ removes(m.unsubs, req_id, sid)

try_process_rejection(m, req_id, sid) ==
    IF removes(m.subs, req_id, sid)
    THEN [m EXCEPT !.subs = remove(@, req_id, sid)]
    ELSE [m EXCEPT !.unsubs = remove(@, req_id, sid)]

has_pending_requests(m) == ~empty(m.subs) \/ ~empty(m.unsubs)

(* total_symbols() counts these symbols: what the client owns, granted or  *)
(* asked for.                                                              *)
Owned(m) == m.active \cup m.subs.symbols

(* What every operation preserves: both pending maps are consistent, a     *)
(* symbol asked for is not active yet, and a symbol being given up is      *)
(* active until the exchange confirms.                                     *)
ManagerConsistent(m) ==
    /\ Consistent(m.subs)
    /\ Consistent(m.unsubs)
    /\ m.active \cap m.subs.symbols = {}
    /\ m.unsubs.symbols \subseteq m.active

=============================================================================

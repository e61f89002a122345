----------------------- MODULE SubscriptionController -----------------------
(***************************************************************************)
(* subscription::Controller: one Manager per subscription type (trade,     *)
(* book), and the clock reading of the last progress made by any of them.  *)
(* The environment calls the operations in every order, with every req_id  *)
(* (a client may choose its own), and delivers ACKs and rejections that    *)
(* are late, duplicated, reordered or unknown.                             *)
(***************************************************************************)
EXTENDS SubscriptionManager, Naturals

CONSTANTS Symbol,      \* the symbols of a channel
          ReqId,       \* request identifiers
          Types,       \* number of subscription types, the managers_ tuple
          Timeout      \* ProgressPolicy::timeout_ns, in ticks

ASSUME TypesAssumption == Types \in Nat \ {0}
ASSUME TimeoutAssumption == Timeout \in Nat

VARIABLES managers,    \* managers_
          stale        \* now - last_progress_ns_, capped just past Timeout

vars == <<managers, stale>>

Domain == 1 .. Types

Init ==
    /\ managers = [d \in Domain |-> NoSubscriptions]
    /\ stale = 0

mark_progress == stale' = 0

Register(d, m) ==
    /\ managers' = [managers EXCEPT ![d] = m]
    /\ mark_progress

RegisterSubscription(d, S, r) ==
    Register(d, register_subscription(managers[d], S, r))

RegisterUnsubscription(d, S, r) ==
    Register(d, register_unsubscription(managers[d], S, r))

(* Progress is marked when the manager knew the symbol, even when the ACK  *)
(* answers another request.                                                *)
SubscribeAck(d, r, s, success) ==
    /\ managers' = [managers EXCEPT
                      ![d] = process_subscribe_ack(@, r, s, success)]
    /\ IF contains(managers[d].subs, s) THEN mark_progress ELSE UNCHANGED stale

UnsubscribeAck(d, r, s, success) ==
    /\ managers' = [managers EXCEPT
                      ![d] = process_unsubscribe_ack(@, r, s, success)]
    /\ IF contains(managers[d].unsubs, s) THEN mark_progress ELSE UNCHANGED stale

(* The first manager of the tuple that owns (r, s) takes the rejection.    *)
Taker(r, s) ==
    {d \in Domain : /\ rejects(managers[d], r, s)
                    /\ \A e \in Domain : rejects(managers[e], r, s) => d <= e}

Rejection(r, s) ==
    /\ managers' = [d \in Domain |->
                      IF d \in Taker(r, s)
                      THEN try_process_rejection(managers[d], r, s)
                      ELSE managers[d]]
    /\ IF Taker(r, s) # {} THEN mark_progress ELSE UNCHANGED stale

clear_all ==
    /\ managers' = [d \in Domain |-> NoSubscriptions]
    /\ mark_progress

(* The monotonic clock advances.                                           *)
Tick ==
    /\ stale <= Timeout
    /\ stale' = stale + 1
    /\ UNCHANGED managers

Next ==
    \/ \E d \in Domain, r \in ReqId :
          \/ \E S \in (SUBSET Symbol) \ {{}} :
                RegisterSubscription(d, S, r) \/ RegisterUnsubscription(d, S, r)
          \/ \E s \in Symbol, success \in BOOLEAN :
                SubscribeAck(d, r, s, success) \/ UnsubscribeAck(d, r, s, success)
    \/ \E r \in ReqId, s \in Symbol : Rejection(r, s)
    \/ clear_all
    \/ Tick

Spec == Init /\ [][Next]_vars

-----------------------------------------------------------------------------

is_quiescent == \A d \in Domain : ~has_pending_requests(managers[d])

is_idle == is_quiescent \/ stale > Timeout

(* The values a PendingRequests object and a Manager object can take.      *)
PendingType(p) ==
    /\ p = [requests |-> p.requests, symbols |-> p.symbols]
    /\ p.symbols \subseteq Symbol
    /\ DOMAIN p.requests \subseteq ReqId
    /\ p.requests = [r \in DOMAIN p.requests |-> p.requests[r]]

ManagerType(m) ==
    /\ m = [active |-> m.active, subs |-> m.subs, unsubs |-> m.unsubs]
    /\ m.active \subseteq Symbol
    /\ PendingType(m.subs)
    /\ PendingType(m.unsubs)

(* Type correctness of the tuple of managers and of the progress clock.    *)
TypeOK ==
    /\ managers = [d \in Domain |-> managers[d]]
    /\ \A d \in Domain : ManagerType(managers[d])
    /\ stale \in 0 .. Timeout + 1

(* Whatever the order of requests, ACKs and rejections, each manager's     *)
(* three containers agree: no symbol waits in two requests, none is asked  *)
(* for while active, and one being given up is still active.  So           *)
(* total_symbols() counts no symbol twice and remove(sid) never reaches    *)
(* its LCR_UNREACHABLE().                                                  *)
ManagersConsistent ==
    /\ TypeOK
    /\ \A d \in Domain : ManagerConsistent(managers[d])

(* A symbol becomes active only by leaving the pending subscriptions, and  *)
(* stops being active only by leaving the pending unsubscriptions or when  *)
(* clear_all() empties the manager: an ACK that answers a cancelled, an    *)
(* unknown or an already answered request never moves the active set.      *)
ActiveOnlyByAck ==
    [][\A d \in Domain :
         LET m == managers[d]
             n == managers'[d]
         IN  /\ n.active \ m.active \subseteq m.subs.symbols \ n.subs.symbols
             /\ \/ n = NoSubscriptions
                \/ m.active \ n.active \subseteq m.unsubs.symbols \ n.unsubs.symbols
      ]_vars

=============================================================================

------------------------- MODULE SubscriptionProofs -------------------------
(***************************************************************************)
(* Proofs about the subscription controller, for any sets of symbols and   *)
(* request identifiers and any number of channels.                         *)
(***************************************************************************)
EXTENDS SubscriptionController, TLAPS

(* What the type and the consistency of a PendingRequests object say about *)
(* its members, symbol by symbol: the form the provers use.                *)
Sound(p) ==
    /\ p = [requests |-> p.requests, symbols |-> p.symbols]
    /\ p.symbols \subseteq Symbol
    /\ DOMAIN p.requests \subseteq ReqId
    /\ p.requests = [r \in DOMAIN p.requests |-> p.requests[r]]
    /\ \A r \in DOMAIN p.requests : \E s : s \in p.requests[r]
    /\ \A r, q \in DOMAIN p.requests : \A s :
          s \in p.requests[r] /\ s \in p.requests[q] => r = q
    /\ \A s : s \in p.symbols <=> \E r \in DOMAIN p.requests : s \in p.requests[r]

(* Sound is the type and the consistency of a PendingRequests object.      *)
LEMMA SoundIsConsistent ==
    ASSUME NEW p
    PROVE  Sound(p) <=> PendingType(p) /\ Consistent(p)
<1>1. (\A r \in DOMAIN p.requests : p.requests[r] # {})
        <=> \A r \in DOMAIN p.requests : \E s : s \in p.requests[r]
  OBVIOUS
<1>2. (\A r, q \in DOMAIN p.requests : r # q => p.requests[r] \cap p.requests[q] = {})
        <=> \A r, q \in DOMAIN p.requests : \A s :
               s \in p.requests[r] /\ s \in p.requests[q] => r = q
  OBVIOUS
<1>3. p.symbols = UNION {p.requests[r] : r \in DOMAIN p.requests}
        <=> \A s : s \in p.symbols <=> \E r \in DOMAIN p.requests : s \in p.requests[r]
  OBVIOUS
<1> QED
  BY <1>1, <1>2, <1>3 DEF Sound, PendingType, Consistent

(* A new object has no requests.                                           *)
LEMMA NoRequestsSound == Sound(NoRequests)
BY DEF Sound, NoRequests

(* add() of symbols that are not pending keeps the object sound and makes  *)
(* exactly those symbols pending.                                          *)
LEMMA AddSound ==
    ASSUME NEW p, Sound(p), NEW r \in ReqId, NEW S, S \subseteq Symbol,
           S \cap p.symbols = {}
    PROVE  /\ Sound(add(p, r, S))
           /\ add(p, r, S).symbols = p.symbols \cup S
<1> DEFINE E == Entry(p, r) \cup (S \ p.symbols)
           a == add(p, r, S)
<1>1. a = [requests |-> SetEntry(p.requests, r, E), symbols |-> p.symbols \cup S]
  BY DEF add
<1>2. a.symbols = p.symbols \cup S /\ a.requests = SetEntry(p.requests, r, E)
  BY <1>1
<1>3. CASE E = {}
  <2>1. S = {} /\ r \notin DOMAIN p.requests
    BY <1>3 DEF Entry, Sound
  <2>2. a.requests = [q \in DOMAIN p.requests |-> p.requests[q]]
    BY <1>2, <1>3, <2>1 DEF SetEntry
  <2>3. a.requests = p.requests /\ a.symbols = p.symbols
    BY <1>2, <2>1, <2>2 DEF Sound
  <2> QED
    BY <1>1, <1>2, <2>3 DEF Sound
<1>4. CASE E # {}
  <2>1. a.requests = [q \in DOMAIN p.requests \cup {r} |->
                         IF q = r THEN E ELSE p.requests[q]]
    BY <1>2, <1>4 DEF SetEntry
  <2>2. E = (IF r \in DOMAIN p.requests THEN p.requests[r] ELSE {}) \cup S
    BY DEF Entry
  <2> HIDE DEF E
  <2>3. DOMAIN a.requests = DOMAIN p.requests \cup {r}
    BY <2>1
  <2>4. a.requests[r] = E /\ \A q \in DOMAIN p.requests \ {r} : a.requests[q] = p.requests[q]
    BY <2>1
  <2>5. \A q \in DOMAIN a.requests : \E s : s \in a.requests[q]
    BY <1>4, <2>3, <2>4 DEF Sound
  <2>6. \A q, x \in DOMAIN a.requests : \A s :
           s \in a.requests[q] /\ s \in a.requests[x] => q = x
    BY <2>2, <2>3, <2>4 DEF Sound
  <2>7. \A s : s \in a.symbols <=> \E q \in DOMAIN a.requests : s \in a.requests[q]
    <3> SUFFICES ASSUME NEW s
                 PROVE  s \in a.symbols <=> \E q \in DOMAIN a.requests : s \in a.requests[q]
      OBVIOUS
    <3>1. s \in p.symbols <=> \E q \in DOMAIN p.requests : s \in p.requests[q]
      BY DEF Sound
    <3>2. s \in a.symbols <=> s \in p.symbols \/ s \in S
      BY <1>2
    <3>3. s \in E <=> s \in S \/ (r \in DOMAIN p.requests /\ s \in p.requests[r])
      BY <2>2
    <3>4. ASSUME s \in a.symbols
          PROVE  \E q \in DOMAIN a.requests : s \in a.requests[q]
      BY <2>3, <2>4, <3>1, <3>2, <3>3, <3>4
    <3>5. ASSUME NEW q \in DOMAIN a.requests, s \in a.requests[q]
          PROVE  s \in a.symbols
      BY <2>3, <2>4, <3>1, <3>2, <3>3, <3>5
    <3> QED
      BY <3>4, <3>5
  <2>8. a.requests = [q \in DOMAIN a.requests |-> a.requests[q]]
    BY <2>1
  <2>9. a = [requests |-> a.requests, symbols |-> a.symbols]
    BY <1>1
  <2>10. a.symbols \subseteq Symbol /\ DOMAIN a.requests \subseteq ReqId
    BY <1>2, <2>3 DEF Sound
  <2> QED
    BY <1>2, <2>5, <2>6, <2>7, <2>8, <2>9, <2>10 DEF Sound
<1> QED
  BY <1>3, <1>4

(* remove(req_id, sid) takes exactly that symbol out, or changes nothing.  *)
LEMMA RemoveSound ==
    ASSUME NEW p, Sound(p), NEW r, NEW s
    PROVE  /\ Sound(remove(p, r, s))
           /\ remove(p, r, s).symbols =
                 IF removes(p, r, s) THEN p.symbols \ {s} ELSE p.symbols
<1> DEFINE E == p.requests[r] \ {s}
           a == remove(p, r, s)
<1>1. CASE ~removes(p, r, s)
  BY <1>1 DEF remove
<1>2. CASE removes(p, r, s)
  <2>1. r \in DOMAIN p.requests /\ s \in p.requests[r] /\ Entry(p, r) = p.requests[r]
    BY <1>2 DEF removes, Entry
  <2>2. a = [requests |-> SetEntry(p.requests, r, E), symbols |-> p.symbols \ {s}]
    BY <1>2, <2>1 DEF remove
  <2>3. a.symbols = p.symbols \ {s} /\ a.requests = SetEntry(p.requests, r, E)
    BY <2>2
  <2>4. a = [requests |-> a.requests, symbols |-> a.symbols]
    BY <2>2
  <2>5. /\ DOMAIN a.requests = IF E = {} THEN DOMAIN p.requests \ {r} ELSE DOMAIN p.requests
        /\ a.requests = [q \in DOMAIN a.requests |-> a.requests[q]]
        /\ \A q \in DOMAIN a.requests :
              a.requests[q] = IF q = r THEN E ELSE p.requests[q]
    BY <2>1, <2>3 DEF SetEntry
  <2>6. \A x : x \in E <=> x \in p.requests[r] /\ x # s
    OBVIOUS
  <2>7. a.symbols \subseteq Symbol /\ DOMAIN a.requests \subseteq ReqId
    BY <2>3, <2>5 DEF Sound
  <2> HIDE DEF E, a
  <2>8. \A q \in DOMAIN a.requests : \E x : x \in a.requests[q]
    BY <2>5 DEF Sound
  <2>9. \A q, y \in DOMAIN a.requests : \A x :
           x \in a.requests[q] /\ x \in a.requests[y] => q = y
    BY <2>5, <2>6 DEF Sound
  <2>10. \A x : x \in a.symbols <=> \E q \in DOMAIN a.requests : x \in a.requests[q]
    <3> SUFFICES ASSUME NEW x
                 PROVE  x \in a.symbols <=> \E q \in DOMAIN a.requests : x \in a.requests[q]
      OBVIOUS
    <3>1. x \in p.symbols <=> \E q \in DOMAIN p.requests : x \in p.requests[q]
      BY DEF Sound
    <3>2. x \in a.symbols <=> x \in p.symbols /\ x # s
      BY <2>3
    <3>3. ASSUME x \in a.symbols
          PROVE  \E q \in DOMAIN a.requests : x \in a.requests[q]
      <4>1. PICK q \in DOMAIN p.requests : x \in p.requests[q]
        BY <3>1, <3>2, <3>3
      <4>2. q \in DOMAIN a.requests
        BY <2>5, <2>6, <3>2, <3>3, <4>1
      <4>3. x \in a.requests[q]
        BY <2>5, <2>6, <3>2, <3>3, <4>1, <4>2
      <4> QED
        BY <4>2, <4>3
    <3>4. ASSUME NEW q \in DOMAIN a.requests, x \in a.requests[q]
          PROVE  x \in a.symbols
      <4>1. q \in DOMAIN p.requests /\ x \in p.requests[q]
        BY <2>1, <2>5, <2>6, <3>4
      <4>2. x # s
        <5>1. CASE q = r
          BY <2>5, <2>6, <3>4, <5>1
        <5>2. CASE q # r
          BY <2>1, <4>1, <5>2 DEF Sound
        <5> QED
          BY <5>1, <5>2
      <4> QED
        BY <3>1, <3>2, <4>1, <4>2
    <3> QED
      BY <3>3, <3>4
  <2>11. Sound(a)
    BY <2>4, <2>5, <2>7, <2>8, <2>9, <2>10 DEF Sound
  <2> QED
    BY <1>2, <2>3, <2>11 DEF a
<1> QED
  BY <1>1, <1>2

(* remove(sid) for a set of symbols takes exactly those symbols out.       *)
LEMMA RemoveOwnedSound ==
    ASSUME NEW p, Sound(p), NEW S
    PROVE  /\ Sound(remove_owned(p, S))
           /\ remove_owned(p, S).symbols = p.symbols \ S
<1> DEFINE a == remove_owned(p, S)
           D == {x \in DOMAIN p.requests : p.requests[x] \ S # {}}
<1>1. a = [requests |-> [r \in D |-> p.requests[r] \ S], symbols |-> p.symbols \ S]
  BY DEF remove_owned
<1>2. a.symbols = p.symbols \ S /\ a.requests = [r \in D |-> p.requests[r] \ S]
  BY <1>1
<1>3. a = [requests |-> a.requests, symbols |-> a.symbols]
  BY <1>1
<1>4. /\ DOMAIN a.requests = D
      /\ a.requests = [r \in DOMAIN a.requests |-> a.requests[r]]
      /\ \A r \in D : a.requests[r] = p.requests[r] \ S
  BY <1>2
<1>5. a.symbols \subseteq Symbol /\ DOMAIN a.requests \subseteq ReqId
  BY <1>2, <1>4 DEF Sound
<1>6. \A r \in DOMAIN a.requests : \E s : s \in a.requests[r]
  BY <1>4
<1>7. \A r, q \in DOMAIN a.requests : \A s :
         s \in a.requests[r] /\ s \in a.requests[q] => r = q
  BY <1>4 DEF Sound
<1>8. \A s : s \in a.symbols <=> \E r \in DOMAIN a.requests : s \in a.requests[r]
  BY <1>2, <1>4 DEF Sound
<1> QED
  BY <1>2, <1>3, <1>4, <1>5, <1>6, <1>7, <1>8 DEF Sound

-----------------------------------------------------------------------------
(* The managers.                                                           *)

(* The type and the consistency of a manager.                              *)
SoundManager(m) ==
    /\ m = [active |-> m.active, subs |-> m.subs, unsubs |-> m.unsubs]
    /\ m.active \subseteq Symbol
    /\ Sound(m.subs) /\ Sound(m.unsubs)
    /\ m.active \cap m.subs.symbols = {}
    /\ m.unsubs.symbols \subseteq m.active

(* How a step of one manager may move its active set.                      *)
Moves(m, n) ==
    /\ n.active \ m.active \subseteq m.subs.symbols \ n.subs.symbols
    /\ m.active \ n.active \subseteq m.unsubs.symbols \ n.unsubs.symbols

(* SoundManager is the type and the consistency of a manager.              *)
LEMMA SoundManagerIsConsistent ==
    ASSUME NEW m
    PROVE  SoundManager(m) <=> ManagerType(m) /\ ManagerConsistent(m)
<1>1. /\ Sound(m.subs) <=> PendingType(m.subs) /\ Consistent(m.subs)
      /\ Sound(m.unsubs) <=> PendingType(m.unsubs) /\ Consistent(m.unsubs)
  BY SoundIsConsistent
<1> QED
  BY <1>1 DEF SoundManager, ManagerType, ManagerConsistent

(* A new manager, and one that clear_all() has emptied, is sound.          *)
LEMMA NoSubscriptionsSound == SoundManager(NoSubscriptions)
<1>1. /\ NoSubscriptions.active = {}
      /\ NoSubscriptions.subs = NoRequests /\ NoSubscriptions.unsubs = NoRequests
      /\ NoRequests.symbols = {}
  BY DEF NoSubscriptions, NoRequests
<1> QED
  BY <1>1, NoRequestsSound DEF SoundManager, NoSubscriptions

(* Subscribing keeps a manager sound and leaves its active set alone: the  *)
(* revival of a pending unsubscription never happens.                      *)
LEMMA SubscribeSound ==
    ASSUME NEW m, SoundManager(m), NEW r \in ReqId, NEW S, S \subseteq Symbol
    PROVE  /\ SoundManager(register_subscription(m, S, r))
           /\ Moves(m, register_subscription(m, S, r))
<1> DEFINE n == register_subscription(m, S, r)
           R == (S \cap m.unsubs.symbols) \ (m.active \cup m.subs.symbols)
<1>1. R = {}
  BY DEF SoundManager
<1>2. n = [active |-> m.active \cup R, subs |-> add(m.subs, r, accepted(m, S)),
           unsubs |-> remove_owned(m.unsubs, R)]
  BY DEF register_subscription
<1>3. /\ n.active = m.active
      /\ n.subs = add(m.subs, r, accepted(m, S))
      /\ n.unsubs = remove_owned(m.unsubs, R)
  BY <1>1, <1>2
<1>4. n = [active |-> n.active, subs |-> n.subs, unsubs |-> n.unsubs]
  BY <1>2
<1>5. accepted(m, S) \subseteq Symbol /\ accepted(m, S) \cap m.subs.symbols = {}
        /\ accepted(m, S) \cap m.active = {}
  BY DEF accepted
<1>6. Sound(n.subs) /\ n.subs.symbols = m.subs.symbols \cup accepted(m, S)
  BY <1>3, <1>5, AddSound DEF SoundManager
<1>7. Sound(n.unsubs) /\ n.unsubs.symbols = m.unsubs.symbols \ R
  BY <1>3, RemoveOwnedSound DEF SoundManager
<1> HIDE DEF n, R
<1>8. SoundManager(n)
  BY <1>1, <1>3, <1>4, <1>5, <1>6, <1>7 DEF SoundManager
<1>9. Moves(m, n)
  BY <1>3 DEF Moves
<1> QED
  BY <1>8, <1>9 DEF n

(* Unsubscribing keeps a manager sound and leaves its active set alone.    *)
LEMMA UnsubscribeSound ==
    ASSUME NEW m, SoundManager(m), NEW r \in ReqId, NEW S, S \subseteq Symbol
    PROVE  /\ SoundManager(register_unsubscription(m, S, r))
           /\ Moves(m, register_unsubscription(m, S, r))
<1> DEFINE n == register_unsubscription(m, S, r)
           F == ((S \ m.subs.symbols) \cap m.active) \ m.unsubs.symbols
<1>1. n = [m EXCEPT !.subs = remove_owned(@, cancelled(m, S)),
                    !.unsubs = add(@, r, F)]
  BY DEF register_unsubscription
<1>2. /\ n.active = m.active
      /\ n.subs = remove_owned(m.subs, cancelled(m, S))
      /\ n.unsubs = add(m.unsubs, r, F)
      /\ n = [active |-> n.active, subs |-> n.subs, unsubs |-> n.unsubs]
  BY <1>1 DEF SoundManager
<1>3. F \subseteq Symbol /\ F \cap m.unsubs.symbols = {} /\ F \subseteq m.active
  OBVIOUS
<1>4. Sound(n.subs) /\ n.subs.symbols = m.subs.symbols \ cancelled(m, S)
  BY <1>2, RemoveOwnedSound DEF SoundManager
<1>5. Sound(n.unsubs) /\ n.unsubs.symbols = m.unsubs.symbols \cup F
  BY <1>2, <1>3, AddSound DEF SoundManager
<1> HIDE DEF n, F
<1>6. SoundManager(n)
  BY <1>2, <1>3, <1>4, <1>5 DEF SoundManager
<1>7. Moves(m, n)
  BY <1>2 DEF Moves
<1> QED
  BY <1>6, <1>7 DEF n

(* An ACK of a subscription keeps a manager sound; it activates a symbol   *)
(* only while taking it out of the pending subscriptions.                  *)
LEMMA SubscribeAckSound ==
    ASSUME NEW m, SoundManager(m), NEW r, NEW s, NEW success
    PROVE  /\ SoundManager(process_subscribe_ack(m, r, s, success))
           /\ Moves(m, process_subscribe_ack(m, r, s, success))
<1> DEFINE n == process_subscribe_ack(m, r, s, success)
<1>1. CASE ~(contains(m.subs, s) /\ removes(m.subs, r, s))
  <2>1. n = m
    BY <1>1 DEF process_subscribe_ack
  <2> QED
    BY <2>1 DEF Moves
<1>2. CASE contains(m.subs, s) /\ removes(m.subs, r, s)
  <2>1. n = [m EXCEPT !.subs = remove(@, r, s),
                      !.active = IF success THEN @ \cup {s} ELSE @]
    BY <1>2 DEF process_subscribe_ack
  <2>2. /\ n.active = IF success THEN m.active \cup {s} ELSE m.active
        /\ n.subs = remove(m.subs, r, s) /\ n.unsubs = m.unsubs
        /\ n = [active |-> n.active, subs |-> n.subs, unsubs |-> n.unsubs]
    BY <2>1 DEF SoundManager
  <2>3. Sound(n.subs) /\ n.subs.symbols = m.subs.symbols \ {s}
    BY <1>2, <2>2, RemoveSound DEF SoundManager
  <2>4. s \in m.subs.symbols /\ s \in Symbol
    BY <1>2 DEF contains, SoundManager, Sound
  <2> HIDE DEF n
  <2>5. SoundManager(n)
    BY <2>2, <2>3, <2>4 DEF SoundManager
  <2>6. Moves(m, n)
    BY <2>2, <2>3, <2>4 DEF Moves
  <2> QED
    BY <2>5, <2>6 DEF n
<1> QED
  BY <1>1, <1>2

(* An ACK of an unsubscription keeps a manager sound; it deactivates a     *)
(* symbol only while taking it out of the pending unsubscriptions.         *)
LEMMA UnsubscribeAckSound ==
    ASSUME NEW m, SoundManager(m), NEW r, NEW s, NEW success
    PROVE  /\ SoundManager(process_unsubscribe_ack(m, r, s, success))
           /\ Moves(m, process_unsubscribe_ack(m, r, s, success))
<1> DEFINE n == process_unsubscribe_ack(m, r, s, success)
<1>1. CASE ~(contains(m.unsubs, s) /\ removes(m.unsubs, r, s))
  <2>1. n = m
    BY <1>1 DEF process_unsubscribe_ack
  <2> QED
    BY <2>1 DEF Moves
<1>2. CASE contains(m.unsubs, s) /\ removes(m.unsubs, r, s)
  <2>1. n = [m EXCEPT !.unsubs = remove(@, r, s),
                      !.active = IF success THEN @ \ {s} ELSE @]
    BY <1>2 DEF process_unsubscribe_ack
  <2>2. /\ n.active = IF success THEN m.active \ {s} ELSE m.active
        /\ n.unsubs = remove(m.unsubs, r, s) /\ n.subs = m.subs
        /\ n = [active |-> n.active, subs |-> n.subs, unsubs |-> n.unsubs]
    BY <2>1 DEF SoundManager
  <2>3. Sound(n.unsubs) /\ n.unsubs.symbols = m.unsubs.symbols \ {s}
    BY <1>2, <2>2, RemoveSound DEF SoundManager
  <2>4. s \in m.unsubs.symbols
    BY <1>2 DEF contains
  <2> HIDE DEF n
  <2>5. SoundManager(n)
    BY <2>2, <2>3, <2>4 DEF SoundManager
  <2>6. Moves(m, n)
    BY <2>2, <2>3, <2>4 DEF Moves
  <2> QED
    BY <2>5, <2>6 DEF n
<1> QED
  BY <1>1, <1>2

(* A rejection keeps a manager sound and leaves its active set alone.      *)
LEMMA RejectionSound ==
    ASSUME NEW m, SoundManager(m), NEW r, NEW s
    PROVE  /\ SoundManager(try_process_rejection(m, r, s))
           /\ Moves(m, try_process_rejection(m, r, s))
<1> DEFINE n == try_process_rejection(m, r, s)
<1>1. /\ n.active = m.active
      /\ n.subs = m.subs \/ n.subs = remove(m.subs, r, s)
      /\ n.unsubs = m.unsubs \/ n.unsubs = remove(m.unsubs, r, s)
      /\ n = [active |-> n.active, subs |-> n.subs, unsubs |-> n.unsubs]
  BY DEF try_process_rejection, SoundManager
<1> HIDE DEF n
<1>a. \A p : Sound(p) => /\ Sound(remove(p, r, s))
                        /\ remove(p, r, s).symbols \subseteq p.symbols
  <2> SUFFICES ASSUME NEW p, Sound(p)
               PROVE  /\ Sound(remove(p, r, s))
                      /\ remove(p, r, s).symbols \subseteq p.symbols
    OBVIOUS
  <2> QED
    BY RemoveSound
<1>2. Sound(n.subs) /\ n.subs.symbols \subseteq m.subs.symbols
  BY <1>1, <1>a DEF SoundManager
<1>3. Sound(n.unsubs) /\ n.unsubs.symbols \subseteq m.unsubs.symbols
  BY <1>1, <1>a DEF SoundManager
<1>4. SoundManager(n)
  BY <1>1, <1>2, <1>3 DEF SoundManager
<1>5. Moves(m, n)
  BY <1>1 DEF Moves
<1> QED
  BY <1>4, <1>5 DEF n

-----------------------------------------------------------------------------
(* The controller.                                                         *)

(* The inductive invariant, in the form of the lemmas above.               *)
IInv ==
    /\ managers = [d \in Domain |-> managers[d]]
    /\ \A d \in Domain : SoundManager(managers[d])
    /\ stale \in 0 .. Timeout + 1

(* The inductive invariant is the invariant the runs check.                *)
LEMMA IInvIsManagersConsistent == IInv <=> ManagersConsistent
<1>1. (\A d \in Domain : SoundManager(managers[d]))
        <=> /\ \A d \in Domain : ManagerType(managers[d])
            /\ \A d \in Domain : ManagerConsistent(managers[d])
  BY SoundManagerIsConsistent
<1> QED
  BY <1>1 DEF IInv, ManagersConsistent, TypeOK

(* What a step does to the managers: each stays sound; it is emptied, or   *)
(* its active set moves as an ACK may move it.                             *)
Step ==
    /\ managers' = [d \in Domain |-> managers'[d]]
    /\ \A d \in Domain :
          /\ SoundManager(managers'[d])
          /\ managers'[d] = NoSubscriptions \/ Moves(managers[d], managers'[d])
    /\ stale' \in 0 .. Timeout + 1

(* Replacing one manager by a sound one that moves as an ACK may.          *)
LEMMA OneManagerSteps ==
    ASSUME IInv, NEW d \in Domain, NEW m,
           managers' = [managers EXCEPT ![d] = m],
           SoundManager(m), Moves(managers[d], m),
           stale' \in 0 .. Timeout + 1
    PROVE  Step
<1>1. \A e \in Domain : managers'[e] = IF e = d THEN m ELSE managers[e]
  BY DEF IInv
<1>2. managers' = [e \in Domain |-> managers'[e]]
  BY DEF IInv
<1>3. \A e \in Domain : Moves(managers[e], managers[e])
  BY DEF Moves
<1> QED
  BY <1>1, <1>2, <1>3 DEF Step, IInv

(* Every step of the controller is such a step.                            *)
LEMMA NextSteps ==
    ASSUME IInv, [Next]_vars
    PROVE  Step
<1> USE TimeoutAssumption
<1>1. 0 \in 0 .. Timeout + 1 /\ stale \in 0 .. Timeout + 1
  BY DEF IInv
<1>2. ASSUME NEW d \in Domain, NEW r \in ReqId, NEW S \in (SUBSET Symbol) \ {{}},
             RegisterSubscription(d, S, r)
      PROVE  Step
  <2>1. SoundManager(managers[d]) /\ S \subseteq Symbol
    BY DEF IInv
  <2>2. /\ SoundManager(register_subscription(managers[d], S, r))
        /\ Moves(managers[d], register_subscription(managers[d], S, r))
    BY <2>1, SubscribeSound
  <2> QED
    BY <1>1, <1>2, <2>2, OneManagerSteps
    DEF RegisterSubscription, Register, mark_progress
<1>3. ASSUME NEW d \in Domain, NEW r \in ReqId, NEW S \in (SUBSET Symbol) \ {{}},
             RegisterUnsubscription(d, S, r)
      PROVE  Step
  <2>1. SoundManager(managers[d]) /\ S \subseteq Symbol
    BY DEF IInv
  <2>2. /\ SoundManager(register_unsubscription(managers[d], S, r))
        /\ Moves(managers[d], register_unsubscription(managers[d], S, r))
    BY <2>1, UnsubscribeSound
  <2> QED
    BY <1>1, <1>3, <2>2, OneManagerSteps
    DEF RegisterUnsubscription, Register, mark_progress
<1>4. ASSUME NEW d \in Domain, NEW r \in ReqId, NEW s \in Symbol, NEW success \in BOOLEAN,
             SubscribeAck(d, r, s, success)
      PROVE  Step
  <2>1. /\ SoundManager(process_subscribe_ack(managers[d], r, s, success))
        /\ Moves(managers[d], process_subscribe_ack(managers[d], r, s, success))
    BY SubscribeAckSound DEF IInv
  <2>2. /\ managers' = [managers EXCEPT ![d] =
                           process_subscribe_ack(managers[d], r, s, success)]
        /\ stale' \in 0 .. Timeout + 1
    BY <1>1, <1>4 DEF SubscribeAck, mark_progress, IInv
  <2> QED
    BY <2>1, <2>2, OneManagerSteps
<1>5. ASSUME NEW d \in Domain, NEW r \in ReqId, NEW s \in Symbol, NEW success \in BOOLEAN,
             UnsubscribeAck(d, r, s, success)
      PROVE  Step
  <2>1. /\ SoundManager(process_unsubscribe_ack(managers[d], r, s, success))
        /\ Moves(managers[d], process_unsubscribe_ack(managers[d], r, s, success))
    BY UnsubscribeAckSound DEF IInv
  <2>2. /\ managers' = [managers EXCEPT ![d] =
                           process_unsubscribe_ack(managers[d], r, s, success)]
        /\ stale' \in 0 .. Timeout + 1
    BY <1>1, <1>5 DEF UnsubscribeAck, mark_progress, IInv
  <2> QED
    BY <2>1, <2>2, OneManagerSteps
<1>6. ASSUME NEW r \in ReqId, NEW s \in Symbol, Rejection(r, s)
      PROVE  Step
  <2>1. managers' = [d \in Domain |->
                       IF d \in Taker(r, s)
                       THEN try_process_rejection(managers[d], r, s)
                       ELSE managers[d]]
    BY <1>6 DEF Rejection
  <2>2. \A d \in Domain :
           managers'[d] \in {managers[d], try_process_rejection(managers[d], r, s)}
    BY <2>1
  <2>3. \A d \in Domain :
           /\ SoundManager(try_process_rejection(managers[d], r, s))
           /\ Moves(managers[d], try_process_rejection(managers[d], r, s))
           /\ SoundManager(managers[d]) /\ Moves(managers[d], managers[d])
    BY RejectionSound DEF IInv, Moves
  <2>4. \A d \in Domain :
           SoundManager(managers'[d]) /\ Moves(managers[d], managers'[d])
    BY <2>2, <2>3
  <2>5. managers' = [d \in Domain |-> managers'[d]]
    BY <2>1
  <2>6. stale' \in 0 .. Timeout + 1
    BY <1>1, <1>6 DEF Rejection, mark_progress
  <2> QED
    BY <2>4, <2>5, <2>6 DEF Step
<1>7. CASE clear_all
  BY <1>1, <1>7, NoSubscriptionsSound DEF clear_all, mark_progress, Step
<1>8. CASE Tick \/ UNCHANGED vars
  <2>1. managers' = managers
    BY <1>8 DEF Tick, vars
  <2>2. stale' \in 0 .. Timeout + 1
    BY <1>1, <1>8 DEF Tick, vars
  <2>3. \A d \in Domain : Moves(managers[d], managers[d])
    BY DEF Moves
  <2> QED
    BY <2>1, <2>2, <2>3 DEF Step, IInv
<1> QED
  BY <1>2, <1>3, <1>4, <1>5, <1>6, <1>7, <1>8 DEF Next

(* In every order of requests, ACKs and rejections, for every number of    *)
(* channels and any symbols and request identifiers, the three containers  *)
(* of each manager agree.                                                  *)
THEOREM ControllerConsistent == Spec => []ManagersConsistent
<1>1. Init => IInv
  BY NoSubscriptionsSound, TimeoutAssumption DEF Init, IInv
<1>2. IInv /\ [Next]_vars => IInv'
  BY NextSteps DEF IInv, Step
<1>3. IInv => ManagersConsistent
  BY IInvIsManagersConsistent
<1> QED
  BY <1>1, <1>2, <1>3, PTL DEF Spec

(* The active set of a channel moves only by an ACK of a request that the  *)
(* symbol is waiting for, or when clear_all() empties the channel.         *)
THEOREM ActiveMovesOnlyByAck == Spec => ActiveOnlyByAck
<1>1. Init => IInv
  BY NoSubscriptionsSound, TimeoutAssumption DEF Init, IInv
<1>2. IInv /\ [Next]_vars => IInv'
  BY NextSteps DEF IInv, Step
<1>3. IInv /\ [Next]_vars =>
        [\A d \in Domain :
           LET m == managers[d]
               n == managers'[d]
           IN  /\ n.active \ m.active \subseteq m.subs.symbols \ n.subs.symbols
               /\ \/ n = NoSubscriptions
                  \/ m.active \ n.active \subseteq m.unsubs.symbols \ n.unsubs.symbols]_vars
  <2> SUFFICES ASSUME IInv, [Next]_vars, NEW d \in Domain
               PROVE  /\ managers'[d].active \ managers[d].active
                            \subseteq managers[d].subs.symbols \ managers'[d].subs.symbols
                      /\ \/ managers'[d] = NoSubscriptions
                         \/ managers[d].active \ managers'[d].active
                               \subseteq managers[d].unsubs.symbols \ managers'[d].unsubs.symbols
    OBVIOUS
  <2>1. managers'[d] = NoSubscriptions \/ Moves(managers[d], managers'[d])
    BY NextSteps DEF Step
  <2> QED
    BY <2>1 DEF Moves, NoSubscriptions
<1> QED
  BY <1>1, <1>2, <1>3, PTL DEF Spec, ActiveOnlyByAck

=============================================================================

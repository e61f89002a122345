---------------------------- MODULE ReplayProofs ----------------------------
(***************************************************************************)
(* Proofs about the replay database, for any sets of symbols and request   *)
(* identifiers and any number of channels.                                 *)
(***************************************************************************)
EXTENDS ReplayDatabase, TLAPS

(* The type of one table.                                                  *)
TableType(t) ==
    /\ t = [subs |-> t.subs, owner |-> t.owner]
    /\ t.subs = [r \in DOMAIN t.subs |-> t.subs[r]]
    /\ \A r \in DOMAIN t.subs :
          t.subs[r] = [s \in DOMAIN t.subs[r] |-> t.subs[r][s]]
    /\ t.owner = [s \in DOMAIN t.owner |-> t.owner[s]]
    /\ DOMAIN t.subs \subseteq ReqId
    /\ DOMAIN t.owner \subseteq Symbol

Sound(t) == TableType(t) /\ TableConsistent(t)

(* A symbol that stays in a table keeps its owner.                         *)
KeepsOwners(t, u) ==
    \A s \in DOMAIN t.owner \cap DOMAIN u.owner : u.owner[s] = t.owner[s]

(* A new table, and a cleared one, is sound and has no owners.             *)
LEMMA NoIntentSound ==
    Sound(NoIntent) /\ \A t : KeepsOwners(t, NoIntent)
BY DEF NoIntent, Sound, TableType, TableConsistent, KeepsOwners

(* A stored request takes only the symbols that had no owner.              *)
LEMMA AddSound ==
    ASSUME NEW t, Sound(t), NEW r \in ReqId, NEW symbols, DOMAIN symbols \subseteq Symbol
    PROVE  Sound(add(t, r, symbols)) /\ KeepsOwners(t, add(t, r, symbols))
<1> DEFINE kept == Drop(symbols, DOMAIN t.owner)
           u == add(t, r, symbols)
<1>1. CASE DOMAIN kept = {} \/ r \in DOMAIN t.subs
  <2>1. u = t
    BY <1>1 DEF add
  <2> QED
    BY <2>1 DEF KeepsOwners
<1>2. CASE ~(DOMAIN kept = {} \/ r \in DOMAIN t.subs)
  <2>1. u = [subs  |-> [q \in DOMAIN t.subs \cup {r} |->
                          IF q = r THEN kept ELSE t.subs[q]],
             owner |-> [s \in DOMAIN t.owner \cup DOMAIN kept |->
                          IF s \in DOMAIN kept THEN r ELSE t.owner[s]]]
    BY <1>2 DEF add
  <2>2. /\ DOMAIN kept \subseteq Symbol /\ DOMAIN kept \cap DOMAIN t.owner = {}
        /\ kept = [s \in DOMAIN kept |-> kept[s]]
    BY DEF Drop
  <2> HIDE DEF kept
  <2>3. /\ u = [subs |-> u.subs, owner |-> u.owner]
        /\ DOMAIN u.subs = DOMAIN t.subs \cup {r}
        /\ u.subs = [q \in DOMAIN u.subs |-> u.subs[q]]
        /\ \A q \in DOMAIN u.subs : u.subs[q] = IF q = r THEN kept ELSE t.subs[q]
        /\ DOMAIN u.owner = DOMAIN t.owner \cup DOMAIN kept
        /\ u.owner = [s \in DOMAIN u.owner |-> u.owner[s]]
        /\ \A s \in DOMAIN u.owner : u.owner[s] = IF s \in DOMAIN kept THEN r ELSE t.owner[s]
    BY <2>1
  <2> HIDE DEF u
  <2>4. TableType(u)
    BY <2>2, <2>3 DEF Sound, TableType
  <2>5. TableConsistent(u)
    <3>1. \A q \in DOMAIN u.subs : DOMAIN u.subs[q] # {}
      BY <1>2, <2>3 DEF Sound, TableConsistent, kept
    <3>2. ASSUME NEW q \in DOMAIN u.subs, NEW s \in DOMAIN u.subs[q]
          PROVE  s \in DOMAIN u.owner /\ u.owner[s] = q
      <4>1. CASE q = r
        BY <2>3, <3>2, <4>1
      <4>2. CASE q # r
        <5>1. q \in DOMAIN t.subs /\ s \in DOMAIN t.subs[q]
          BY <2>3, <3>2, <4>2
        <5>2. s \in DOMAIN t.owner /\ t.owner[s] = q
          BY <5>1 DEF Sound, TableConsistent
        <5> QED
          BY <2>2, <2>3, <5>2
      <4> QED
        BY <4>1, <4>2
    <3>3. ASSUME NEW s \in DOMAIN u.owner
          PROVE  u.owner[s] \in DOMAIN u.subs /\ s \in DOMAIN u.subs[u.owner[s]]
      <4>1. CASE s \in DOMAIN kept
        BY <2>3, <3>3, <4>1
      <4>2. CASE s \notin DOMAIN kept
        <5>1. s \in DOMAIN t.owner /\ u.owner[s] = t.owner[s]
          BY <2>3, <3>3, <4>2
        <5>2. t.owner[s] \in DOMAIN t.subs /\ s \in DOMAIN t.subs[t.owner[s]]
          BY <5>1 DEF Sound, TableConsistent
        <5>3. t.owner[s] # r
          BY <1>2, <5>2
        <5> QED
          BY <2>3, <5>1, <5>2, <5>3
      <4> QED
        BY <4>1, <4>2
    <3> QED
      BY <3>1, <3>2, <3>3 DEF TableConsistent
  <2>6. KeepsOwners(t, u)
    BY <2>2, <2>3 DEF KeepsOwners
  <2> QED
    BY <2>4, <2>5, <2>6 DEF Sound, u
<1> QED
  BY <1>1, <1>2

(* Taking a symbol out of its request and of the owner map.                *)
LEMMA EraseSound ==
    ASSUME NEW t, Sound(t), NEW r \in DOMAIN t.subs, NEW s \in DOMAIN t.subs[r],
           NEW u, u = [subs |-> EraseFrom(t, r, s), owner |-> Drop(t.owner, {s})]
    PROVE  Sound(u) /\ KeepsOwners(t, u)
<1> DEFINE left == Drop(t.subs[r], {s})
<1>1. /\ DOMAIN left = DOMAIN t.subs[r] \ {s}
      /\ left = [x \in DOMAIN left |-> left[x]]
  BY DEF Drop
<1>2. /\ u = [subs |-> u.subs, owner |-> u.owner]
      /\ u.subs = EraseFrom(t, r, s) /\ u.owner = Drop(t.owner, {s})
  OBVIOUS
<1>3. /\ DOMAIN u.owner = DOMAIN t.owner \ {s}
      /\ \A x \in DOMAIN u.owner : u.owner[x] = t.owner[x]
      /\ u.owner = [x \in DOMAIN u.owner |-> u.owner[x]]
  BY <1>2 DEF Drop
<1>4. s \in DOMAIN t.owner /\ t.owner[s] = r
  BY DEF Sound, TableConsistent
<1>5. /\ DOMAIN u.subs = IF DOMAIN left = {} THEN DOMAIN t.subs \ {r} ELSE DOMAIN t.subs
      /\ \A q \in DOMAIN u.subs : u.subs[q] = IF q = r THEN left ELSE t.subs[q]
      /\ u.subs = [q \in DOMAIN u.subs |-> u.subs[q]]
  <2>1. CASE DOMAIN left = {}
    <3>1. u.subs = Drop(t.subs, {r})
      BY <1>2, <2>1 DEF EraseFrom
    <3>2. DOMAIN u.subs = DOMAIN t.subs \ {r}
      BY <3>1 DEF Drop
    <3>3. \A q \in DOMAIN u.subs : u.subs[q] = t.subs[q]
      BY <3>1 DEF Drop
    <3>4. u.subs = [q \in DOMAIN u.subs |-> u.subs[q]]
      BY <3>1 DEF Drop
    <3> HIDE DEF left
    <3> QED
      BY <2>1, <3>2, <3>3, <3>4
  <2>2. CASE DOMAIN left # {}
    <3>1. u.subs = [t.subs EXCEPT ![r] = left]
      BY <1>2, <2>2 DEF EraseFrom
    <3> HIDE DEF left
    <3> QED
      BY <2>2, <3>1 DEF Sound, TableType
  <2> QED
    BY <2>1, <2>2
<1> HIDE DEF left
<1>6. TableType(u)
  <2>1. DOMAIN u.subs \subseteq ReqId /\ DOMAIN u.owner \subseteq Symbol
    BY <1>3, <1>5 DEF Sound, TableType
  <2>2. \A q \in DOMAIN u.subs : u.subs[q] = [x \in DOMAIN u.subs[q] |-> u.subs[q][x]]
    BY <1>1, <1>5 DEF Sound, TableType
  <2> QED
    BY <1>2, <1>3, <1>5, <2>1, <2>2 DEF TableType
<1>7. TableConsistent(u)
  <2>1. ASSUME NEW q \in DOMAIN u.subs
        PROVE  DOMAIN u.subs[q] # {}
    <3>1. CASE q = r
      <4>1. u.subs[q] = left /\ DOMAIN left # {}
        BY <1>5, <2>1, <3>1
      <4> QED
        BY <4>1
    <3>2. CASE q # r
      <4>1. u.subs[q] = t.subs[q] /\ q \in DOMAIN t.subs
        BY <1>5, <2>1, <3>2
      <4> QED
        BY <4>1 DEF Sound, TableConsistent
    <3> QED
      BY <3>1, <3>2
  <2>2. ASSUME NEW q \in DOMAIN u.subs, NEW x \in DOMAIN u.subs[q]
        PROVE  x \in DOMAIN u.owner /\ u.owner[x] = q
    <3>1. q \in DOMAIN t.subs /\ x \in DOMAIN t.subs[q] /\ (q = r => x # s)
      BY <1>1, <1>5, <2>2
    <3>2. x \in DOMAIN t.owner /\ t.owner[x] = q
      BY <3>1 DEF Sound, TableConsistent
    <3>3. x # s
      BY <1>4, <3>1, <3>2
    <3> QED
      BY <1>3, <3>2, <3>3
  <2>3. ASSUME NEW x \in DOMAIN u.owner
        PROVE  u.owner[x] \in DOMAIN u.subs /\ x \in DOMAIN u.subs[u.owner[x]]
    <3>1. x \in DOMAIN t.owner /\ x # s /\ u.owner[x] = t.owner[x]
      BY <1>3, <2>3
    <3>2. t.owner[x] \in DOMAIN t.subs /\ x \in DOMAIN t.subs[t.owner[x]]
      BY <3>1 DEF Sound, TableConsistent
    <3>3. t.owner[x] = r => x \in DOMAIN left
      BY <1>1, <3>1, <3>2
    <3>4. t.owner[x] \in DOMAIN u.subs
      BY <1>5, <3>2, <3>3
    <3> QED
      BY <1>5, <3>1, <3>2, <3>3, <3>4
  <2> QED
    BY <2>1, <2>2, <2>3 DEF TableConsistent
<1>8. KeepsOwners(t, u)
  BY <1>3 DEF KeepsOwners
<1> QED
  BY <1>6, <1>7, <1>8 DEF Sound

(* A rejection takes a symbol out, or changes nothing.                     *)
LEMMA RejectionSound ==
    ASSUME NEW t, Sound(t), NEW r, NEW s
    PROVE  /\ Sound(try_process_rejection(t, r, s))
           /\ KeepsOwners(t, try_process_rejection(t, r, s))
<1>1. CASE rejects(t, r, s)
  BY <1>1, EraseSound DEF rejects, try_process_rejection
<1>2. CASE ~rejects(t, r, s)
  BY <1>2 DEF try_process_rejection, KeepsOwners
<1> QED
  BY <1>1, <1>2

(* erase_symbol() takes a symbol out, or changes nothing; in a sound table *)
(* its repair branches are never taken.                                    *)
LEMMA EraseSymbolSound ==
    ASSUME NEW t, Sound(t), NEW s
    PROVE  Sound(erase_symbol(t, s)) /\ KeepsOwners(t, erase_symbol(t, s))
<1>1. CASE contains_symbol(t, s)
  <2>1. t.owner[s] \in DOMAIN t.subs /\ s \in DOMAIN t.subs[t.owner[s]]
    BY <1>1 DEF contains_symbol, Sound, TableConsistent
  <2>2. erase_symbol(t, s) = [subs  |-> EraseFrom(t, t.owner[s], s),
                              owner |-> Drop(t.owner, {s})]
    BY <1>1, <2>1 DEF erase_symbol
  <2> QED
    BY <2>1, <2>2, EraseSound
<1>2. CASE ~contains_symbol(t, s)
  BY <1>2 DEF erase_symbol, KeepsOwners
<1> QED
  BY <1>1, <1>2

-----------------------------------------------------------------------------

(* What a step does: every table stays sound and keeps its owners.         *)
Step ==
    /\ tables' = [d \in Domain |-> tables'[d]]
    /\ \A d \in Domain : Sound(tables'[d]) /\ KeepsOwners(tables[d], tables'[d])

IInv ==
    /\ tables = [d \in Domain |-> tables[d]]
    /\ \A d \in Domain : Sound(tables[d])

(* Replacing one table by a sound one that keeps its owners.               *)
LEMMA OneTableSteps ==
    ASSUME IInv, NEW d \in Domain, NEW t,
           tables' = [tables EXCEPT ![d] = t],
           Sound(t), KeepsOwners(tables[d], t)
    PROVE  Step
<1>1. \A e \in Domain : tables'[e] = IF e = d THEN t ELSE tables[e]
  BY DEF IInv
<1>2. tables' = [e \in Domain |-> tables'[e]]
  BY DEF IInv
<1>3. \A e \in Domain : KeepsOwners(tables[e], tables[e])
  BY DEF KeepsOwners
<1> QED
  BY <1>1, <1>2, <1>3 DEF Step, IInv

(* Every step of the database is such a step.                              *)
LEMMA NextSteps ==
    ASSUME IInv, [Next]_vars
    PROVE  Step
<1>1. ASSUME NEW d \in Domain, NEW r \in ReqId, NEW symbols \in Requests,
             Add(d, r, symbols)
      PROVE  Step
  <2>1. DOMAIN symbols \subseteq Symbol
    BY DEF Requests
  <2>2. Sound(add(tables[d], r, symbols)) /\ KeepsOwners(tables[d], add(tables[d], r, symbols))
    BY <2>1, AddSound DEF IInv
  <2> QED
    BY <1>1, <2>2, OneTableSteps DEF Add
<1>2. ASSUME NEW d \in Domain, NEW s \in Symbol, RemoveSymbol(d, s)
      PROVE  Step
  <2>1. Sound(erase_symbol(tables[d], s)) /\ KeepsOwners(tables[d], erase_symbol(tables[d], s))
    BY EraseSymbolSound DEF IInv
  <2> QED
    BY <1>2, <2>1, OneTableSteps DEF RemoveSymbol
<1>3. ASSUME NEW d \in Domain, take_subscriptions(d)
      PROVE  Step
  BY <1>3, NoIntentSound, OneTableSteps DEF take_subscriptions
<1>4. ASSUME NEW r \in ReqId, NEW s \in Symbol, Rejection(r, s)
      PROVE  Step
  <2>1. \A d \in Domain :
           tables'[d] \in {tables[d], try_process_rejection(tables[d], r, s)}
    BY <1>4 DEF Rejection
  <2>2. \A d \in Domain :
           /\ Sound(try_process_rejection(tables[d], r, s))
           /\ KeepsOwners(tables[d], try_process_rejection(tables[d], r, s))
           /\ Sound(tables[d]) /\ KeepsOwners(tables[d], tables[d])
    BY RejectionSound DEF IInv, KeepsOwners
  <2>3. tables' = [d \in Domain |-> tables'[d]]
    BY <1>4 DEF Rejection
  <2> QED
    BY <2>1, <2>2, <2>3 DEF Step
<1>5. CASE clear_all
  BY <1>5, NoIntentSound DEF clear_all, Step
<1>6. CASE UNCHANGED vars
  BY <1>6 DEF vars, Step, IInv, KeepsOwners
<1> QED
  BY <1>1, <1>2, <1>3, <1>4, <1>5, <1>6 DEF Next

(* For every number of channels and any symbols and request identifiers,   *)
(* the request map and the owner map of each table agree in every order of *)
(* adds, removals, rejections and takes.                                   *)
THEOREM DatabaseIsConsistent == Spec => []DatabaseConsistent
<1>1. Init => IInv
  BY NoIntentSound DEF Init, IInv
<1>2. IInv /\ [Next]_vars => IInv'
  BY NextSteps DEF IInv, Step
<1>3. IInv => DatabaseConsistent
  BY DEF IInv, Sound, TableType, DatabaseConsistent, TypeOK
<1> QED
  BY <1>1, <1>2, <1>3, PTL DEF Spec

(* A symbol keeps the request that first stored it until it leaves the     *)
(* table.                                                                  *)
THEOREM FirstWriteAlwaysWins == Spec => FirstWriteWins
<1>1. Init => IInv
  BY NoIntentSound DEF Init, IInv
<1>2. IInv /\ [Next]_vars => IInv'
  BY NextSteps DEF IInv, Step
<1>3. IInv /\ [Next]_vars =>
        [\A d \in Domain :
           \A s \in DOMAIN tables[d].owner \cap DOMAIN tables'[d].owner :
              tables'[d].owner[s] = tables[d].owner[s]]_vars
  BY NextSteps DEF Step, KeepsOwners
<1> QED
  BY <1>1, <1>2, <1>3, PTL DEF Spec, FirstWriteWins

=============================================================================

-------------------------- MODULE SymbolTableProofs --------------------------
(***************************************************************************)
(* Proofs about the intern table, for any sets of threads and strings and  *)
(* any size of the table.                                                  *)
(***************************************************************************)
EXTENDS SymbolTable, TLAPS

Locked == {"store", "index", "trap"}

(* The thread that holds the lock alone is the one past the second lookup, *)
(* and what that lookup did not find is still not there.                   *)
LockInv ==
    /\ \A t \in Thread : pc[t] \in Locked <=> writer = t
    /\ \A t \in Thread : pc[t] \in {"store", "index"} => \A e \in map : e[1] # asked[t]
    /\ \A t \in Thread : pc[t] = "index" => Len(symbols) > 0 /\ symbols[Len(symbols)] = asked[t]

(* A string is stored or indexed: it waits for its index while a thread is *)
(* between the two.                                                        *)
Indexed(i) == \E e \in map : e[1] = symbols[i] /\ e[2] = i - 1

TableInv ==
    /\ \A e \in map : e[2] < Len(symbols) /\ symbols[e[2] + 1] = e[1]
    /\ \A i \in 1 .. Len(symbols) :
          Indexed(i) \/ (i = Len(symbols) /\ \E t \in Thread : pc[t] = "index")
    /\ \A i, j \in 1 .. Len(symbols) : symbols[i] = symbols[j] => i = j

IdsInv == ids \subseteq map

Types ==
    /\ symbols \in Seq(Symbol)
    /\ map \subseteq Symbol \X Nat
    /\ pc \in [Thread -> {"idle", "miss", "store", "index", "trap"}]
    /\ asked \in [Thread -> Symbol]

IInv == Types /\ LockInv /\ TableInv /\ IdsInv

(* The initial table is empty.                                             *)
LEMMA TableInit ==
    ASSUME "none" \notin Thread, Symbol # {}, Init
    PROVE  IInv
<1>1. Types
  BY DEF Init, Types
<1>2. LockInv
  BY DEF Init, LockInv, Locked
<1>3. TableInv /\ IdsInv
  BY DEF Init, TableInv, IdsInv
<1> QED
  BY <1>1, <1>2, <1>3 DEF IInv

(* A pair is determined by its parts.                                      *)
LEMMA PairParts ==
    ASSUME NEW e \in Symbol \X Nat
    PROVE  e = <<e[1], e[2]>> /\ e[1] \in Symbol /\ e[2] \in Nat
OBVIOUS

(* The lookup under the shared lock hands out an entry of the index, or    *)
(* nothing.                                                                *)
LEMMA FastPathInv ==
    ASSUME "none" \notin Thread, IInv, NEW t \in Thread, NEW s \in Symbol, FastPath(t, s)
    PROVE  IInv'
<1> USE DEF IInv
<1>1. /\ pc[t] = "idle" /\ writer = "none"
      /\ asked' = [asked EXCEPT ![t] = s]
      /\ UNCHANGED <<symbols, map, writer>>
  BY DEF FastPath
<1>2. \/ pc' = [pc EXCEPT ![t] = "idle"] /\ \E e \in map : e[1] = s /\ ids' = ids \cup {<<s, e[2]>>}
      \/ pc' = [pc EXCEPT ![t] = "miss"] /\ ids' = ids
  BY DEF FastPath, HandOut, find
<1>3. Types'
  BY <1>1, <1>2 DEF Types
<1>4. \A u \in Thread : pc[u] \notin Locked
  BY <1>1 DEF LockInv
<1>5. \A u \in Thread : pc'[u] \notin Locked
  BY <1>2, <1>4 DEF Types, Locked
<1>6. LockInv'
  BY <1>1, <1>5 DEF LockInv, Locked
<1>7. TableInv'
  BY <1>1, <1>4 DEF TableInv, Indexed, Locked
<1>8. IdsInv'
  <2>1. CASE ids' = ids
    BY <1>1, <2>1 DEF IdsInv
  <2>2. ASSUME NEW e \in map, e[1] = s, ids' = ids \cup {<<s, e[2]>>}
        PROVE  IdsInv'
    <3>1. e = <<s, e[2]>>
      BY <2>2, PairParts DEF Types
    <3> QED
      BY <1>1, <2>2, <3>1 DEF IdsInv
  <2> QED
    BY <1>2, <2>1, <2>2
<1> QED
  BY <1>3, <1>6, <1>7, <1>8

(* The second lookup, alone: the thread leaves with an entry, or holds the *)
(* lock for a string that the index does not have.                         *)
LEMMA DoubleCheckInv ==
    ASSUME "none" \notin Thread, IInv, NEW t \in Thread, DoubleCheck(t)
    PROVE  IInv'
<1> USE DEF IInv
<1>1. /\ pc[t] = "miss" /\ writer = "none"
      /\ UNCHANGED <<symbols, map, asked>>
  BY DEF DoubleCheck
<1>2. \A u \in Thread : pc[u] \notin Locked
  BY <1>1 DEF LockInv
<1>3. CASE find(asked[t]) # {}
  <2>1. PICK e \in map : e[1] = asked[t] /\ ids' = ids \cup {<<asked[t], e[2]>>}
                         /\ pc' = [pc EXCEPT ![t] = "idle"] /\ writer' = writer
    BY <1>3 DEF DoubleCheck, HandOut, find
  <2>2. Types'
    BY <1>1, <2>1 DEF Types
  <2>3. LockInv'
    BY <1>1, <1>2, <2>1 DEF LockInv, Locked, Types
  <2>4. TableInv'
    BY <1>1, <1>2, <2>1 DEF TableInv, Indexed, Locked
  <2>5. e = <<asked[t], e[2]>>
    BY <2>1, PairParts DEF Types
  <2>6. IdsInv'
    BY <1>1, <2>1, <2>5 DEF IdsInv
  <2> QED
    BY <2>2, <2>3, <2>4, <2>6
<1>4. CASE find(asked[t]) = {}
  <2>1. /\ writer' = t /\ ids' = ids
        /\ pc' \in {[pc EXCEPT ![t] = "trap"], [pc EXCEPT ![t] = "store"]}
    BY <1>4 DEF DoubleCheck
  <2>2. \A e \in map : e[1] # asked[t]
    BY <1>4 DEF find
  <2>3. Types'
    BY <1>1, <2>1 DEF Types
  <2>4. /\ pc'[t] \in {"trap", "store"}
        /\ \A u \in Thread : u # t => pc'[u] = pc[u]
    BY <2>1 DEF Types
  <2>5. LockInv'
    BY <1>1, <1>2, <2>1, <2>2, <2>4 DEF LockInv, Locked
  <2>6. TableInv'
    BY <1>1, <1>2, <2>1 DEF TableInv, Indexed, Locked
  <2>7. IdsInv'
    BY <1>1, <2>1 DEF IdsInv
  <2> QED
    BY <2>3, <2>5, <2>6, <2>7
<1> QED
  BY <1>3, <1>4

(* The string goes to the end: no other string is like it, since every     *)
(* stored string is in the index when nobody is between the two steps.     *)
LEMMA EmplaceSymbolInv ==
    ASSUME "none" \notin Thread, IInv, NEW t \in Thread, EmplaceSymbol(t)
    PROVE  IInv'
<1> USE DEF IInv
<1>1. /\ pc[t] = "store" /\ symbols' = Append(symbols, asked[t])
      /\ pc' = [pc EXCEPT ![t] = "index"]
      /\ UNCHANGED <<map, writer, asked, ids>>
  BY DEF EmplaceSymbol
<1>2. /\ Len(symbols') = Len(symbols) + 1 /\ Len(symbols) \in Nat
      /\ symbols'[Len(symbols')] = asked[t]
      /\ \A i \in 1 .. Len(symbols) : symbols'[i] = symbols[i]
  BY <1>1 DEF Types
<1>3. Types'
  BY <1>1 DEF Types
<1>4. writer = t /\ \A u \in Thread : u # t => pc[u] \notin Locked
  BY <1>1 DEF LockInv, Locked
<1>5. /\ pc'[t] = "index"
      /\ \A u \in Thread : u # t => pc'[u] = pc[u]
  BY <1>1 DEF Types
<1>6. LockInv'
  BY <1>1, <1>2, <1>4, <1>5 DEF LockInv, Locked
<1>7. \A i \in 1 .. Len(symbols) : Indexed(i) /\ symbols[i] # asked[t]
  BY <1>1, <1>4 DEF TableInv, LockInv, Locked, Indexed
<1>8. TableInv'
  <2>1. \A e \in map' : e[2] < Len(symbols') /\ symbols'[e[2] + 1] = e[1]
    BY <1>1, <1>2 DEF TableInv, Types
  <2>2. \A i \in 1 .. Len(symbols') :
           Indexed(i)' \/ (i = Len(symbols') /\ \E u \in Thread : pc'[u] = "index")
    BY <1>1, <1>2, <1>5, <1>7 DEF Indexed
  <2>3. \A i, j \in 1 .. Len(symbols') : symbols'[i] = symbols'[j] => i = j
    BY <1>2, <1>7 DEF TableInv
  <2> QED
    BY <2>1, <2>2, <2>3 DEF TableInv
<1>9. IdsInv'
  BY <1>1 DEF IdsInv
<1> QED
  BY <1>3, <1>6, <1>8, <1>9

(* The last string gets its index, which is handed out.                    *)
LEMMA EmplaceIndexInv ==
    ASSUME "none" \notin Thread, IInv, NEW t \in Thread, EmplaceIndex(t)
    PROVE  IInv'
<1> USE DEF IInv
<1> DEFINE id == Len(symbols) - 1
<1>1. /\ pc[t] = "index" /\ UNCHANGED <<symbols, asked>> /\ writer' = "none"
      /\ ids' = ids \cup {<<asked[t], id>>}
      /\ pc' = [pc EXCEPT ![t] = "idle"]
  BY DEF EmplaceIndex, HandOut
<1>2. find(asked[t]) = {}
  BY <1>1 DEF LockInv, find
<1>3. map' = map \cup {<<asked[t], id>>}
  BY <1>2 DEF EmplaceIndex
<1>4. /\ id \in Nat /\ id + 1 = Len(symbols) /\ symbols[id + 1] = asked[t]
      /\ asked[t] \in Symbol
  BY <1>1 DEF LockInv, Types
<1> HIDE DEF id
<1>5. Types'
  BY <1>1, <1>3, <1>4 DEF Types
<1>6. writer = t /\ \A u \in Thread : u # t => pc[u] \notin Locked
  BY <1>1 DEF LockInv, Locked
<1>7. \A u \in Thread : pc'[u] \notin Locked
  BY <1>1, <1>6 DEF Types, Locked
<1>8. LockInv'
  BY <1>1, <1>7 DEF LockInv, Locked
<1>9. TableInv'
  <2>1. \A e \in map' : e[2] < Len(symbols') /\ symbols'[e[2] + 1] = e[1]
    BY <1>1, <1>3, <1>4 DEF TableInv
  <2>2. ASSUME NEW i \in 1 .. Len(symbols)
        PROVE  Indexed(i)'
    <3>1. CASE Indexed(i)
      BY <1>1, <1>3, <3>1 DEF Indexed
    <3>2. CASE i = Len(symbols)
      <4>1. <<asked[t], id>> \in map' /\ symbols'[i] = asked[t] /\ id = i - 1
        BY <1>1, <1>3, <1>4, <3>2
      <4> QED
        BY <4>1 DEF Indexed
    <3> QED
      BY <3>1, <3>2 DEF TableInv
  <2> QED
    BY <1>1, <2>1, <2>2 DEF TableInv
<1>10. IdsInv'
  BY <1>1, <1>3 DEF IdsInv
<1> QED
  BY <1>5, <1>8, <1>9, <1>10

(* One id per string and one string per id follow from the invariant.      *)
LEMMA IInvImplies ==
    ASSUME IInv
    PROVE  OneIdPerSymbol
<1> USE DEF IInv
<1>1. \A a \in ids : a \in map /\ a[2] \in Nat /\ a[2] < Len(symbols) /\ symbols[a[2] + 1] = a[1]
  BY PairParts DEF IdsInv, TableInv, Types
<1>2. DOMAIN symbols = 1 .. Len(symbols) /\ Len(symbols) \in Nat
  BY DEF Types
<1>3. \A a \in ids : a[2] + 1 \in 1 .. Len(symbols) /\ name(a[2]) = a[1]
  BY <1>1, <1>2 DEF name
<1>4. \A a, b \in ids : a[1] = b[1] <=> a[2] = b[2]
  <2> SUFFICES ASSUME NEW a \in ids, NEW b \in ids
               PROVE  a[1] = b[1] <=> a[2] = b[2]
    OBVIOUS
  <2>1. ASSUME a[1] = b[1] PROVE a[2] = b[2]
    <3>1. a[2] + 1 = b[2] + 1
      BY <1>1, <1>3, <2>1 DEF TableInv
    <3> QED
      BY <1>1, <3>1
  <2>2. ASSUME a[2] = b[2] PROVE a[1] = b[1]
    BY <1>1, <2>2
  <2> QED
    BY <2>1, <2>2
<1> QED
  BY <1>2, <1>3, <1>4 DEF OneIdPerSymbol, TableInv

(* However many threads intern however many strings: a string has one id   *)
(* for ever, an id one string, and name() gives it back.                   *)
THEOREM InternIsInjective ==
    ASSUME "none" \notin Thread, Symbol # {}
    PROVE  Spec => []OneIdPerSymbol
<1>1. Init => IInv
  BY TableInit
<1>2. IInv /\ [Next]_tableVars => IInv'
  <2> SUFFICES ASSUME IInv, [Next]_tableVars PROVE IInv'
    OBVIOUS
  <2>1. CASE UNCHANGED tableVars
    BY <2>1 DEF tableVars, IInv, Types, LockInv, TableInv, Indexed, IdsInv
  <2>2. ASSUME NEW t \in Thread, intern(t) PROVE IInv'
    BY <2>2, FastPathInv, DoubleCheckInv, EmplaceSymbolInv, EmplaceIndexInv DEF intern
  <2> QED
    BY <2>1, <2>2 DEF Next
<1>3. IInv => OneIdPerSymbol
  BY IInvImplies
<1> QED
  BY <1>1, <1>2, <1>3, PTL DEF Spec
==============================================================================

----------------------------- MODULE CacheProofs -----------------------------
(***************************************************************************)
(* The cache for every set of types, keys and values: what it keeps        *)
(* whatever its keys hash to and its callers do; and that it is the keyed  *)
(* store of its documentation if keys do not collide (NoCollision) and     *)
(* get_keyed_mut is not used to change one (StableKeys).                   *)
(***************************************************************************)
EXTENDS Cache, TLAPS, FunctionTheorems, FiniteSetTheorems

\* The storage holds values or nothing, and a reply belongs to a call.
THEOREM CacheTyping == Spec => []TypeOK
<1>1. Init => TypeOK
  BY DEF Init, TypeOK
<1>2. TypeOK /\ [Next]_vars => TypeOK'
  <2> SUFFICES ASSUME TypeOK, [Next]_vars PROVE TypeOK'
    OBVIOUS
  <2> USE HashAssumption, NoneAssumption DEF TypeOK, Return, Slot, Slots
  <2>1. ASSUME NEW v \in Value, Insert(v) PROVE TypeOK'
    <3>1. v.type \in Types /\ v.key \in Keys /\ v.data \in Data
      BY DEF Value
    <3>2. storage' \in [Slots -> Value \cup {None}]
      BY <2>1, <3>1 DEF Insert, Inserted
    <3>3. asked' \in Types \X Keys \X Data /\ reply' = None
      BY <2>1, <3>1 DEF Insert
    <3>4. renamed' \subseteq Types \X Keys
      BY <2>1 DEF Insert
    <3> QED
      BY <3>2, <3>3, <3>4
  <2>2. ASSUME NEW t \in Types, NEW k \in Keys, GetKeyed(t, k) PROVE TypeOK'
    BY <2>2 DEF GetKeyed
  <2>3. ASSUME NEW t \in Types, NEW k \in Keys, GetKeyedMut(t, k) PROVE TypeOK'
    <3>1. CASE storage[Slot(t, k)] = None
      BY <2>3, <3>1 DEF GetKeyedMut
    <3>2. CASE storage[Slot(t, k)] # None
      <4>1. PICK new \in Value :
              /\ storage' = [storage EXCEPT ![Slot(t, k)] = new]
              /\ asked' = <<t, k>> /\ reply' = new
              /\ renamed' \subseteq renamed \cup {<<new.type, new.key>>}
        BY <2>3, <3>2 DEF GetKeyedMut
      <4>2. <<new.type, new.key>> \in Types \X Keys
        BY DEF Value
      <4>3. storage' \in [Slots -> Value \cup {None}]
        BY <4>1
      <4>4. asked' \in Types \X Keys /\ reply' \in Value
        BY <4>1
      <4>5. renamed' \subseteq Types \X Keys
        BY <4>1, <4>2
      <4> QED
        BY <4>3, <4>4, <4>5
    <3> QED
      BY <3>1, <3>2
  <2>4. ASSUME NEW t \in Types, NEW k \in Keys, Remove(t, k) PROVE TypeOK'
    BY <2>4 DEF Remove, Removed
  <2>5. CASE Count
    <3>1. IsFiniteSet(Slots)
      BY FiniteAssumption, FS_Product DEF Slots
    <3>2. Cardinality({s \in Slots : storage[s] # None}) \in Nat
      BY <3>1, FS_Subset, FS_CardinalityType
    <3> QED
      BY <2>5, <3>2 DEF Count
  <2>6. CASE UNCHANGED vars
    BY <2>6 DEF vars
  <2> QED
    BY <2>1, <2>2, <2>3, <2>4, <2>5, <2>6 DEF Next
<1> QED
  BY <1>1, <1>2, PTL DEF Spec

\* IndexedByKey: each value is in the slot of its own key, collisions or not, as long as
\* no caller of get_keyed_mut gives a value that key in place.
THEOREM ValuesStayIndexed == Spec => []IndexedByKey
<1>1. Init => IndexedByKey
  BY DEF Init, IndexedByKey
<1>2. TypeOK /\ IndexedByKey /\ [Next]_vars => IndexedByKey'
  <2> SUFFICES ASSUME TypeOK, IndexedByKey, [Next]_vars PROVE IndexedByKey'
    OBVIOUS
  <2> USE HashAssumption DEF TypeOK, IndexedByKey, Slot, Slots
  <2>1. ASSUME NEW v \in Value, Insert(v) PROVE IndexedByKey'
    <3>1. v.type \in Types /\ v.key \in Keys
      BY DEF Value
    <3> QED
      BY <2>1, <3>1 DEF Insert, Inserted
  <2>2. ASSUME NEW t \in Types, NEW k \in Keys, GetKeyedMut(t, k) PROVE IndexedByKey'
    <3>1. CASE UNCHANGED <<storage, renamed>>
      BY <3>1
    <3>2. CASE storage[Slot(t, k)] # None
      <4> DEFINE old == storage[Slot(t, k)]
      <4>1. PICK new \in Value : /\ new.type = old.type
                                /\ storage' = [storage EXCEPT ![Slot(t, k)] = new]
                                /\ renamed' = IF new.key = old.key THEN renamed
                                              ELSE renamed \cup {<<new.type, new.key>>}
        BY <2>2, <3>2 DEF GetKeyedMut
      <4>2. renamed \subseteq renamed'
        BY <4>1
      <4>3. CASE new.key = old.key
        BY <3>2, <4>1, <4>2, <4>3
      <4>4. CASE new.key # old.key
        <5>1. <<new.type, new.key>> \in renamed'
          BY <4>1, <4>4
        <5>2. old.type = t
          BY <3>2
        <5>3. ASSUME NEW s \in Slots, storage'[s] # None
              PROVE  /\ storage'[s].type = s[1]
                     /\ \/ Hash[storage'[s].key] = s[2]
                        \/ <<storage'[s].type, storage'[s].key>> \in renamed'
          <6>1. CASE s = Slot(t, k)
            BY <4>1, <5>1, <5>2, <6>1
          <6>2. CASE s # Slot(t, k)
            BY <4>1, <4>2, <5>3, <6>2
          <6> QED
            BY <6>1, <6>2
        <5> QED
          BY <5>3
      <4> QED
        BY <4>3, <4>4
    <3> QED
      BY <2>2, <3>1, <3>2 DEF GetKeyedMut
  <2>3. ASSUME NEW t \in Types, NEW k \in Keys, Remove(t, k) PROVE IndexedByKey'
    BY <2>3 DEF Remove, Removed
  <2>4. CASE UNCHANGED <<storage, renamed>>
    BY <2>4
  <2> QED
    BY <2>1, <2>2, <2>3, <2>4 DEF Next, GetKeyed, Count, vars
<1> QED
  BY <1>1, <1>2, CacheTyping, PTL DEF Spec

\* What a lookup finds is of the type it asked for, and of a key of the same hash unless
\* it was renamed.
LEMMA FoundIsOfKey ==
    ASSUME TypeOK, IndexedByKey,
           NEW t \in Types, NEW k \in Keys, storage[Slot(t, k)] # None
    PROVE  LET v == storage[Slot(t, k)] IN
             /\ v \in Value
             /\ v.type = t
             /\ Hash[v.key] = Hash[k] \/ <<v.type, v.key>> \in renamed
<1>1. Slot(t, k) \in Slots
  BY HashAssumption DEF Slot, Slots
<1>2. PICK v \in Value : v = storage[Slot(t, k)]
  BY <1>1 DEF TypeOK
<1>3. v.type = Slot(t, k)[1] /\ (Hash[v.key] = Slot(t, k)[2] \/ <<v.type, v.key>> \in renamed)
  BY <1>1, <1>2 DEF IndexedByKey
<1> QED
  BY <1>2, <1>3 DEF Slot

\* ReplyIsOfKey: a call is answered with the value of another key only if the two collide
\* or a caller of get_keyed_mut gave some value that other key.
THEOREM RepliesAreOfTheirKey == Spec => []ReplyIsOfKey
<1>1. Init => ReplyIsOfKey
  BY DEF Init, ReplyIsOfKey
<1>2. TypeOK /\ IndexedByKey /\ ReplyIsOfKey /\ [Next]_vars => ReplyIsOfKey'
  <2> SUFFICES ASSUME TypeOK, IndexedByKey, ReplyIsOfKey, [Next]_vars PROVE ReplyIsOfKey'
    OBVIOUS
  <2> USE FoundIsOfKey DEF ReplyIsOfKey, Return
  <2>1. ASSUME NEW v \in Value, Insert(v) PROVE ReplyIsOfKey'
    BY <2>1 DEF Insert
  <2>2. ASSUME NEW t \in Types, NEW k \in Keys, GetKeyed(t, k) \/ Remove(t, k)
        PROVE  ReplyIsOfKey'
    BY <2>2 DEF GetKeyed, Remove
  <2>3. ASSUME NEW t \in Types, NEW k \in Keys, GetKeyedMut(t, k) PROVE ReplyIsOfKey'
    <3>1. CASE storage[Slot(t, k)] = None
      BY <2>3, <3>1 DEF GetKeyedMut
    <3>2. CASE storage[Slot(t, k)] # None
      <4> DEFINE old == storage[Slot(t, k)]
      <4>1. PICK new \in Value : /\ new.type = old.type
                                /\ asked' = <<t, k>> /\ reply' = new
                                /\ renamed' = IF new.key = old.key THEN renamed
                                              ELSE renamed \cup {<<new.type, new.key>>}
        BY <2>3, <3>2 DEF GetKeyedMut
      <4>2. old.type = t /\ (Hash[old.key] = Hash[k] \/ <<old.type, old.key>> \in renamed)
        BY <3>2
      <4>3. Hash[new.key] = Hash[k] \/ <<new.type, new.key>> \in renamed'
        BY <4>1, <4>2
      <4> QED
        BY <4>1, <4>2, <4>3
    <3> QED
      BY <3>1, <3>2
  <2>4. CASE Count \/ UNCHANGED vars
    BY <2>4 DEF Count, vars
  <2> QED
    BY <2>1, <2>2, <2>3, <2>4 DEF Next
<1> QED
  BY <1>1, <1>2, CacheTyping, ValuesStayIndexed, PTL DEF Spec

\* Without collisions two pairs of a type and a key never share a slot.
LEMMA OneSlotPerPair ==
    ASSUME NoCollision
    PROVE  /\ \A t \in Types, k \in Keys : Slot(t, k) \in Slots
           /\ \A t, u \in Types, k, l \in Keys : Slot(t, k) = Slot(u, l) => t = u /\ k = l
BY HashAssumption DEF NoCollision, Slot, Slots

\* A call changes at most what is in one slot, whatever the hashes of the keys.
LEMMA OneSlotChanges ==
    ASSUME TypeOK, [Next]_vars, NEW r \in Slots, NEW s \in Slots,
           storage'[r] # storage[r], storage'[s] # storage[s]
    PROVE  r = s
<1> USE DEF TypeOK
<1>1. ASSUME NEW v \in Value, Insert(v) PROVE r = s
  BY <1>1 DEF Insert, Inserted
<1>2. ASSUME NEW t \in Types, NEW k \in Keys, GetKeyedMut(t, k) \/ Remove(t, k) PROVE r = s
  BY <1>2 DEF GetKeyedMut, Remove, Removed
<1> QED
  BY <1>1, <1>2 DEF Next, GetKeyed, Count, vars

\* KeysIndependent: no call on one type and key is seen under another unless the keys
\* collide, even if a caller of get_keyed_mut changes keys in place.
THEOREM KeysStayIndependent == Spec => KeysIndependent
<1>1. TypeOK /\ [Next]_vars =>
        [\A p, q \in {r \in Types \X Keys : Lookup(r[1], r[2])' # Lookup(r[1], r[2])} :
           p[1] = q[1] /\ Hash[p[2]] = Hash[q[2]]]_vars
  <2> SUFFICES ASSUME TypeOK, [Next]_vars, NEW p \in Types \X Keys, NEW q \in Types \X Keys,
                      storage'[Slot(p[1], p[2])] # storage[Slot(p[1], p[2])],
                      storage'[Slot(q[1], q[2])] # storage[Slot(q[1], q[2])]
               PROVE  p[1] = q[1] /\ Hash[p[2]] = Hash[q[2]]
    BY DEF Lookup
  <2>1. \A r \in Types \X Keys : Slot(r[1], r[2]) \in Slots
    BY HashAssumption DEF Slot, Slots
  <2>2. Slot(p[1], p[2]) = Slot(q[1], q[2])
    BY <2>1, OneSlotChanges
  <2> QED
    BY <2>2 DEF Slot
<1> QED
  BY <1>1, CacheTyping, PTL DEF Spec, KeysIndependent

-----------------------------------------------------------------------------
(***************************************************************************)
(* Refinement: the cache is a keyed store.                                 *)
(***************************************************************************)
\* If nobody changes keys, no value is in the wrong place.
NoneRenamed == renamed = {}

LEMMA NothingRenamed == ASSUME StableKeys PROVE Spec => []NoneRenamed
<1>1. Init => NoneRenamed
  BY DEF Init, NoneRenamed
<1>2. NoneRenamed /\ [Next]_vars => NoneRenamed'
  BY DEF NoneRenamed, Next, Insert, GetKeyed, GetKeyedMut, Remove, Count, vars
<1> QED
  BY <1>1, <1>2, PTL DEF Spec

\* As many slots are in use as pairs have a value.
LEMMA CountsAgree ==
    ASSUME NoCollision, TypeOK, IndexedByKey, NoneRenamed
    PROVE  Cardinality({s \in Slots : storage[s] # None})
             = Cardinality({p \in Types \X Keys : Lookup(p[1], p[2]) # None})
<1> DEFINE S == {s \in Slots : storage[s] # None}
           P == {p \in Types \X Keys : Lookup(p[1], p[2]) # None}
           f == [p \in P |-> Slot(p[1], p[2])]
<1>1. \A p \in P : f[p] \in S
  BY OneSlotPerPair DEF Lookup
<1>2. \A p, q \in P : f[p] = f[q] => p = q
  BY OneSlotPerPair
<1>3. \A s \in S : \E p \in P : f[p] = s
  <2> SUFFICES ASSUME NEW s \in S PROVE \E p \in P : f[p] = s
    OBVIOUS
  <2>1. PICK v \in Value : v = storage[s]
    BY DEF TypeOK
  <2>2. v.type \in Types /\ v.key \in Keys /\ s = Slot(v.type, v.key)
    BY <2>1 DEF Value, IndexedByKey, NoneRenamed, Slots, Slot
  <2>3. <<v.type, v.key>> \in P
    BY <2>1, <2>2 DEF Lookup
  <2> QED
    BY <2>2, <2>3
<1>4. f \in Bijection(P, S)
  BY <1>1, <1>2, <1>3, Fun_IsBij
<1>5. IsFiniteSet(P)
  BY FiniteAssumption, FS_Product, FS_Subset
<1> QED
  BY <1>4, <1>5, FS_Bijection DEF ExistsBijection

\* Writing one slot changes what is found for one pair.
LEMMA WriteIsLocal ==
    ASSUME NoCollision, TypeOK, NEW t \in Types, NEW k \in Keys, NEW r,
           storage' = [storage EXCEPT ![Slot(t, k)] = r]
    PROVE  Found' = [Found EXCEPT ![<<t, k>>] = r]
<1>1. \A p \in Types \X Keys : Found'[p] = IF p = <<t, k>> THEN r ELSE Found[p]
  <2> SUFFICES ASSUME NEW u \in Types, NEW l \in Keys
               PROVE  storage'[Slot(u, l)] =
                        IF u = t /\ l = k THEN r ELSE storage[Slot(u, l)]
    BY DEF Found, Lookup
  <2>1. Slot(u, l) \in Slots /\ (Slot(u, l) = Slot(t, k) <=> u = t /\ l = k)
    BY OneSlotPerPair
  <2>2. storage \in [Slots -> Value \cup {None}]
    BY DEF TypeOK
  <2> QED
    BY <2>1, <2>2
<1>2. Found' = [p \in Types \X Keys |-> Found'[p]]
  BY DEF Found
<1>3. Found = [p \in Types \X Keys |-> Found[p]]
  BY DEF Found
<1> QED
  BY <1>1, <1>2, <1>3

\* ImplementsKeyedStore: under the same conditions the cache behaves as the typed,
\* keyed storage it is documented to be, whatever the order of its calls.
THEOREM CacheIsKeyedStore == ASSUME NoCollision, StableKeys PROVE Spec => ImplementsKeyedStore
<1>1. Init => Store!Init
  BY OneSlotPerPair DEF Init, Store!Init, Store!Pairs, Lookup, Found
<1>2. TypeOK /\ IndexedByKey /\ NoneRenamed /\ [Next]_vars => [Store!Next]_(Store!vars)
  <2> SUFFICES ASSUME TypeOK, IndexedByKey, NoneRenamed, [Next]_vars
               PROVE  [Store!Next]_(Store!vars)
    OBVIOUS
  <2> USE DEF Store!Pairs, Store!Answer, Return
  <2>1. \A t \in Types, k \in Keys : Found[<<t, k>>] = storage[Slot(t, k)]
    BY DEF Found, Lookup
  <2>2. ASSUME NEW v \in Value, Insert(v) PROVE Store!Next
    <3>1. v.type \in Types /\ v.key \in Keys /\ v \in Store!Value
      BY DEF Value, Store!Value
    <3>2. Found' = [Found EXCEPT ![<<v.type, v.key>>] = v]
      BY <2>2, <3>1, WriteIsLocal DEF Insert, Inserted
    <3>3. Store!Insert(v)
      BY <2>2, <3>2 DEF Insert, Store!Insert, Store!PairOf
    <3> QED
      BY <3>1, <3>3 DEF Store!Next
  <2>3. ASSUME NEW t \in Types, NEW k \in Keys, GetKeyed(t, k) PROVE Store!Next
    <3>1. Store!Get(<<t, k>>)
      BY <2>1, <2>3 DEF GetKeyed, Store!Get, Found, Lookup
    <3> QED
      BY <3>1 DEF Store!Next
  <2>4. ASSUME NEW t \in Types, NEW k \in Keys, GetKeyedMut(t, k) PROVE Store!Next
    <3>1. CASE storage[Slot(t, k)] = None
      <4>1. Store!Get(<<t, k>>)
        BY <2>1, <2>4, <3>1 DEF GetKeyedMut, Store!Get, Found, Lookup
      <4> QED
        BY <4>1 DEF Store!Next
    <3>2. CASE storage[Slot(t, k)] # None
      <4> DEFINE old == storage[Slot(t, k)]
      <4>1. old \in Value /\ old.type = t /\ old.key = k
        <5>1. old \in Value /\ old.type = t /\ Hash[old.key] = Hash[k]
          BY <3>2, FoundIsOfKey DEF NoneRenamed
        <5> QED
          BY <5>1 DEF NoCollision, Value
      <4>2. PICK new \in Value : /\ new.type = old.type /\ new.key = old.key
                                /\ storage' = [storage EXCEPT ![Slot(t, k)] = new]
                                /\ asked' = <<t, k>> /\ reply' = new
        BY <2>4, <3>2 DEF GetKeyedMut
      <4>3. new = [old EXCEPT !.data = new.data] /\ new.data \in Data
        BY <4>1, <4>2 DEF Value
      <4>4. Found' = [Found EXCEPT ![<<t, k>>] = new] /\ Found[<<t, k>>] = old
        BY <2>1, <4>2, WriteIsLocal
      <4>5. <<t, k>> \in Types \X Keys /\ DOMAIN Found = Types \X Keys
        BY DEF Found
      <4>6. old # None
        BY <3>2
      <4> HIDE DEF old
      <4>7. Found' = [Found EXCEPT ![<<t, k>>].data = new.data] /\ Found'[<<t, k>>] = new
        BY <4>3, <4>4, <4>5
      <4>8. Store!Update(<<t, k>>, new.data)
        BY <4>2, <4>4, <4>6, <4>7 DEF Store!Update
      <4> QED
        BY <4>3, <4>8 DEF Store!Next
    <3> QED
      BY <3>1, <3>2
  <2>5. ASSUME NEW t \in Types, NEW k \in Keys, Remove(t, k) PROVE Store!Next
    <3>1. Store!Remove(<<t, k>>)
      BY <2>1, <2>5, WriteIsLocal DEF Remove, Removed, Store!Remove
    <3> QED
      BY <3>1 DEF Store!Next
  <2>6. CASE Count
    <3>1. {p \in Types \X Keys : Found[p] # None}
            = {p \in Types \X Keys : Lookup(p[1], p[2]) # None}
      BY DEF Found
    <3>2. UNCHANGED Found
      BY <2>6 DEF Count, Found, Lookup
    <3>3. reply' = Cardinality({p \in Types \X Keys : Found[p] # None})
      BY <2>6, <3>1, CountsAgree DEF Count
    <3>4. Store!Count
      BY <2>6, <3>2, <3>3 DEF Count, Store!Count, Cardinality, Store!Cardinality
    <3> QED
      BY <3>4 DEF Store!Next
  <2>7. CASE UNCHANGED vars
    BY <2>7 DEF vars, Store!vars, Found, Lookup
  <2> QED
    BY <2>2, <2>3, <2>4, <2>5, <2>6, <2>7 DEF Next
<1> QED
  BY <1>1, <1>2, CacheTyping, ValuesStayIndexed, NothingRenamed, PTL
     DEF Spec, ImplementsKeyedStore, Store!Spec
=============================================================================

------------------------------- MODULE Cache --------------------------------
(***************************************************************************)
(* The cache (cache.rs) as reducers and handlers use it.  The map holds a  *)
(* value in the slot (TypeId, hash of its key at the time it was inserted):*)
(* the key itself is not stored and never compared, although State::Key is *)
(* Eq.  Singletons (get, get_mut) are types whose one key is ().           *)
(*                                                                         *)
(* An operator named X_Y stands before X and says how X might be wrong; no *)
(* action uses it.                                                         *)
(***************************************************************************)
EXTENDS Integers, FiniteSets

CONSTANTS
    Types, Keys, Data, None,
    Hashes, Hash,   \* hash_key: a function of the key into u64
    StableKeys      \* TRUE: no caller of get_keyed_mut changes the key of a value

Value == [type : Types, key : Keys, data : Data]

Slots == Types \X Hashes

ASSUME HashAssumption == Hash \in [Keys -> Hashes]
ASSUME FiniteAssumption == IsFiniteSet(Types) /\ IsFiniteSet(Hashes) /\ IsFiniteSet(Keys)
ASSUME NoneAssumption ==
    None \notin Value \cup (Types \X Keys) \cup (Types \X Keys \X Data)
ASSUME StableAssumption == StableKeys \in BOOLEAN

VARIABLES
    storage,    \* the value in each slot, or None
    asked,      \* what the last call was given: type, key and, if inserting, data
    reply,      \* what it returned
    renamed     \* history: the types and keys that values were given in place

vars == <<storage, asked, reply, renamed>>

Slot_OfType(t, k) == <<t, CHOOSE h \in Hashes : TRUE>>
Slot(t, k) == <<t, Hash[k]>>

Init ==
    /\ storage = [s \in Slots |-> None]
    /\ asked = None /\ reply = None
    /\ renamed = {}

Return(t, k, r) == asked' = <<t, k>> /\ reply' = r

\* What an insertion writes: HashMap::insert replaces.
Inserted_Kept(v) ==
    LET s == Slot(v.type, v.key) IN
    [storage EXCEPT ![s] = IF @ = None THEN v ELSE @]
Inserted_AnyHash(v) == [storage EXCEPT ![<<v.type, CHOOSE h \in Hashes : TRUE>>] = v]
Inserted(v) == [storage EXCEPT ![Slot(v.type, v.key)] = v]

\* Cache::insert
Insert(v) ==
    /\ storage' = Inserted(v)
    /\ asked' = <<v.type, v.key, v.data>> /\ reply' = None
    /\ UNCHANGED renamed

\* Cache::get_keyed, Cache::get and Context::get
GetKeyed(t, k) ==
    /\ Return(t, k, storage[Slot(t, k)])
    /\ UNCHANGED <<storage, renamed>>

\* Cache::get_keyed_mut and Cache::get_mut, and what the caller makes of the value.
GetKeyedMut(t, k) ==
    LET old == storage[Slot(t, k)] IN
    \/ /\ old = None
       /\ Return(t, k, None)
       /\ UNCHANGED <<storage, renamed>>
    \/ /\ old # None
       /\ \E new \in Value :
            /\ new.type = old.type
            /\ StableKeys => new.key = old.key
            /\ storage' = [storage EXCEPT ![Slot(t, k)] = new]
            /\ Return(t, k, new)
            /\ renamed' = IF new.key = old.key THEN renamed
                          ELSE renamed \cup {<<new.type, new.key>>}

Removed_OfType(t, k) == [s \in Slots |-> IF s[1] = t THEN None ELSE storage[s]]
Removed(t, k) == [storage EXCEPT ![Slot(t, k)] = None]

\* Cache::remove
Remove(t, k) ==
    /\ Return(t, k, storage[Slot(t, k)])
    /\ storage' = Removed(t, k)
    /\ UNCHANGED renamed

\* Cache::len; is_empty is its being 0.
Count ==
    /\ asked' = None
    /\ reply' = Cardinality({s \in Slots : storage[s] # None})
    /\ UNCHANGED <<storage, renamed>>

Next ==
    \/ \E v \in Value : Insert(v)
    \/ \E t \in Types, k \in Keys : GetKeyed(t, k) \/ GetKeyedMut(t, k) \/ Remove(t, k)
    \/ Count

Spec == Init /\ [][Next]_vars

-----------------------------------------------------------------------------
\* Two keys never have the same hash.
NoCollision == \A k, l \in Keys : Hash[k] = Hash[l] => k = l

TypeOK ==
    /\ storage \in [Slots -> Value \cup {None}]
    /\ asked \in (Types \X Keys \X Data) \cup (Types \X Keys) \cup {None}
    /\ asked # None => reply \in Value \cup {None}
    /\ asked = None => reply = None \/ reply \in Nat
    /\ renamed \subseteq Types \X Keys

\* What a lookup of a type and key would return now.
Lookup(t, k) == storage[Slot(t, k)]

\* Whatever is returned has the type that was asked for, and its key has the hash of
\* the key that was asked for, unless a caller of get_keyed_mut gave it that key in
\* place: a value of another key is never returned for any other reason.
ReplyIsOfKey ==
    asked # None /\ reply # None =>
        /\ reply.type = asked[1]
        /\ \/ Hash[reply.key] = Hash[asked[2]]
           \/ <<reply.type, reply.key>> \in renamed

\* A stored value that is not found under its own key, or whose key is stored twice, has
\* a key that a caller of get_keyed_mut gave to some value in place: inserting, replacing
\* and removing values, of this key or of those it collides with, misplaces none.
IndexedByKey ==
    \A s \in Slots : storage[s] # None =>
        /\ storage[s].type = s[1]
        /\ \/ Hash[storage[s].key] = s[2]
           \/ <<storage[s].type, storage[s].key>> \in renamed

\* No call changes what is found under two keys at once, unless these collide; nor
\* does a key that is changed in place: it is not found under the new one.
KeysIndependent ==
    [][\A p, q \in {r \in Types \X Keys : Lookup(r[1], r[2])' # Lookup(r[1], r[2])} :
          p[1] = q[1] /\ Hash[p[2]] = Hash[q[2]]]_vars

(***************************************************************************)
(* With keys that do not collide and that nobody changes in place, the     *)
(* cache is the keyed store its documentation describes.                   *)
(***************************************************************************)
Found == [p \in Types \X Keys |-> Lookup(p[1], p[2])]

Store == INSTANCE KeyedStore WITH store <- Found

ImplementsKeyedStore == Store!Spec
=============================================================================

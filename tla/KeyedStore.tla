----------------------------- MODULE KeyedStore -----------------------------
(***************************************************************************)
(* What the cache promises: values indexed by their type and key, at most  *)
(* one per pair, and no operation on one pair seen under another.          *)
(***************************************************************************)
EXTENDS Integers, FiniteSets

CONSTANTS Types, Keys, Data, None

Pairs == Types \X Keys

Value == [type : Types, key : Keys, data : Data]

PairOf(v) == <<v.type, v.key>>

VARIABLES
    store,      \* the value of each pair, or None
    asked,      \* what the last operation was given: type, key and, if inserting, data
    reply       \* what it returned

vars == <<store, asked, reply>>

Init == store = [p \in Pairs |-> None] /\ asked = None /\ reply = None

Answer(args, r) == asked' = args /\ reply' = r

Insert(v) ==
    /\ store' = [store EXCEPT ![PairOf(v)] = v]
    /\ Answer(<<v.type, v.key, v.data>>, None)

Get(p) == Answer(p, store[p]) /\ UNCHANGED store

\* The caller changes the data of a value in place, never its key.
Update(p, d) ==
    /\ store[p] # None
    /\ store' = [store EXCEPT ![p].data = d]
    /\ Answer(p, store'[p])

Remove(p) ==
    /\ store' = [store EXCEPT ![p] = None]
    /\ Answer(p, store[p])

Count ==
    /\ Answer(None, Cardinality({p \in Pairs : store[p] # None}))
    /\ UNCHANGED store

Next ==
    \/ \E v \in Value : Insert(v)
    \/ \E p \in Pairs : Get(p) \/ Remove(p) \/ \E d \in Data : Update(p, d)
    \/ Count

Spec == Init /\ [][Next]_vars
=============================================================================

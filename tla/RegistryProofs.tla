--------------------------- MODULE RegistryProofs ---------------------------
(***************************************************************************)
(* The handler registry for any types and any number of groups, handlers,  *)
(* declarations and dispatches.                                            *)
(***************************************************************************)
EXTENDS HandlerRegistry, SequenceTheorems, TLAPS

-----------------------------------------------------------------------------
(***************************************************************************)
(* The inductive invariant: what the properties need on top of themselves. *)
(***************************************************************************)

\* The borrows end with the registration phase.
BorrowsInv == handle \/ chain => cur = None

IdsInv == \A p \in Places : EntryAt(p).id <= count

\* A group's state is what the last call that wrote it left.
LastWrite(g, n) ==
    /\ n <= Len(ran)
    /\ n = 0 \/ (ran[n].wrote /\ ran[n].group = g)
    /\ \A k \in n + 1 .. Len(ran) : ran[k].group = g => ~ran[k].wrote

StateInv ==
    /\ \A g \in DOMAIN groups : LastWrite(g, groups[g].state)
    /\ \A i \in DOMAIN ran : ran[i].group \in DOMAIN groups

\* Every message of the outbox was declared by a handler of the type at hand.
OutboxInv ==
    cur # None => \A i \in DOMAIN outbox :
        \E p \in Places : EntryAt(p).on = cur /\ outbox[i].type \in EntryAt(p).produces

Inv == /\ TypeOK /\ BorrowsInv
       /\ IdsInv /\ WalkIsRegistrationOrder
       /\ StateInv /\ SeesOwnGroupsState
       /\ OutboxInv

-----------------------------------------------------------------------------
\* Sequences of groups.

LEMMA PlacesIn ==
    ASSUME NEW gs \in Seq(Group)
    PROVE  \A p : p \in UNION {{g} \X DOMAIN gs[g].entries : g \in DOMAIN gs} <=>
                    /\ p = <<p[1], p[2]>>
                    /\ p[1] \in 1 .. Len(gs)
                    /\ p[2] \in 1 .. Len(gs[p[1]].entries)
<1>1. DOMAIN gs = 1 .. Len(gs)
  OBVIOUS
<1>2. ASSUME NEW g \in DOMAIN gs
      PROVE  DOMAIN gs[g].entries = 1 .. Len(gs[g].entries)
  <2>1. gs[g] \in Group
    OBVIOUS
  <2>2. gs[g].entries \in Seq(Entry)
    BY <2>1 DEF Group
  <2> QED
    BY <2>2
<1> QED
  BY <1>1, <1>2

LEMMA PlaceIs ==
    ASSUME groups \in Seq(Group)
    PROVE  \A p : p \in Places <=> /\ p = <<p[1], p[2]>>
                                   /\ p[1] \in 1 .. Len(groups)
                                   /\ p[2] \in 1 .. Len(groups[p[1]].entries)
BY PlacesIn DEF Places

LEMMA NextPlaceIs ==
    ASSUME groups' \in Seq(Group)
    PROVE  \A p : p \in Places' <=> /\ p = <<p[1], p[2]>>
                                    /\ p[1] \in 1 .. Len(groups')
                                    /\ p[2] \in 1 .. Len(groups'[p[1]].entries)
BY PlacesIn DEF Places

LEMMA EntryIs ==
    ASSUME groups \in Seq(Group), NEW p \in Places
    PROVE  /\ EntryAt(p) \in Entry /\ p \in (Nat \ {0}) \X (Nat \ {0})
           /\ p[1] \in DOMAIN groups
<1>1. /\ p = <<p[1], p[2]>> /\ p[1] \in 1 .. Len(groups)
      /\ p[2] \in 1 .. Len(groups[p[1]].entries)
  BY PlaceIs
<1>2. groups[p[1]] \in Group
  BY <1>1
<1>3. groups[p[1]].entries \in Seq(Entry)
  BY <1>2 DEF Group
<1>4. groups[p[1]].entries[p[2]] \in Entry
  BY <1>1, <1>3
<1> QED
  BY <1>1, <1>3, <1>4 DEF EntryAt

\* Another value for one group.
LEMMA GroupReplaced ==
    ASSUME NEW gs \in Seq(Group), NEW n \in DOMAIN gs, NEW h \in Group,
           NEW hs, hs = [gs EXCEPT ![n] = h]
    PROVE  /\ hs \in Seq(Group) /\ Len(hs) = Len(gs) /\ DOMAIN hs = DOMAIN gs /\ hs[n] = h
           /\ \A g \in DOMAIN gs : g # n => hs[g] = gs[g]
<1>1. Len(gs) \in Nat /\ DOMAIN gs = 1 .. Len(gs) /\ \A g \in DOMAIN gs : gs[g] \in Group
  OBVIOUS
<1>2. hs \in [1 .. Len(gs) -> Group]
  BY <1>1
<1>3. hs \in Seq(Group)
  BY <1>1, <1>2
<1>4. Len(hs) = Len(gs)
  BY <1>1, <1>2, <1>3
<1> QED
  BY <1>3, <1>4

\* Adding an entry behind the last of a group.
LEMMA EntryAppended ==
    ASSUME groups \in Seq(Group), NEW n \in DOMAIN groups, NEW e \in Entry,
           groups' = [groups EXCEPT ![n].entries = Append(@, e)]
    PROVE  /\ groups' \in Seq(Group) /\ Len(groups') = Len(groups)
           /\ \A g \in DOMAIN groups : groups'[g].kind = groups[g].kind /\ groups'[g].state = groups[g].state
           /\ \A g \in DOMAIN groups : g # n => groups'[g].entries = groups[g].entries
           /\ groups[n].entries \in Seq(Entry) /\ groups'[n].entries = Append(groups[n].entries, e)
<1> DEFINE h == [groups[n] EXCEPT !.entries = Append(groups[n].entries, e)]
<1>1. groups[n] \in Group
  OBVIOUS
<1>2. groups[n].entries \in Seq(Entry)
  BY <1>1 DEF Group
<1>3. Append(groups[n].entries, e) \in Seq(Entry)
  BY <1>2
<1>4. h \in Group /\ h.kind = groups[n].kind /\ h.state = groups[n].state
      /\ h.entries = Append(groups[n].entries, e)
  BY <1>1, <1>3 DEF Group
<1>5. groups' = [groups EXCEPT ![n] = h]
  BY Zenon
<1>6. PICK k \in Group : k = h /\ groups' = [groups EXCEPT ![n] = k]
  BY <1>4, <1>5, Zenon
<1> HIDE DEF h
<1>7. /\ groups' \in Seq(Group) /\ Len(groups') = Len(groups) /\ DOMAIN groups' = DOMAIN groups /\ groups'[n] = k
      /\ \A g \in DOMAIN groups : g # n => groups'[g] = groups[g]
  <2> SUFFICES ASSUME NEW ks, ks = [groups EXCEPT ![n] = k]
               PROVE  /\ ks \in Seq(Group) /\ Len(ks) = Len(groups) /\ DOMAIN ks = DOMAIN groups
                      /\ ks[n] = k /\ \A g \in DOMAIN groups : g # n => ks[g] = groups[g]
    BY <1>6, Zenon
  <2> QED
    BY GroupReplaced
<1>8. ASSUME NEW g \in DOMAIN groups
      PROVE  groups'[g].kind = groups[g].kind /\ groups'[g].state = groups[g].state
  BY <1>4, <1>6, <1>7, Zenon
<1> QED
  BY <1>2, <1>4, <1>6, <1>7, <1>8, Zenon

\* A group is appended.
LEMMA GroupAppended ==
    ASSUME NEW gs \in Seq(Group), NEW g \in Group, NEW hs, hs = Append(gs, g)
    PROVE  /\ hs \in Seq(Group) /\ Len(hs) = Len(gs) + 1 /\ hs[Len(gs) + 1] = g
           /\ \A h \in DOMAIN gs : hs[h] = gs[h]
OBVIOUS

-----------------------------------------------------------------------------
(***************************************************************************)
(* What the steps do to the places. Registration adds one behind all       *)
(* others; every other step leaves the places and who is at them alone.    *)
(***************************************************************************)
Grown(e) ==
    /\ groups' \in Seq(Group) /\ Len(groups') >= Len(groups)
    /\ \A g \in DOMAIN groups : groups'[g].state = groups[g].state
    /\ \A g \in DOMAIN groups' : g > Len(groups) => groups'[g].state = 0
    /\ groups'[Len(groups')].entries # <<>>
    /\ \E p \in Places' :
         /\ \A q \in Places' : q = p \/ q \in Places
         /\ EntryAt(p)' = e
         /\ \A q \in Places : q \in Places' /\ Earlier(q, p) /\ EntryAt(q)' = EntryAt(q)

\* What a place is reached by never changes.
Kept ==
    /\ groups' \in Seq(Group) /\ Len(groups') >= Len(groups)
    /\ Places' = Places
    /\ \A q \in Places : /\ EntryAt(q)'.on = EntryAt(q).on /\ EntryAt(q)'.id = EntryAt(q).id
                         /\ EntryAt(q).produces \subseteq EntryAt(q)'.produces

LEMMA GrownInLast ==
    ASSUME groups \in Seq(Group), groups # <<>>, NEW e \in Entry,
           groups' = [groups EXCEPT ![Len(groups)].entries = Append(@, e)]
    PROVE  /\ Grown(e) /\ Len(groups') = Len(groups)
           /\ \A g \in DOMAIN groups : groups'[g].kind = groups[g].kind
<1>1. PICK n : /\ n = Len(groups) /\ n \in Nat \ {0}
               /\ n \in DOMAIN groups /\ DOMAIN groups = 1 .. n
  OBVIOUS
<1>2. /\ groups' \in Seq(Group) /\ Len(groups') = n
      /\ \A g \in DOMAIN groups : groups'[g].kind = groups[g].kind
                                  /\ groups'[g].state = groups[g].state
      /\ \A g \in DOMAIN groups : g # n => groups'[g].entries = groups[g].entries
      /\ groups[n].entries \in Seq(Entry) /\ groups'[n].entries = Append(groups[n].entries, e)
  <2>1. groups' = [groups EXCEPT ![n].entries = Append(@, e)]
    BY <1>1
  <2> QED
    BY <1>1, <2>1, EntryAppended, Zenon
<1>a. PICK m : m = Len(groups[n].entries)
  OBVIOUS
<1>c. PICK p : p = <<n, m + 1>>
  OBVIOUS
<1>b. p = <<n, m + 1>> /\ p[1] = n /\ p[2] = m + 1
  BY <1>c
<1>3. m \in Nat /\ Len(groups'[n].entries) = m + 1 /\ groups'[n].entries[m + 1] = e
      /\ \A k \in 1 .. m : groups'[n].entries[k] = groups[n].entries[k]
  BY <1>2, <1>a
<1>4. \A q : q \in Places <=> /\ q = <<q[1], q[2]>> /\ q[1] \in 1 .. n
                              /\ q[2] \in 1 .. Len(groups[q[1]].entries)
  BY <1>1, PlaceIs
<1>5. \A q : q \in Places' <=> /\ q = <<q[1], q[2]>> /\ q[1] \in 1 .. n
                               /\ q[2] \in 1 .. Len(groups'[q[1]].entries)
  BY <1>2, NextPlaceIs
<1>6. p \in Places'
  BY <1>1, <1>3, <1>5, <1>b
<1>7. ASSUME NEW q \in Places', q # p PROVE q \in Places
  <2>1. /\ q = <<q[1], q[2]>> /\ q[1] \in 1 .. n /\ q[2] \in 1 .. Len(groups'[q[1]].entries)
    BY <1>5
  <2>2. CASE q[1] = n
    <3>1. q[2] # m + 1
      BY <1>7, <1>b, <2>1, <2>2
    <3> QED
      BY <1>a, <1>3, <1>4, <2>1, <2>2, <3>1
  <2>3. CASE q[1] # n
    BY <1>1, <1>2, <1>4, <2>1, <2>3
  <2> QED
    BY <2>2, <2>3
<1>8. EntryAt(p)' = e
  BY <1>3, <1>b DEF EntryAt
<1>9. ASSUME NEW q \in Places
      PROVE  q \in Places' /\ Earlier(q, p) /\ EntryAt(q)' = EntryAt(q)
  <2>1. /\ q = <<q[1], q[2]>> /\ q[1] \in 1 .. n /\ q[2] \in 1 .. Len(groups[q[1]].entries)
    BY <1>4
  <2>2. CASE q[1] = n
    <3>1. q[2] \in 1 .. m /\ q[2] \in 1 .. Len(groups'[q[1]].entries) /\ q[2] < m + 1
      BY <1>3, <2>1, <2>2, <1>a
    <3>2. q \in Places'
      BY <1>5, <2>1, <3>1, Zenon
    <3>3. Earlier(q, p)
      BY <2>2, <3>1, <1>b DEF Earlier
    <3>4. groups'[n].entries[q[2]] = groups[n].entries[q[2]]
      BY <1>3, <3>1, Zenon
    <3>5. EntryAt(q)' = EntryAt(q)
      BY <2>2, <3>4, Zenon DEF EntryAt
    <3> QED
      BY <3>2, <3>3, <3>5
  <2>3. CASE q[1] # n
    <3>1. groups'[q[1]].entries = groups[q[1]].entries /\ q[1] < n
      BY <1>1, <1>2, <2>1, <2>3
    <3>2. q \in Places'
      BY <1>5, <2>1, <3>1
    <3>3. Earlier(q, p)
      BY <3>1, <1>b DEF Earlier
    <3>4. EntryAt(q)' = EntryAt(q)
      BY <3>1, Zenon DEF EntryAt
    <3> QED
      BY <3>2, <3>3, <3>4
  <2> QED
    BY <2>2, <2>3
<1>10. groups'[Len(groups')].entries # <<>>
  BY <1>2, <1>3
<1> QED
  BY <1>1, <1>2, <1>6, <1>7, <1>8, <1>9, <1>10 DEF Grown

LEMMA GrownByGroup ==
    ASSUME groups \in Seq(Group), NEW e \in Entry,
           groups' = Append(groups, [kind |-> "Stateless", state |-> 0, entries |-> <<e>>])
    PROVE  Grown(e) /\ Len(groups') = Len(groups) + 1
<1> DEFINE new == [kind |-> "Stateless", state |-> 0, entries |-> <<e>>]
<1>1. PICK n : n = Len(groups) /\ n \in Nat /\ DOMAIN groups = 1 .. n
  OBVIOUS
<1>c. PICK p : p = <<n + 1, 1>>
  OBVIOUS
<1>b. p = <<n + 1, 1>> /\ p[1] = n + 1 /\ p[2] = 1
  BY <1>c
<1>2. new \in Group /\ new.state = 0 /\ new.entries = <<e>>
  <2>1. <<e>> \in Seq(Entry)
    OBVIOUS
  <2> QED
    BY <2>1 DEF Group
<1>3. groups' = Append(groups, new)
  OBVIOUS
<1> HIDE DEF new
<1>4. /\ groups' \in Seq(Group) /\ Len(groups') = n + 1 /\ groups'[n + 1] = new
      /\ \A h \in DOMAIN groups : groups'[h] = groups[h]
  BY <1>1, <1>2, <1>3, GroupAppended
<1>5. \A q : q \in Places <=> /\ q = <<q[1], q[2]>> /\ q[1] \in 1 .. n
                              /\ q[2] \in 1 .. Len(groups[q[1]].entries)
  BY <1>1, PlaceIs
<1>6. \A q : q \in Places' <=> /\ q = <<q[1], q[2]>> /\ q[1] \in 1 .. n + 1
                               /\ q[2] \in 1 .. Len(groups'[q[1]].entries)
  BY <1>4, NextPlaceIs
<1>7. Len(groups'[n + 1].entries) = 1
  <2>1. groups'[n + 1].entries = <<e>>
    BY <1>2, <1>4, Zenon
  <2>2. Len(<<e>>) = 1
    OBVIOUS
  <2> QED
    BY <2>1, <2>2, Zenon
<1>8. p \in Places'
  <2>1. p = <<p[1], p[2]>> /\ p[1] \in 1 .. n + 1 /\ p[2] \in 1 .. 1
    BY <1>1, <1>b
  <2>2. Len(groups'[p[1]].entries) = 1
    BY <1>7, <1>b, Zenon
  <2> QED
    BY <1>6, <2>1, <2>2, Zenon
<1>9. ASSUME NEW q \in Places', q # p PROVE q \in Places
  <2>1. /\ q = <<q[1], q[2]>> /\ q[1] \in 1 .. n + 1 /\ q[2] \in 1 .. Len(groups'[q[1]].entries)
    BY <1>6
  <2>2. CASE q[1] = n + 1
    <3>1. Len(groups'[q[1]].entries) = 1
      BY <1>7, <2>2, Zenon
    <3>2. q[2] \in 1 .. 1
      BY <2>1, <3>1, Zenon
    <3> QED
      BY <1>9, <1>b, <2>1, <2>2, <3>2
  <2>3. CASE q[1] # n + 1
    BY <1>1, <1>4, <1>5, <2>1, <2>3
  <2> QED
    BY <2>2, <2>3
<1>10. EntryAt(p)' = e
  BY <1>2, <1>4, <1>b DEF EntryAt
<1>11. ASSUME NEW q \in Places
       PROVE  q \in Places' /\ Earlier(q, p) /\ EntryAt(q)' = EntryAt(q)
  <2>1. /\ q = <<q[1], q[2]>> /\ q[1] \in 1 .. n /\ q[2] \in 1 .. Len(groups[q[1]].entries)
    BY <1>5
  <2> QED
    BY <1>1, <1>4, <1>6, <1>b, <2>1 DEF EntryAt, Earlier
<1>12. /\ groups'[Len(groups')].entries # <<>>
       /\ \A g \in DOMAIN groups' : g > n => groups'[g].state = 0
  BY <1>1, <1>2, <1>4
<1> QED
  BY <1>1, <1>4, <1>8, <1>9, <1>10, <1>11, <1>12 DEF Grown

\* The steps of registration.
LEMMA RegisterGrows ==
    ASSUME TypeOK, NEW t \in Types, On(t) \/ (BorrowsInv /\ OnState(t))
    PROVE  /\ Grown(NewEntry(t)) /\ cur = None /\ Len(groups') <= MaxGroups
           /\ handle' => groups'[Len(groups')].kind = "Stateful"
<1>1. NewEntry(t) \in Entry
  BY DEF NewEntry, Entry, TypeOK
<1>2. CASE On(t) /\ groups # <<>> /\ groups[Len(groups)].kind = "Stateless"
  <2>1. groups' = [groups EXCEPT ![Len(groups)].entries = Append(@, NewEntry(t))]
    BY <1>2 DEF On, PushStateless
  <2>2. Grown(NewEntry(t))
    BY <1>1, <1>2, <2>1, GrownInLast DEF TypeOK
  <2> QED
    BY <1>2, <2>2 DEF On, Idle
<1>3. CASE On(t) /\ ~(groups # <<>> /\ groups[Len(groups)].kind = "Stateless")
  <2>1. groups' = Append(groups, [kind |-> "Stateless", state |-> 0,
                                  entries |-> <<NewEntry(t)>>])
    BY <1>3 DEF On, PushStateless
  <2>2. Grown(NewEntry(t))
    BY <1>1, <2>1, GrownByGroup DEF TypeOK
  <2> QED
    BY <1>3, <2>2 DEF On, Idle
<1>4. CASE BorrowsInv /\ OnState(t)
  <2>1. groups # <<>> /\ groups[Len(groups)].kind = "Stateful" /\ cur = None
    BY <1>4 DEF OnState, TypeOK, BorrowsInv
  <2>2. groups' = [groups EXCEPT ![Len(groups)].entries = Append(@, NewEntry(t))]
    BY <1>4 DEF OnState
  <2>3. /\ Grown(NewEntry(t)) /\ Len(groups') = Len(groups)
        /\ \A g \in DOMAIN groups : groups'[g].kind = groups[g].kind
    BY <1>1, <2>1, <2>2, GrownInLast DEF TypeOK
  <2>4. Len(groups) \in DOMAIN groups
    BY <2>1 DEF TypeOK
  <2> QED
    BY <2>1, <2>3, <2>4 DEF TypeOK
<1> QED
  BY <1>2, <1>3, <1>4

LEMMA OpenStateKeeps ==
    ASSUME TypeOK, OpenState
    PROVE  /\ Kept /\ Len(groups') = Len(groups) + 1
           /\ \A g \in DOMAIN groups : groups'[g] = groups[g]
           /\ groups'[Len(groups')].state = 0 /\ groups'[Len(groups')].kind = "Stateful"
<1> DEFINE new == [kind |-> "Stateful", state |-> 0, entries |-> <<>>]
<1>1. PICK n : n = Len(groups) /\ n \in Nat /\ DOMAIN groups = 1 .. n
  BY DEF TypeOK
<1>2. new \in Group /\ new.state = 0 /\ new.entries = <<>> /\ new.kind = "Stateful"
  BY DEF Group
<1>3. groups' = Append(groups, new) /\ groups \in Seq(Group)
  BY DEF OpenState, TypeOK
<1> HIDE DEF new
<1>4. /\ groups' \in Seq(Group) /\ Len(groups') = n + 1 /\ groups'[n + 1] = new
      /\ \A h \in DOMAIN groups : groups'[h] = groups[h]
  BY <1>1, <1>2, <1>3, GroupAppended
<1>5. Len(groups'[n + 1].entries) = 0
  BY <1>2, <1>4
<1>6. ASSUME NEW q PROVE q \in Places' <=> q \in Places
  <2>1. q \in Places' <=> /\ q = <<q[1], q[2]>> /\ q[1] \in 1 .. n + 1
                          /\ q[2] \in 1 .. Len(groups'[q[1]].entries)
    BY <1>4, NextPlaceIs
  <2>2. q \in Places <=> /\ q = <<q[1], q[2]>> /\ q[1] \in 1 .. n
                         /\ q[2] \in 1 .. Len(groups[q[1]].entries)
    BY <1>1, <1>3, PlaceIs
  <2>3. CASE q[1] = n + 1
    <3>1. Len(groups'[q[1]].entries) = 0
      BY <1>5, <2>3, Zenon
    <3> QED
      BY <1>1, <2>1, <2>2, <2>3, <3>1
  <2>4. CASE q[1] # n + 1
    BY <1>1, <1>4, <2>1, <2>2, <2>4
  <2> QED
    BY <2>3, <2>4
<1>7. ASSUME NEW q \in Places PROVE EntryAt(q)' = EntryAt(q)
  <2>1. q[1] \in DOMAIN groups
    BY <1>3, EntryIs
  <2> QED
    BY <1>4, <2>1 DEF EntryAt
<1>8. Places' = Places
  BY <1>6, Zenon
<1> QED
  BY <1>1, <1>2, <1>4, <1>7, <1>8 DEF Kept

LEMMA ReplacedKeeps ==
    ASSUME groups \in Seq(Group), NEW n \in DOMAIN groups, NEW k \in Group,
           groups' = [groups EXCEPT ![n] = k],
           Len(k.entries) = Len(groups[n].entries),
           \A j \in 1 .. Len(k.entries) :
               /\ k.entries[j].on = groups[n].entries[j].on
               /\ k.entries[j].id = groups[n].entries[j].id
               /\ groups[n].entries[j].produces \subseteq k.entries[j].produces
    PROVE  /\ Kept /\ Len(groups') = Len(groups) /\ DOMAIN groups' = DOMAIN groups
           /\ groups'[n] = k /\ \A g \in DOMAIN groups : g # n => groups'[g] = groups[g]
<1>1. /\ groups' \in Seq(Group) /\ Len(groups') = Len(groups) /\ DOMAIN groups' = DOMAIN groups
      /\ groups'[n] = k /\ \A g \in DOMAIN groups : g # n => groups'[g] = groups[g]
  BY GroupReplaced
<1>2. /\ Len(groups) \in Nat /\ DOMAIN groups = 1 .. Len(groups)
      /\ \A q : q \in Places' <=> /\ q = <<q[1], q[2]>> /\ q[1] \in 1 .. Len(groups)
                                  /\ q[2] \in 1 .. Len(groups'[q[1]].entries)
      /\ \A q : q \in Places <=> /\ q = <<q[1], q[2]>> /\ q[1] \in 1 .. Len(groups)
                                 /\ q[2] \in 1 .. Len(groups[q[1]].entries)
  BY <1>1, PlaceIs, NextPlaceIs
<1>3. \A g \in DOMAIN groups : Len(groups'[g].entries) = Len(groups[g].entries)
  BY <1>1, Zenon
<1>4. Places' = Places
  <2>1. ASSUME NEW q PROVE q \in Places' <=> q \in Places
    BY <1>2, <1>3
  <2> QED
    BY <2>1, Zenon
<1>5. ASSUME NEW q \in Places
      PROVE  /\ EntryAt(q)'.on = EntryAt(q).on /\ EntryAt(q)'.id = EntryAt(q).id
             /\ EntryAt(q).produces \subseteq EntryAt(q)'.produces
  <2>1. q[1] \in DOMAIN groups /\ q[2] \in 1 .. Len(groups[q[1]].entries)
    BY <1>2
  <2>2. CASE q[1] = n
    BY <1>1, <2>1, <2>2, Zenon DEF EntryAt
  <2>3. CASE q[1] # n
    BY <1>1, <2>1, <2>3 DEF EntryAt
  <2> QED
    BY <2>2, <2>3
<1> QED
  BY <1>1, <1>2, <1>4, <1>5 DEF Kept

\* Where the entry is that produces() is called on.
LastPlace == <<Len(groups), Len(groups[Len(groups)].entries)>>

LEMMA ProducesKeeps ==
    ASSUME TypeOK, NEW t \in Types, Produces(t)
    PROVE  /\ Kept /\ Len(groups') = Len(groups) /\ DOMAIN groups' = DOMAIN groups
           /\ \A g \in DOMAIN groups : groups'[g].state = groups[g].state
                                       /\ groups'[g].kind = groups[g].kind
           /\ groups'[Len(groups)].entries # <<>>
           /\ \A q \in Places : EntryAt(q)'.produces =
                 IF q = LastPlace THEN EntryAt(q).produces \cup {t} ELSE EntryAt(q).produces
<1>1. PICK n : n = Len(groups) /\ n \in DOMAIN groups
  BY DEF TypeOK, Produces
<1>2. groups[n] \in Group
  BY <1>1 DEF TypeOK
<1>3. groups[n].entries \in Seq(Entry) /\ groups[n].entries # <<>>
  BY <1>1, <1>2 DEF Group, TypeOK, Produces
<1>4. PICK m : m = Len(groups[n].entries) /\ m \in 1 .. Len(groups[n].entries)
  BY <1>3
<1> DEFINE es == groups[n].entries
           e == [es[m] EXCEPT !.produces = @ \cup {t}]
           fs == [es EXCEPT ![m] = e]
           k == [groups[n] EXCEPT !.entries = fs]
<1>5. /\ e \in Entry /\ e.on = es[m].on /\ e.id = es[m].id
      /\ e.produces = es[m].produces \cup {t}
  <2>1. es[m] \in Entry
    BY <1>3, <1>4
  <2> QED
    BY <2>1 DEF Entry
<1>6. groups' = [groups EXCEPT ![n] = k]
  BY <1>1, <1>4, Zenon DEF Produces
<1>7. es \in Seq(Entry) /\ m \in DOMAIN es
  BY <1>3, <1>4
<1> HIDE DEF e
<1>8. fs \in Seq(Entry) /\ Len(fs) = Len(es) /\ fs[m] = e
      /\ \A j \in 1 .. Len(es) : j # m => fs[j] = es[j]
  <2> HIDE DEF es
  <2>1. es \in [1 .. Len(es) -> Entry] /\ Len(es) \in Nat /\ DOMAIN es = 1 .. Len(es)
    BY <1>7
  <2>2. fs \in [1 .. Len(es) -> Entry]
    BY <1>5, <1>7, <2>1
  <2>3. fs \in Seq(Entry) /\ Len(fs) = Len(es)
    BY <2>1, <2>2
  <2> QED
    BY <1>7, <2>1, <2>3
<1> HIDE DEF fs
<1>9. /\ k \in Group /\ k.entries = fs /\ k.state = groups[n].state
      /\ k.kind = groups[n].kind
  BY <1>2, <1>8 DEF Group
<1>10. Len(k.entries) = Len(groups[n].entries)
  BY <1>8, <1>9, Zenon
<1>11. ASSUME NEW j \in 1 .. Len(k.entries)
       PROVE  /\ k.entries[j].on = groups[n].entries[j].on
              /\ k.entries[j].id = groups[n].entries[j].id
              /\ groups[n].entries[j].produces \subseteq k.entries[j].produces
  <2>1. k.entries[j] = fs[j] /\ j \in 1 .. Len(es)
    BY <1>9, <1>10, Zenon
  <2>2. CASE j = m
    BY <1>5, <1>8, <2>1, <2>2
  <2>3. CASE j # m
    BY <1>8, <2>1, <2>3
  <2> QED
    BY <2>2, <2>3
<1> HIDE DEF k
<1>12. PICK kk \in Group : kk = k /\ groups' = [groups EXCEPT ![n] = kk]
  BY <1>6, <1>9, Zenon
<1>13. /\ Kept /\ Len(groups') = Len(groups) /\ DOMAIN groups' = DOMAIN groups
       /\ groups'[n] = kk /\ \A g \in DOMAIN groups : g # n => groups'[g] = groups[g]
  <2>1. groups \in Seq(Group)
    BY DEF TypeOK
  <2> QED
    BY <1>1, <1>10, <1>11, <1>12, <2>1, ReplacedKeeps, Zenon
<1>14. kk.entries # <<>>
  BY <1>4, <1>8, <1>9, <1>12
<1>15. ASSUME NEW q \in Places
       PROVE  EntryAt(q)'.produces =
                 IF q = LastPlace THEN EntryAt(q).produces \cup {t} ELSE EntryAt(q).produces
  <2>1. q = <<q[1], q[2]>> /\ q[1] \in DOMAIN groups /\ q[2] \in 1 .. Len(groups[q[1]].entries)
    <3>1. groups \in Seq(Group)
      BY DEF TypeOK
    <3> QED
      BY <3>1, PlaceIs
  <2>2. LastPlace = <<n, m>>
    BY <1>1, <1>4 DEF LastPlace
  <2>3. CASE q[1] = n /\ q[2] = m
    <3>1. q = LastPlace
      BY <2>1, <2>2, <2>3
    <3>2. EntryAt(q)' = e /\ EntryAt(q) = es[m]
      BY <1>8, <1>9, <1>12, <1>13, <2>3, Zenon DEF EntryAt
    <3> QED
      BY <1>5, <3>1, <3>2
  <2>4. CASE q[1] = n /\ q[2] # m
    <3>1. q # LastPlace
      BY <2>2, <2>4
    <3>2. fs[q[2]] = es[q[2]]
      BY <1>8, <2>1, <2>4
    <3>3. EntryAt(q)' = EntryAt(q)
      BY <1>9, <1>12, <1>13, <2>4, <3>2, Zenon DEF EntryAt
    <3> QED
      BY <3>1, <3>3
  <2>5. CASE q[1] # n
    <3>1. q # LastPlace
      BY <2>2, <2>5
    <3>2. EntryAt(q)' = EntryAt(q)
      BY <1>13, <2>1, <2>5 DEF EntryAt
    <3> QED
      BY <3>1, <3>2
  <2> QED
    BY <2>3, <2>4, <2>5
<1> QED
  BY <1>1, <1>9, <1>12, <1>13, <1>14, <1>15

LEMMA InvokeKeeps ==
    ASSUME TypeOK, NEW p \in Places, NEW wrote \in BOOLEAN, Invoke(p, wrote)
    PROVE  /\ Kept /\ Len(groups') = Len(groups) /\ DOMAIN groups' = DOMAIN groups
           /\ p[1] \in DOMAIN groups
           /\ groups'[p[1]].state = StateLeft(p[1], wrote)
           /\ \A g \in DOMAIN groups : groups'[g].kind = groups[g].kind
                                       /\ groups'[g].entries = groups[g].entries
           /\ \A g \in DOMAIN groups : g # p[1] => groups'[g] = groups[g]
<1>1. groups \in Seq(Group) /\ p[1] \in DOMAIN groups
  BY EntryIs DEF TypeOK
<1>2. groups[p[1]] \in Group
  BY <1>1
<1> DEFINE s == StateLeft(p[1], wrote)
           k == [groups[p[1]] EXCEPT !.state = s]
<1>3. s \in Nat
  <2>1. groups[p[1]].state \in Nat
    BY <1>2 DEF Group
  <2> QED
    BY <2>1 DEF StateLeft, TypeOK
<1>4. groups' = [groups EXCEPT ![p[1]] = k]
  BY Zenon DEF Invoke
<1> HIDE DEF s
<1>5. /\ k \in Group /\ k.state = s /\ k.entries = groups[p[1]].entries
      /\ k.kind = groups[p[1]].kind
  BY <1>2, <1>3 DEF Group
<1> HIDE DEF k
<1>6. PICK kk \in Group : kk = k /\ groups' = [groups EXCEPT ![p[1]] = kk]
  BY <1>4, <1>5, Zenon
<1>7. /\ Kept /\ Len(groups') = Len(groups) /\ DOMAIN groups' = DOMAIN groups
      /\ groups'[p[1]] = kk /\ \A g \in DOMAIN groups : g # p[1] => groups'[g] = groups[g]
  BY <1>1, <1>5, <1>6, ReplacedKeeps
<1> QED
  BY <1>1, <1>5, <1>6, <1>7, Zenon DEF s

-----------------------------------------------------------------------------
(***************************************************************************)
(* The steps.                                                              *)
(***************************************************************************)
Register == \E t \in Types : On(t) \/ OnState(t)

\* Steps that change neither a group nor the record of calls.
Aside == \/ \E t \in Types : BeginDispatch(t) \/ Send(t)
         \/ EndDispatch

LEMMA Steps ==
    ASSUME Next
    PROVE  \/ Register \/ OpenState \/ Aside
           \/ \E t \in Types : Produces(t)
           \/ \E p \in Places, wrote \in BOOLEAN : Invoke(p, wrote)
BY DEF Next, Register, Aside

LEMMA InitOk == Init => Inv
<1> SUFFICES ASSUME Init PROVE Inv
  OBVIOUS
<1>1. groups = <<>> /\ groups \in Seq(Group) /\ Len(groups) = 0 /\ DOMAIN groups = {}
  BY DEF Init
<1>2. Places = {}
  BY <1>1 DEF Places
<1>3. ran = <<>> /\ DOMAIN ran = {} /\ ran \in Seq(Call) /\ outbox \in Seq(Sent)
  BY DEF Init
<1>4. TypeOK
  <2>1. <<0, 0>> \in Nat \X Nat
    OBVIOUS
  <2>2. MaxGroups \in Nat
    BY BoundsAssumption
  <2>3. /\ ~handle /\ handle \in BOOLEAN /\ ~chain /\ chain \in BOOLEAN
        /\ panicked \in BOOLEAN /\ cur = None /\ pos = <<0, 0>>
        /\ count = 0 /\ dispatches = 0
    BY Zenon DEF Init
  <2> QED
    BY <1>1, <1>3, <2>1, <2>2, <2>3 DEF TypeOK
<1>5. IdsInv /\ WalkIsRegistrationOrder
  BY <1>2 DEF IdsInv, WalkIsRegistrationOrder
<1>6. StateInv /\ SeesOwnGroupsState
  BY <1>1, <1>3 DEF StateInv, SeesOwnGroupsState
<1>7. OutboxInv /\ BorrowsInv
  BY DEF Init, OutboxInv, BorrowsInv
<1> QED
  BY <1>4, <1>5, <1>6, <1>7 DEF Inv

\* The steps that leave groups alone leave the places alone.
LEMMA AsidePlaces ==
    ASSUME groups \in Seq(Group), groups' = groups
    PROVE  Kept /\ Places' = Places /\ \A q \in Places : EntryAt(q)' = EntryAt(q)
BY DEF Kept, Places, EntryAt

LEMMA PosStays ==
    ASSUME TypeOK, Kept, UNCHANGED <<cur, pos>>
    PROVE  (cur # None /\ pos # <<0, 0>> => pos \in Places /\ EntryAt(pos).on = cur)'
<1> SUFFICES ASSUME cur # None, pos # <<0, 0>>
             PROVE  pos \in Places' /\ EntryAt(pos)'.on = cur
  BY DEF EntryAt
<1>1. pos \in Places /\ EntryAt(pos).on = cur
  BY DEF TypeOK
<1> QED
  BY <1>1 DEF Kept

LEMMA TypeStep ==
    ASSUME TypeOK, BorrowsInv, Next
    PROVE  TypeOK' /\ BorrowsInv'
<1>1. CASE Register
  <2>1. PICK t \in Types : On(t) \/ OnState(t)
    BY <1>1 DEF Register
  <2>2. /\ Grown(NewEntry(t)) /\ cur = None /\ Len(groups') <= MaxGroups
        /\ handle' => groups'[Len(groups')].kind = "Stateful"
    BY <2>1, RegisterGrows
  <2>3. /\ UNCHANGED <<cur, pos, outbox, panicked, dispatches, ran>>
        /\ handle' \in BOOLEAN /\ chain' \in BOOLEAN /\ count' \in Nat
    <3>0. count \in Nat /\ handle \in BOOLEAN
      BY DEF TypeOK
    <3>1. CASE On(t)
      <4>1. count' = count + 1 /\ chain' = TRUE /\ handle' = FALSE
        BY <3>1 DEF On
      <4>2. UNCHANGED <<cur, pos, outbox, panicked, dispatches, ran>>
        BY <3>1 DEF On
      <4>3. handle' \in BOOLEAN /\ chain' \in BOOLEAN /\ count' \in Nat
        <5>1. count' \in Nat
          BY <3>0, <4>1
        <5> QED
          BY <4>1, <5>1, Zenon
      <4> QED
        BY <4>2, <4>3, Zenon
    <3>2. CASE OnState(t)
      BY <3>2 DEF OnState, TypeOK
    <3> QED
      BY <2>1, <3>1, <3>2
  <2>4. groups' # <<>>
    <3>1. \E p : p \in Places'
      BY <2>2 DEF Grown
    <3> QED
      BY <3>1 DEF Places
  <2> QED
    BY <2>2, <2>3, <2>4 DEF TypeOK, BorrowsInv, Grown
<1>2. CASE OpenState
  <2>1. /\ Kept /\ Len(groups') = Len(groups) + 1
        /\ groups'[Len(groups')].kind = "Stateful"
    BY <1>2, OpenStateKeeps
  <2>2. groups' # <<>> /\ groups' \in Seq(Group) /\ Len(groups') <= MaxGroups
    BY <1>2, <2>1, BoundsAssumption DEF OpenState, TypeOK, Kept
  <2>3. /\ UNCHANGED <<cur, pos, outbox, panicked, count, dispatches, ran>>
        /\ handle' = TRUE /\ chain' = FALSE /\ cur = None
    BY <1>2 DEF OpenState, Idle
  <2> QED
    BY <2>1, <2>2, <2>3 DEF TypeOK, BorrowsInv
<1>3. CASE \E t \in Types : Produces(t)
  <2>1. PICK t \in Types : Produces(t)
    BY <1>3
  <2>2. /\ Kept /\ Len(groups') = Len(groups) /\ DOMAIN groups' = DOMAIN groups
        /\ \A g \in DOMAIN groups : groups'[g].kind = groups[g].kind
        /\ groups'[Len(groups)].entries # <<>>
    BY <2>1, ProducesKeeps
  <2>3. UNCHANGED <<borrows, cur, pos, outbox, panicked, count, dispatches, ran>> /\ chain
    BY <2>1 DEF Produces
  <2>4. (cur # None /\ pos # <<0, 0>> => pos \in Places /\ EntryAt(pos).on = cur)'
    BY <2>2, <2>3, PosStays
  <2>5. groups # <<>> /\ Len(groups) \in DOMAIN groups /\ groups' # <<>>
    BY <2>2, <2>3 DEF TypeOK, Kept
  <2>6. groups' \in Seq(Group) /\ Len(groups') <= MaxGroups
    BY <2>2 DEF Kept, TypeOK
  <2> QED
    BY <2>2, <2>3, <2>4, <2>5, <2>6 DEF TypeOK, BorrowsInv, borrows
<1>4. CASE \E p \in Places, wrote \in BOOLEAN : Invoke(p, wrote)
  <2>1. PICK p \in Places, wrote \in BOOLEAN : Invoke(p, wrote)
    BY <1>4
  <2>2. /\ Kept /\ Len(groups') = Len(groups) /\ DOMAIN groups' = DOMAIN groups
        /\ p[1] \in DOMAIN groups
        /\ \A g \in DOMAIN groups : groups'[g].kind = groups[g].kind
                                    /\ groups'[g].entries = groups[g].entries
    BY <2>1, InvokeKeeps
  <2>3. /\ UNCHANGED <<borrows, cur, outbox, panicked, count, dispatches>>
        /\ cur # None /\ pos' = p /\ p \in Remaining
    BY <2>1 DEF Invoke
  <2>4. ~handle /\ ~chain
    BY <2>3 DEF BorrowsInv
  <2>5. ran' \in Seq(Call)
    <3>1. EntryAt(p) \in Entry /\ p \in (Nat \ {0}) \X (Nat \ {0})
      BY EntryIs DEF TypeOK
    <3>2. groups[p[1]] \in Group
      BY <2>2 DEF TypeOK
    <3>3. [id |-> EntryAt(p).id, group |-> p[1], saw |-> groups[p[1]].state,
           wrote |-> wrote /\ groups[p[1]].kind = "Stateful"] \in Call
      BY <3>1, <3>2 DEF Call, Group, Entry
    <3> QED
      BY <2>1, <3>3 DEF Invoke, TypeOK
  <2>6. p \in Nat \X Nat
    BY EntryIs DEF TypeOK
  <2>7. p \in Places' /\ EntryAt(p)'.on = cur
    BY <2>2, <2>3 DEF Kept, Remaining
  <2>8. pos' \in Places' /\ EntryAt(pos)'.on = cur
    BY <2>3, <2>7 DEF EntryAt
  <2> QED
    BY <2>2, <2>3, <2>4, <2>5, <2>6, <2>8 DEF TypeOK, BorrowsInv, borrows, Kept
<1>5. CASE Aside
  <2>1. groups' = groups /\ UNCHANGED <<ran, count>>
    BY <1>5 DEF Aside, BeginDispatch, Send, EndDispatch
  <2>2. Kept /\ Places' = Places /\ \A q \in Places : EntryAt(q)' = EntryAt(q)
    BY <2>1, AsidePlaces DEF TypeOK
  <2>3. CASE \E t \in Types : BeginDispatch(t)
    <3>1. PICK t \in Types : BeginDispatch(t)
      BY <2>3
    <3>2. /\ cur' = t /\ pos' = <<0, 0>> /\ outbox' = <<>> /\ ~handle' /\ ~chain'
          /\ handle' \in BOOLEAN /\ chain' \in BOOLEAN /\ dispatches' = dispatches + 1
          /\ panicked' = panicked
      BY <3>1 DEF BeginDispatch
    <3>3. <<0, 0>> \in Nat \X Nat /\ outbox' \in Seq(Sent)
      BY <3>2
    <3> QED
      BY <2>1, <3>2, <3>3 DEF TypeOK, BorrowsInv
  <2>4. CASE \E t \in Types : Send(t)
    <3>1. PICK t \in Types : Send(t)
      BY <2>4
    <3>2. (cur # None /\ pos # <<0, 0>> => pos \in Places /\ EntryAt(pos).on = cur)'
      BY <2>2, <3>1, PosStays DEF Send
    <3>3. UNCHANGED <<borrows, cur, pos, count, dispatches>> /\ cur # None /\ pos # <<0, 0>>
      BY <3>1 DEF Send
    <3>4. EntryAt(pos) \in Entry
      BY <3>3, EntryIs DEF TypeOK
    <3>5. outbox' \in Seq(Sent) /\ panicked' \in BOOLEAN
      <4>1. [by |-> EntryAt(pos).id, type |-> t] \in Sent
        BY <3>4 DEF Sent, Entry
      <4>2. CASE t \in EntryAt(pos).produces
        <5>1. /\ outbox' = Append(outbox, [by |-> EntryAt(pos).id, type |-> t])
              /\ panicked' = panicked
          BY <3>1, <4>2 DEF Send
        <5> QED
          BY <4>1, <5>1 DEF TypeOK
      <4>3. CASE t \notin EntryAt(pos).produces
        BY <3>1, <4>3 DEF Send, TypeOK
      <4> QED
        BY <4>2, <4>3
    <3> QED
      BY <2>1, <3>2, <3>3, <3>5 DEF TypeOK, BorrowsInv, borrows
  <2>5. CASE EndDispatch
    BY <2>1, <2>5 DEF EndDispatch, TypeOK, BorrowsInv, borrows
  <2> QED
    BY <1>5, <2>3, <2>4, <2>5 DEF Aside
<1> QED
  BY <1>1, <1>2, <1>3, <1>4, <1>5, Steps


LEMMA WalkKept ==
    ASSUME IdsInv, WalkIsRegistrationOrder, Kept, count' = count
    PROVE  IdsInv' /\ WalkIsRegistrationOrder'
<1>1. Places' = Places /\ \A q \in Places : EntryAt(q)'.id = EntryAt(q).id
  BY DEF Kept
<1>2. IdsInv'
  BY <1>1 DEF IdsInv
<1>3. \A q, r \in Places' : Earlier(q, r) <=> EntryAt(q)'.id < EntryAt(r)'.id
  BY <1>1 DEF WalkIsRegistrationOrder
<1>4. WalkIsRegistrationOrder'
  BY <1>3 DEF WalkIsRegistrationOrder, Earlier
<1> QED
  BY <1>2, <1>4

LEMMA WalkStep ==
    ASSUME TypeOK, BorrowsInv, IdsInv, WalkIsRegistrationOrder, Next
    PROVE  IdsInv' /\ WalkIsRegistrationOrder'
<1>1. CASE Register
  <2>1. PICK t \in Types : On(t) \/ OnState(t)
    BY <1>1 DEF Register
  <2>2. Grown(NewEntry(t)) /\ NewEntry(t).id = count + 1
    BY <2>1, RegisterGrows DEF NewEntry
  <2>3. PICK p \in Places' :
          /\ \A q \in Places' : q = p \/ q \in Places
          /\ EntryAt(p)'.id = count + 1
          /\ \A q \in Places : q \in Places' /\ Earlier(q, p) /\ EntryAt(q)' = EntryAt(q)
    BY <2>2 DEF Grown
  <2>4. count' = count + 1 /\ count \in Nat
    BY <2>1 DEF On, OnState, TypeOK
  <2>5. \A q \in Places : EntryAt(q).id \in Nat /\ EntryAt(q).id <= count
    BY EntryIs DEF TypeOK, IdsInv, Entry
  <2>6. ASSUME NEW q \in Places' PROVE EntryAt(q)'.id <= count'
    BY <2>3, <2>4, <2>5
  <2>7. ASSUME NEW q \in Places', NEW r \in Places'
        PROVE  Earlier(q, r) <=> EntryAt(q)'.id < EntryAt(r)'.id
    <3>1. CASE q \in Places /\ r \in Places
      BY <2>3, <3>1 DEF WalkIsRegistrationOrder
    <3>2. CASE q \in Places /\ r = p
      <4>1. Earlier(q, r) /\ EntryAt(q)'.id = EntryAt(q).id /\ EntryAt(r)'.id = count + 1
        BY <2>3, <3>2, Zenon
      <4>2. EntryAt(q).id < count + 1
        BY <2>4, <2>5, <3>2
      <4> QED
        BY <4>1, <4>2
    <3>3. CASE q = p /\ r \in Places
      <4>1. Earlier(r, p) /\ ~(count + 1 < EntryAt(r).id)
        BY <2>3, <2>4, <2>5, <3>3
      <4>2. r \in (Nat \ {0}) \X (Nat \ {0}) /\ p \in Places' /\ groups' \in Seq(Group)
        BY <3>3, EntryIs, <2>2 DEF TypeOK, Grown
      <4>3. p[1] \in Nat /\ p[2] \in Nat
        BY <4>2, NextPlaceIs
      <4>4. ~Earlier(p, r)
        BY <4>1, <4>2, <4>3 DEF Earlier
      <4> QED
        BY <2>3, <3>3, <4>1, <4>4
    <3>4. CASE q = p /\ r = p
      <4>1. groups' \in Seq(Group)
        BY <2>2 DEF Grown
      <4>2. p[1] \in Nat /\ p[2] \in Nat
        BY <4>1, NextPlaceIs
      <4> QED
        BY <2>3, <2>4, <3>4, <4>2 DEF Earlier
    <3> QED
      BY <2>3, <3>1, <3>2, <3>3, <3>4
  <2>8. IdsInv'
    BY <2>6 DEF IdsInv
  <2>9. WalkIsRegistrationOrder'
    BY <2>7 DEF WalkIsRegistrationOrder, Earlier
  <2> QED
    BY <2>8, <2>9
<1>2. (Kept /\ count' = count) => IdsInv' /\ WalkIsRegistrationOrder'
  BY WalkKept
<1>3. CASE OpenState
  BY <1>2, <1>3, OpenStateKeeps DEF OpenState
<1>4. CASE \E t \in Types : Produces(t)
  <2>1. PICK t \in Types : Produces(t)
    BY <1>4
  <2> QED
    BY <1>2, <2>1, ProducesKeeps DEF Produces
<1>5. CASE \E p \in Places, wrote \in BOOLEAN : Invoke(p, wrote)
  <2>1. PICK p \in Places, wrote \in BOOLEAN : Invoke(p, wrote)
    BY <1>5
  <2> QED
    BY <1>2, <2>1, InvokeKeeps DEF Invoke
<1>6. CASE Aside
  <2>1. groups' = groups /\ count' = count
    BY <1>6 DEF Aside, BeginDispatch, Send, EndDispatch
  <2> QED
    BY <1>2, <2>1, AsidePlaces DEF TypeOK
<1> QED
  BY <1>1, <1>3, <1>4, <1>5, <1>6, Steps

\* Which group's state was written when: nothing but a call changes it.
LEMMA StateStays ==
    ASSUME TypeOK, StateInv, SeesOwnGroupsState, ran' = ran,
           groups' \in Seq(Group), Len(groups') >= Len(groups),
           \A g \in DOMAIN groups : groups'[g].state = groups[g].state,
           \A g \in DOMAIN groups' : g > Len(groups) => groups'[g].state = 0
    PROVE  StateInv' /\ SeesOwnGroupsState'
<1>1. /\ Len(groups) \in Nat /\ Len(groups') \in Nat
      /\ DOMAIN groups = 1 .. Len(groups) /\ DOMAIN groups' = 1 .. Len(groups')
      /\ Len(ran) \in Nat /\ DOMAIN ran = 1 .. Len(ran)
  BY DEF TypeOK
<1>2. ASSUME NEW g \in DOMAIN groups' PROVE LastWrite(g, groups'[g].state)
  <2>1. CASE g \in DOMAIN groups
    BY <2>1 DEF StateInv
  <2>2. CASE g \notin DOMAIN groups
    <3>1. groups'[g].state = 0
      BY <1>1, <2>2
    <3>2. \A i \in DOMAIN ran : ran[i].group # g
      BY <2>2 DEF StateInv
    <3> QED
      BY <1>1, <3>1, <3>2 DEF LastWrite
  <2> QED
    BY <2>1, <2>2
<1>3. ASSUME NEW i \in DOMAIN ran PROVE ran[i].group \in DOMAIN groups'
  BY <1>1 DEF StateInv
<1> QED
  BY <1>2, <1>3 DEF StateInv, SeesOwnGroupsState, LastWrite, LastWriteBefore

LEMMA StateAfterCall ==
    ASSUME TypeOK, StateInv, SeesOwnGroupsState, NEW p \in Places, NEW wrote \in BOOLEAN,
           Invoke(p, wrote)
    PROVE  StateInv' /\ SeesOwnGroupsState'
<1> DEFINE n == Len(ran)
           g0 == p[1]
           w == wrote /\ groups[g0].kind = "Stateful"
           c == [id |-> EntryAt(p).id, group |-> g0, saw |-> groups[g0].state, wrote |-> w]
<1>1. /\ DOMAIN groups' = DOMAIN groups /\ g0 \in DOMAIN groups
      /\ groups'[g0].state = StateLeft(g0, wrote)
      /\ \A g \in DOMAIN groups : g # g0 => groups'[g] = groups[g]
  BY InvokeKeeps
<1>2. n \in Nat /\ DOMAIN ran = 1 .. n
  BY DEF TypeOK
<1>3. /\ ran' = Append(ran, c) /\ Len(ran') = n + 1 /\ DOMAIN ran' = 1 .. n + 1
      /\ ran'[n + 1] = c /\ \A i \in 1 .. n : ran'[i] = ran[i]
  <2>1. ran' = Append(ran, c) /\ ran \in Seq(Call)
    BY DEF Invoke, TypeOK
  <2> HIDE DEF c
  <2> QED
    BY <1>2, <2>1
<1>4. c.group = g0 /\ c.saw = groups[g0].state /\ c.wrote = w
  OBVIOUS
<1>5. groups'[g0].state = IF w THEN n + 1 ELSE groups[g0].state
  BY <1>1 DEF StateLeft
<1>6. \A g \in DOMAIN groups : groups[g].state \in Nat
  <2>1. ASSUME NEW g \in DOMAIN groups PROVE groups[g].state \in Nat
    <3>1. groups[g] \in Group
      BY DEF TypeOK
    <3> QED
      BY <3>1 DEF Group
  <2> QED
    BY <2>1
<1> HIDE DEF c, w
<1>7. ASSUME NEW g \in DOMAIN groups'
      PROVE  /\ groups'[g].state <= n + 1
             /\ groups'[g].state = 0 \/ (ran'[groups'[g].state].wrote
                                         /\ ran'[groups'[g].state].group = g)
             /\ \A k \in groups'[g].state + 1 .. n + 1 : ran'[k].group = g => ~ran'[k].wrote
  <2>1. /\ groups[g].state <= n
        /\ groups[g].state = 0 \/ (ran[groups[g].state].wrote
                                   /\ ran[groups[g].state].group = g)
        /\ \A k \in groups[g].state + 1 .. n : ran[k].group = g => ~ran[k].wrote
    BY <1>1 DEF StateInv, LastWrite
  <2>2. groups[g].state \in Nat
    BY <1>1, <1>6
  <2>3. CASE g # g0
    <3>1. groups'[g].state = groups[g].state
      BY <1>1, <2>3
    <3>2. ran'[n + 1].group # g
      BY <1>3, <1>4, <2>3
    <3> QED
      BY <1>2, <1>3, <2>1, <2>2, <3>1, <3>2
  <2>4. CASE g = g0 /\ w
    <3>1. groups'[g].state = n + 1
      BY <1>5, <2>4
    <3>2. ran'[n + 1].wrote /\ ran'[n + 1].group = g
      BY <1>3, <1>4, <2>4, Zenon
    <3> HIDE DEF n
    <3> QED
      BY <1>2, <3>1, <3>2
  <2>5. CASE g = g0 /\ ~w
    <3>1. groups'[g].state = groups[g].state
      BY <1>5, <2>5
    <3>2. ~ran'[n + 1].wrote
      BY <1>3, <1>4, <2>5
    <3> QED
      BY <1>2, <1>3, <2>1, <2>2, <3>1, <3>2
  <2> QED
    BY <2>3, <2>4, <2>5
<1>8. ASSUME NEW i \in DOMAIN ran' PROVE ran'[i].group \in DOMAIN groups'
  <2>1. CASE i = n + 1
    BY <1>1, <1>3, <1>4, <2>1
  <2>2. CASE i \in 1 .. n
    BY <1>1, <1>2, <1>3, <2>2 DEF StateInv
  <2> QED
    BY <1>2, <1>3, <2>1, <2>2
<1>9. ASSUME NEW i \in DOMAIN ran'
      PROVE  /\ ran'[i].saw < i
             /\ ran'[i].saw = 0 \/ (ran'[ran'[i].saw].wrote
                                    /\ ran'[ran'[i].saw].group = ran'[i].group)
             /\ \A k \in ran'[i].saw + 1 .. i - 1 : ran'[k].group = ran'[i].group
                                                    => ~ran'[k].wrote
  <2>1. CASE i = n + 1
    <3>1. /\ groups[g0].state <= n /\ groups[g0].state \in Nat
          /\ groups[g0].state = 0 \/ (ran[groups[g0].state].wrote
                                      /\ ran[groups[g0].state].group = g0)
          /\ \A k \in groups[g0].state + 1 .. n : ran[k].group = g0 => ~ran[k].wrote
      BY <1>1, <1>6 DEF StateInv, LastWrite
    <3>2. ran'[i].saw = groups[g0].state /\ ran'[i].group = g0
      BY <1>3, <1>4, <2>1
    <3> HIDE DEF g0
    <3> QED
      BY <1>2, <1>3, <2>1, <3>1, <3>2
  <2>2. CASE i \in 1 .. n
    <3>1. /\ ran[i].saw < i /\ ran[i].saw \in Nat
          /\ ran[i].saw = 0 \/ (ran[ran[i].saw].wrote
                                /\ ran[ran[i].saw].group = ran[i].group)
          /\ \A k \in ran[i].saw + 1 .. i - 1 : ran[k].group = ran[i].group
                                                => ~ran[k].wrote
      <4>1. ran[i] \in Call
        BY <1>2, <2>2 DEF TypeOK
      <4> QED
        BY <1>2, <2>2, <4>1 DEF SeesOwnGroupsState, LastWriteBefore, Call
    <3>2. ran'[i] = ran[i]
      BY <1>3, <2>2
    <3>3. ran[i].saw # 0 => ran'[ran[i].saw] = ran[ran[i].saw]
      BY <1>2, <1>3, <2>2, <3>1
    <3>4. \A k \in ran[i].saw + 1 .. i - 1 : ran'[k] = ran[k]
      BY <1>2, <1>3, <2>2, <3>1
    <3> QED
      BY <3>1, <3>2, <3>3, <3>4, Zenon
  <2>3. i = n + 1 \/ i \in 1 .. n
    BY <1>2, <1>3
  <2> QED
    BY <2>1, <2>2, <2>3, Zenon
<1>10. StateInv'
  <2>1. ASSUME NEW g \in DOMAIN groups' PROVE LastWrite(g, groups[g].state)'
    <3> HIDE DEF n
    <3>1. Len(ran') = n + 1
      BY <1>3
    <3> QED
      BY <1>7, <3>1 DEF LastWrite
  <2> QED
    BY <1>8, <2>1, Zenon DEF StateInv
<1>11. SeesOwnGroupsState'
  BY <1>9 DEF SeesOwnGroupsState, LastWriteBefore
<1> QED
  BY <1>10, <1>11


LEMMA StateStep ==
    ASSUME TypeOK, BorrowsInv, StateInv, SeesOwnGroupsState, Next
    PROVE  StateInv' /\ SeesOwnGroupsState'
<1>0. Len(groups) \in Nat /\ DOMAIN groups = 1 .. Len(groups) /\ groups \in Seq(Group)
  BY DEF TypeOK
<1>1. CASE Register
  <2>1. PICK t \in Types : On(t) \/ OnState(t)
    BY <1>1 DEF Register
  <2>2. Grown(NewEntry(t)) /\ ran' = ran
    BY <2>1, RegisterGrows DEF On, OnState
  <2> QED
    BY <2>2, StateStays DEF Grown
<1>2. CASE OpenState
  <2>1. /\ Kept /\ Len(groups') = Len(groups) + 1 /\ ran' = ran
        /\ \A g \in DOMAIN groups : groups'[g] = groups[g]
        /\ groups'[Len(groups')].state = 0
    BY <1>2, OpenStateKeeps DEF OpenState
  <2>2. groups' \in Seq(Group)
    BY <2>1 DEF Kept
  <2>3. \A g \in DOMAIN groups' : g > Len(groups) => groups'[g].state = 0
    <3>1. ASSUME NEW g \in DOMAIN groups', g > Len(groups) PROVE g = Len(groups')
      BY <1>0, <2>1, <2>2, <3>1
    <3> QED
      BY <2>1, <3>1
  <2>4. \A g \in DOMAIN groups : groups'[g].state = groups[g].state
    BY <2>1
  <2>5. Len(groups') >= Len(groups)
    BY <1>0, <2>1
  <2> QED
    BY <2>1, <2>2, <2>3, <2>4, <2>5, StateStays
<1>3. CASE \E t \in Types : Produces(t)
  <2>1. PICK t \in Types : Produces(t)
    BY <1>3
  <2>2. /\ Kept /\ Len(groups') = Len(groups) /\ DOMAIN groups' = DOMAIN groups
        /\ \A g \in DOMAIN groups : groups'[g].state = groups[g].state
    BY <2>1, ProducesKeeps
  <2>3. ran' = ran
    BY <2>1 DEF Produces
  <2>4. groups' \in Seq(Group) /\ Len(groups') >= Len(groups)
    BY <1>0, <2>2 DEF Kept
  <2>5. \A g \in DOMAIN groups' : g > Len(groups) => groups'[g].state = 0
    BY <1>0, <2>2
  <2> QED
    BY <2>2, <2>3, <2>4, <2>5, StateStays
<1>4. CASE \E p \in Places, wrote \in BOOLEAN : Invoke(p, wrote)
  BY <1>4, StateAfterCall
<1>5. CASE Aside
  <2>1. groups' = groups /\ ran' = ran
    BY <1>5 DEF Aside, BeginDispatch, Send, EndDispatch
  <2>2. \A g \in DOMAIN groups' : g > Len(groups) => groups'[g].state = 0
    BY <1>0, <2>1
  <2> QED
    BY <1>0, <2>1, <2>2, StateStays
<1> QED
  BY <1>1, <1>2, <1>3, <1>4, <1>5, Steps

LEMMA OutboxStep ==
    ASSUME TypeOK, BorrowsInv, OutboxInv, Next
    PROVE  OutboxInv'
<1>1. ASSUME Kept, UNCHANGED <<cur, outbox>> PROVE OutboxInv'
  <2> SUFFICES ASSUME cur # None, NEW i \in DOMAIN outbox
               PROVE  \E p \in Places' : EntryAt(p)'.on = cur
                                         /\ outbox[i].type \in EntryAt(p)'.produces
    BY <1>1 DEF OutboxInv, EntryAt
  <2>1. PICK p \in Places : EntryAt(p).on = cur /\ outbox[i].type \in EntryAt(p).produces
    BY DEF OutboxInv
  <2> QED
    BY <1>1, <2>1 DEF Kept
<1>2. CASE Register
  BY <1>2, RegisterGrows DEF Register, On, OnState, OutboxInv
<1>3. CASE OpenState
  BY <1>1, <1>3, OpenStateKeeps DEF OpenState
<1>4. CASE \E t \in Types : Produces(t)
  <2>1. PICK t \in Types : Produces(t)
    BY <1>4
  <2> QED
    BY <1>1, <2>1, ProducesKeeps DEF Produces
<1>5. CASE \E p \in Places, wrote \in BOOLEAN : Invoke(p, wrote)
  <2>1. PICK p \in Places, wrote \in BOOLEAN : Invoke(p, wrote)
    BY <1>5
  <2> QED
    BY <1>1, <2>1, InvokeKeeps DEF Invoke
<1>6. CASE \E t \in Types : BeginDispatch(t)
  <2>1. outbox' = <<>>
    BY <1>6 DEF BeginDispatch
  <2> QED
    BY <2>1 DEF OutboxInv
<1>7. CASE \E t \in Types : Send(t)
  <2>1. PICK t \in Types : Send(t)
    BY <1>7
  <2>2. /\ groups' = groups /\ cur' = cur /\ pos \in Places /\ EntryAt(pos).on = cur
    BY <2>1 DEF Send, TypeOK
  <2>3. Kept
    BY <2>2, AsidePlaces DEF TypeOK
  <2>4. CASE t \notin EntryAt(pos).produces
    BY <1>1, <2>1, <2>2, <2>3, <2>4 DEF Send
  <2>5. CASE t \in EntryAt(pos).produces
    <3>1. outbox' = Append(outbox, [by |-> EntryAt(pos).id, type |-> t])
      BY <2>1, <2>5 DEF Send
    <3>2. \A i \in DOMAIN outbox' : outbox'[i].type = t \/ (i \in DOMAIN outbox
                                                           /\ outbox'[i] = outbox[i])
      BY <3>1 DEF TypeOK
    <3>3. Places' = Places /\ \A q \in Places : EntryAt(q)' = EntryAt(q)
      BY <2>2, AsidePlaces DEF TypeOK
    <3> SUFFICES ASSUME cur # None, NEW i \in DOMAIN outbox'
                 PROVE  \E p \in Places : EntryAt(p).on = cur
                                          /\ outbox'[i].type \in EntryAt(p).produces
      BY <2>2, <3>3, Zenon DEF OutboxInv
    <3>4. CASE outbox'[i].type = t
      BY <2>2, <2>5, <3>4
    <3>5. CASE i \in DOMAIN outbox /\ outbox'[i] = outbox[i]
      BY <3>5 DEF OutboxInv
    <3> QED
      BY <3>2, <3>4, <3>5
  <2> QED
    BY <2>4, <2>5
<1>8. CASE EndDispatch
  BY <1>8 DEF EndDispatch, OutboxInv
<1> QED
  BY <1>2, <1>3, <1>4, <1>5, <1>6, <1>7, <1>8, Steps DEF Aside

LEMMA Stutter ==
    ASSUME Inv, UNCHANGED vars
    PROVE  Inv'
<1>1. UNCHANGED <<groups, handle, chain, cur, pos, outbox, panicked, count, dispatches, ran>>
  BY DEF vars, borrows
<1>2. TypeOK'
  <2>1. TypeOK /\ Kept
    BY <1>1, AsidePlaces DEF Inv, TypeOK
  <2>2. (cur # None /\ pos # <<0, 0>> => pos \in Places /\ EntryAt(pos).on = cur)'
    BY <1>1, <2>1, PosStays
  <2>3. /\ groups' \in Seq(Group) /\ Len(groups') <= MaxGroups
        /\ handle' \in BOOLEAN /\ chain' \in BOOLEAN /\ panicked' \in BOOLEAN
        /\ cur' \in Types \cup {None} /\ pos' \in Nat \X Nat
        /\ outbox' \in Seq(Sent) /\ ran' \in Seq(Call)
        /\ count' \in Nat /\ dispatches' \in Nat
        /\ handle' => groups' # <<>> /\ groups'[Len(groups')].kind = "Stateful"
        /\ chain' => groups' # <<>> /\ groups'[Len(groups')].entries # <<>>
    BY <1>1, <2>1, Zenon DEF TypeOK
  <2> QED
    BY <2>2, <2>3 DEF TypeOK
<1>3. BorrowsInv' /\ IdsInv' /\ WalkIsRegistrationOrder'
  <2>1. Kept
    BY <1>1, AsidePlaces DEF Inv, TypeOK
  <2>2. IdsInv' /\ WalkIsRegistrationOrder'
    BY <1>1, <2>1, WalkKept DEF Inv
  <2> QED
    BY <1>1, <2>2 DEF Inv, BorrowsInv
<1>4. StateInv' /\ SeesOwnGroupsState'
  BY <1>1, Zenon DEF Inv, StateInv, SeesOwnGroupsState, LastWrite, LastWriteBefore
<1>5. OutboxInv'
  BY <1>1, Zenon DEF Inv, OutboxInv, Places, EntryAt
<1> QED
  BY <1>2, <1>3, <1>4, <1>5 DEF Inv

LEMMA AlwaysInv == Spec => []Inv
<1>1. Inv /\ [Next]_vars => Inv'
  <2>1. ASSUME Inv, Next PROVE Inv'
    BY <2>1, TypeStep, WalkStep, StateStep, OutboxStep DEF Inv
  <2> QED
    BY <2>1, Stutter
<1> QED
  BY <1>1, InitOk, PTL DEF Spec

-----------------------------------------------------------------------------
(***************************************************************************)
(* The theorems.                                                           *)
(***************************************************************************)

\* Type correctness: a handle always belongs to the last group, and that one is
\* stateful (the unreachable! and the expect of StateGroupHandle::on are never
\* reached); a dispatch stands at a handler of its type.
THEOREM RegistryTyping == Spec => []TypeOK
<1>1. Inv => TypeOK
  BY DEF Inv
<1> QED
  BY <1>1, AlwaysInv, PTL

\* However registrations on the registry and on its handles are mixed, the walk
\* over the groups meets the handlers in the order they were registered.
THEOREM GroupsKeepOrder == Spec => []WalkIsRegistrationOrder
<1>1. Inv => WalkIsRegistrationOrder
  BY DEF Inv
<1> QED
  BY <1>1, AlwaysInv, PTL

\* Every handler sees what the last writing call of its own group left, over any
\* number of dispatches: state is shared within a group and nowhere else.
THEOREM StateIsOfTheGroup == Spec => []SeesOwnGroupsState
<1>1. Inv => SeesOwnGroupsState
  BY DEF Inv
<1> QED
  BY <1>1, AlwaysInv, PTL

\* Whatever is in the outbox of a dispatch follows an edge that validation was
\* given, from a subscribed to a produced type.
THEOREM ViewsCoverSends == Spec => []SendsAreInViews
<1>1. Inv => SendsAreInViews
  <2> SUFFICES ASSUME OutboxInv, cur # None, NEW i \in DOMAIN outbox
               PROVE  /\ \E edge \in EdgeList : edge[1] = cur /\ outbox[i].type \in edge[2]
                      /\ cur \in SubscribedTypes /\ outbox[i].type \in ProducedTypes
    BY DEF Inv, SendsAreInViews
  <2>1. PICK p \in Places : EntryAt(p).on = cur /\ outbox[i].type \in EntryAt(p).produces
    BY DEF OutboxInv
  <2>2. PICK e : e \in Entries /\ e.on = cur /\ outbox[i].type \in e.produces
    BY <2>1 DEF Entries
  <2>3. <<e.on, e.produces>> \in EdgeList
    BY <2>2 DEF EdgeList
  <2>4. cur \in SubscribedTypes /\ outbox[i].type \in ProducedTypes
    BY <2>2 DEF SubscribedTypes, ProducedTypes
  <2> QED
    BY <2>2, <2>3, <2>4
<1> QED
  BY <1>1, AlwaysInv, PTL

-----------------------------------------------------------------------------
(***************************************************************************)
(* Refinement: the groups implement one flat list of handlers.             *)
(***************************************************************************)

\* The entries are numbered without a gap, and a dispatch, even one that is over,
\* stands at a place.
NumberInv ==
    /\ \A i \in 1 .. count : \E p \in Places : EntryAt(p).id = i
    /\ \A p \in Places : EntryAt(p).id \in 1 .. count
    /\ pos # <<0, 0>> => pos \in Places

\* Steps that leave the places alone keep the numbers.
LEMMA NumbersKept ==
    ASSUME NumberInv, Kept, count' = count,
           pos' = pos \/ pos' = <<0, 0>> \/ pos' \in Places
    PROVE  NumberInv'
<1>1. Places' = Places /\ \A q \in Places : EntryAt(q)'.id = EntryAt(q).id
  BY DEF Kept
<1>2. \A i \in 1 .. count : \E p \in Places' : EntryAt(p)'.id = i
  BY <1>1 DEF NumberInv
<1>3. \A p \in Places' : EntryAt(p)'.id \in 1 .. count
  BY <1>1 DEF NumberInv
<1>4. pos' # <<0, 0>> => pos' \in Places'
  BY <1>1 DEF NumberInv
<1> QED
  BY <1>2, <1>3, <1>4 DEF NumberInv

LEMMA NumberStep ==
    ASSUME TypeOK, BorrowsInv, NumberInv, [Next]_vars
    PROVE  NumberInv'
<1>1. CASE Register
  <2>1. PICK t \in Types : On(t) \/ OnState(t)
    BY <1>1 DEF Register
  <2>2. Grown(NewEntry(t)) /\ NewEntry(t).id = count + 1
    BY <2>1, RegisterGrows DEF NewEntry
  <2>3. PICK p \in Places' :
          /\ \A q \in Places' : q = p \/ q \in Places
          /\ EntryAt(p)'.id = count + 1
          /\ \A q \in Places : q \in Places' /\ EntryAt(q)' = EntryAt(q)
    BY <2>2 DEF Grown
  <2>4. count' = count + 1 /\ count \in Nat /\ pos' = pos
    BY <2>1 DEF On, OnState, TypeOK
  <2>5. \A i \in 1 .. count' : \E q \in Places' : EntryAt(q)'.id = i
    <3> SUFFICES ASSUME NEW i \in 1 .. count + 1 PROVE \E q \in Places' : EntryAt(q)'.id = i
      BY <2>4
    <3>1. CASE i = count + 1
      BY <2>3, <3>1
    <3>2. CASE i # count + 1
      <4>1. i \in 1 .. count
        BY <2>4, <3>2
      <4>2. PICK q \in Places : EntryAt(q).id = i
        BY <4>1 DEF NumberInv
      <4> QED
        BY <2>3, <4>2
    <3> QED
      BY <3>1, <3>2
  <2>6. \A q \in Places' : EntryAt(q)'.id \in 1 .. count'
    <3> SUFFICES ASSUME NEW q \in Places' PROVE EntryAt(q)'.id \in 1 .. count + 1
      BY <2>4
    <3>1. CASE q = p
      BY <2>3, <2>4, <3>1
    <3>2. CASE q \in Places
      <4>1. EntryAt(q).id \in 1 .. count /\ EntryAt(q)' = EntryAt(q)
        BY <2>3, <3>2 DEF NumberInv
      <4> QED
        BY <2>4, <4>1
    <3> QED
      BY <2>3, <3>1, <3>2
  <2>7. pos' # <<0, 0>> => pos' \in Places'
    BY <2>3, <2>4 DEF NumberInv
  <2> QED
    BY <2>5, <2>6, <2>7 DEF NumberInv
<1>2. CASE OpenState
  BY <1>2, OpenStateKeeps, NumbersKept DEF OpenState
<1>3. CASE \E t \in Types : Produces(t)
  <2>1. PICK t \in Types : Produces(t)
    BY <1>3
  <2> QED
    BY <2>1, ProducesKeeps, NumbersKept DEF Produces
<1>4. CASE \E p \in Places, wrote \in BOOLEAN : Invoke(p, wrote)
  <2>1. PICK p \in Places, wrote \in BOOLEAN : Invoke(p, wrote)
    BY <1>4
  <2> QED
    BY <2>1, InvokeKeeps, NumbersKept DEF Invoke
<1>5. CASE Aside
  <2>1. groups' = groups /\ count' = count /\ (pos' = pos \/ pos' = <<0, 0>>)
    BY <1>5 DEF Aside, BeginDispatch, Send, EndDispatch
  <2> QED
    BY <2>1, AsidePlaces, NumbersKept DEF TypeOK
<1>6. CASE UNCHANGED vars
  <2>1. UNCHANGED <<groups, count, pos>>
    BY <1>6 DEF vars
  <2> QED
    BY <2>1, AsidePlaces, NumbersKept DEF TypeOK
<1> QED
  BY <1>1, <1>2, <1>3, <1>4, <1>5, <1>6, Steps

LEMMA AlwaysNumbered == Spec => [](Inv /\ NumberInv)
<1>1. Init => NumberInv
  <2> SUFFICES ASSUME Init PROVE NumberInv
    OBVIOUS
  <2>1. Places = {} /\ count = 0 /\ pos = <<0, 0>>
    BY DEF Init, Places
  <2> QED
    BY <2>1 DEF NumberInv
<1>2. Inv /\ NumberInv /\ [Next]_vars => NumberInv'
  BY NumberStep DEF Inv
<1> QED
  BY <1>1, <1>2, AlwaysInv, PTL DEF Spec

-----------------------------------------------------------------------------
\* The number of an entry leads back to its place, in this state and the next.

LEMMA PlacesOrdered ==
    ASSUME TypeOK, NEW p \in Places, NEW q \in Places
    PROVE  p = q \/ Earlier(p, q) \/ Earlier(q, p)
<1>1. /\ p \in (Nat \ {0}) \X (Nat \ {0}) /\ q \in (Nat \ {0}) \X (Nat \ {0})
  BY EntryIs DEF TypeOK
<1> QED
  BY <1>1 DEF Earlier

LEMMA PlaceOfIs ==
    ASSUME Inv, NumberInv
    PROVE  /\ \A i \in 1 .. count : PlaceOf(i) \in Places /\ EntryAt(PlaceOf(i)).id = i
           /\ \A p \in Places : PlaceOf(EntryAt(p).id) = p
<1>1. ASSUME NEW i \in 1 .. count
      PROVE  PlaceOf(i) \in Places /\ EntryAt(PlaceOf(i)).id = i
  <2>1. \E p \in Places : EntryAt(p).id = i
    BY DEF NumberInv
  <2> QED
    BY <2>1 DEF PlaceOf
<1>2. ASSUME NEW p \in Places, NEW q \in Places, EntryAt(p).id = EntryAt(q).id
      PROVE  p = q
  <2>1. EntryAt(p).id \in Int
    BY EntryIs DEF Inv, TypeOK, Entry
  <2>2. ~Earlier(p, q) /\ ~Earlier(q, p)
    BY <1>2, <2>1 DEF Inv, WalkIsRegistrationOrder
  <2> QED
    BY <2>2, PlacesOrdered DEF Inv
<1> QED
  BY <1>1, <1>2 DEF NumberInv

\* The same for the state after a step that keeps the numbers.
LEMMA NextPlaceOf ==
    ASSUME Inv, NumberInv, NEW i \in 1 .. count, NEW P, Places' = P,
           \A q \in Places : q \in P /\ EntryAt(q)'.id = EntryAt(q).id,
           \A q \in P : q \in Places \/ EntryAt(q)'.id # i
    PROVE  PlaceOf(i)' = PlaceOf(i)
<1>1. PlaceOf(i) \in Places /\ EntryAt(PlaceOf(i)).id = i
  BY PlaceOfIs
<1>2. PlaceOf(i)' = CHOOSE p \in P : EntryAt(p)'.id = i
  BY DEF PlaceOf
<1>3. PICK r : r = PlaceOf(i)'
  OBVIOUS
<1>4. PICK p : p = PlaceOf(i)
  OBVIOUS
<1>5. p \in P /\ EntryAt(p)'.id = i
  BY <1>1, <1>4
<1>6. r \in P /\ EntryAt(r)'.id = i
  BY <1>2, <1>3, <1>5
<1>7. r \in Places /\ EntryAt(r).id = i
  BY <1>6
<1>8. r = p
  BY <1>4, <1>7, PlaceOfIs
<1> QED
  BY <1>3, <1>4, <1>8

\* A function on 1 .. n is a sequence, and what extends it by one element appends it.
LEMMA SequenceIs ==
    ASSUME NEW S, NEW n \in Nat, NEW f \in [1 .. n -> S]
    PROVE  f \in Seq(S) /\ Len(f) = n
OBVIOUS

LEMMA AppendIs ==
    ASSUME NEW S, NEW f \in Seq(S), NEW e \in S, NEW n, n = Len(f) + 1,
           NEW g \in [1 .. n -> S], g[n] = e, \A i \in 1 .. Len(f) : g[i] = f[i]
    PROVE  g = Append(f, e)
<1> DEFINE h == Append(f, e)
<1>1. Len(f) \in Nat /\ h \in [1 .. n -> S] /\ h[n] = e /\ \A i \in 1 .. Len(f) : h[i] = f[i]
  <2>1. h \in Seq(S) /\ Len(h) = n /\ h[n] = e /\ \A i \in 1 .. Len(f) : h[i] = f[i]
    BY AppendProperties
  <2> HIDE DEF h
  <2> QED
    BY <2>1
<1>2. \A i \in 1 .. n : g[i] = h[i]
  BY <1>1
<1> HIDE DEF h
<1>3. g = h
  BY <1>1, <1>2
<1> QED
  BY <1>3 DEF h

\* What the list holds.
LEMMA ListIs ==
    ASSUME Inv, NumberInv
    PROVE  /\ count \in Nat /\ List \in Seq([on : Types, produces : SUBSET Types])
           /\ Len(List) = count /\ DOMAIN List = 1 .. count
           /\ \A i \in 1 .. count : List[i] = [on |-> EntryAt(PlaceOf(i)).on,
                                            produces |-> EntryAt(PlaceOf(i)).produces]
           /\ \A p \in Places : /\ List[EntryAt(p).id].on = EntryAt(p).on
                                /\ List[EntryAt(p).id].produces = EntryAt(p).produces
<1>1. count \in Nat
  BY DEF Inv, TypeOK
<1>2. \A i \in 1 .. count : EntryAt(PlaceOf(i)) \in Entry
  BY PlaceOfIs, EntryIs DEF Inv, TypeOK
<1>3. \A i \in 1 .. count : [on |-> EntryAt(PlaceOf(i)).on, produces |-> EntryAt(PlaceOf(i)).produces]
                            \in [on : Types, produces : SUBSET Types]
  BY <1>2 DEF Entry
<1>4. List \in [1 .. count -> [on : Types, produces : SUBSET Types]]
  BY <1>3 DEF List
<1>5. List \in Seq([on : Types, produces : SUBSET Types]) /\ Len(List) = count
  BY <1>1, <1>4, SequenceIs
<1>6. \A p \in Places : /\ List[EntryAt(p).id].on = EntryAt(p).on
                        /\ List[EntryAt(p).id].produces = EntryAt(p).produces
  BY PlaceOfIs DEF List, NumberInv
<1> QED
  BY <1>1, <1>4, <1>5, <1>6 DEF List

\* Steps that change no entry do not change the list.
LEMMA ListKept ==
    ASSUME Inv, NumberInv, Kept, count' = count,
           \A q \in Places : EntryAt(q)'.produces = EntryAt(q).produces
    PROVE  List' = List
<1>1. ASSUME NEW i \in 1 .. count
      PROVE  /\ EntryAt(PlaceOf(i))'.on = EntryAt(PlaceOf(i)).on
             /\ EntryAt(PlaceOf(i))'.produces = EntryAt(PlaceOf(i)).produces
  <2>1. PlaceOf(i)' = PlaceOf(i)
    BY NextPlaceOf DEF Kept
  <2>2. PICK p \in Places : p = PlaceOf(i)
    BY PlaceOfIs
  <2>3. EntryAt(PlaceOf(i))' = EntryAt(p)'
    BY <2>1, <2>2 DEF EntryAt
  <2> QED
    BY <2>2, <2>3 DEF Kept
<1> QED
  BY <1>1 DEF List

\* Registering an entry appends it to the list.
LEMMA ListGrows ==
    ASSUME Inv, NumberInv, NumberInv', NEW t \in Types, Grown(NewEntry(t)), count' = count + 1
    PROVE  List' = Append(List, [on |-> t, produces |-> {}])
<1>1. PICK p \in Places' :
        /\ \A q \in Places' : q = p \/ q \in Places
        /\ EntryAt(p)' = NewEntry(t)
        /\ \A q \in Places : q \in Places' /\ EntryAt(q)' = EntryAt(q)
  BY DEF Grown
<1>2. /\ NewEntry(t).on = t /\ NewEntry(t).produces = {} /\ NewEntry(t).id = count + 1
      /\ count \in Nat
  BY DEF NewEntry, Inv, TypeOK
<1>3. ASSUME NEW i \in 1 .. count
      PROVE  EntryAt(PlaceOf(i))' = EntryAt(PlaceOf(i))
  <2>1. EntryAt(p)'.id # i
    BY <1>1, <1>2
  <2>2. PlaceOf(i)' = PlaceOf(i)
    BY <1>1, <2>1, NextPlaceOf
  <2>3. PICK q \in Places : q = PlaceOf(i)
    BY PlaceOfIs
  <2>4. EntryAt(PlaceOf(i))' = EntryAt(q)'
    BY <2>2, <2>3 DEF EntryAt
  <2> QED
    BY <1>1, <2>3, <2>4
<1>n. PICK n : n = count + 1
  OBVIOUS
<1>4. EntryAt(PlaceOf(n))' = NewEntry(t)
  <2>1. PICK r : r = (CHOOSE q \in Places' : EntryAt(q)'.id = n)
    OBVIOUS
  <2>2. r \in Places' /\ EntryAt(r)'.id = n
    BY <1>1, <1>2, <1>n, <2>1
  <2>3. r = p
    <3>1. ASSUME r \in Places PROVE FALSE
      <4>1. EntryAt(r).id \in 1 .. count /\ EntryAt(r)' = EntryAt(r)
        BY <1>1, <3>1 DEF NumberInv
      <4> QED
        BY <1>2, <1>n, <2>2, <4>1
    <3> QED
      BY <1>1, <2>2, <3>1
  <2>4. PlaceOf(n)' = p
    BY <2>1, <2>3 DEF PlaceOf
  <2>5. EntryAt(PlaceOf(n))' = EntryAt(p)'
    BY <2>4 DEF EntryAt
  <2> QED
    BY <1>1, <2>5
<1>5. List' = [i \in 1 .. n |-> [on |-> EntryAt(PlaceOf(i))'.on,
                                produces |-> EntryAt(PlaceOf(i))'.produces]]
  BY <1>n DEF List
<1>6. \A i \in 1 .. count : List'[i] = List[i]
  BY <1>2, <1>3, <1>5, <1>n DEF List
<1>7. List'[n] = [on |-> t, produces |-> {}]
  <2>1. n \in 1 .. n
    BY <1>2, <1>n
  <2>2. List'[n] = [on |-> EntryAt(PlaceOf(n))'.on, produces |-> EntryAt(PlaceOf(n))'.produces]
    BY <1>5, <2>1
  <2> QED
    BY <1>2, <1>4, <2>2
<1>8. PICK L, e : L = List' /\ e = [on |-> t, produces |-> {}]
  OBVIOUS
<1>9. L[n] = e /\ (\A i \in 1 .. count : L[i] = List[i]) /\ DOMAIN L = 1 .. n
      /\ L = [i \in 1 .. n |-> L[i]]
  BY <1>5, <1>6, <1>7, <1>8
<1>10. L = Append(List, e)
  <2> DEFINE S == [on : Types, produces : SUBSET Types]
  <2>1. Len(List) = count /\ List \in Seq(S) /\ e \in S
    BY <1>8, ListIs
  <2> HIDE DEF S
  <2>2. ASSUME NEW i \in 1 .. n PROVE L[i] \in S
    <3>1. i = n \/ i \in 1 .. count
      BY <1>2, <1>n
    <3>2. \A j \in 1 .. count : List[j] \in S
      BY <2>1
    <3> QED
      BY <1>9, <2>1, <3>1, <3>2
  <2>3. L \in [1 .. n -> S]
    BY <1>9, <2>2
  <2>4. n = Len(List) + 1 /\ \A i \in 1 .. Len(List) : L[i] = List[i]
    BY <1>n, <1>9, <2>1
  <2>5. PICK f \in Seq(S) : f = List
    BY <2>1
  <2>6. n = Len(f) + 1 /\ \A i \in 1 .. Len(f) : L[i] = f[i]
    BY <2>4, <2>5
  <2>7. L[n] = e
    BY <1>9
  <2>8. L = Append(f, e)
    BY <2>1, <2>3, <2>6, <2>7, AppendIs
  <2> QED
    BY <2>5, <2>8
<1> QED
  BY <1>8, <1>10

\* The entry that may still declare is the one registered last.
LEMMA LastIsNewest ==
    ASSUME Inv, NumberInv, chain
    PROVE  LastPlace \in Places /\ EntryAt(LastPlace).id = count /\ count \in 1 .. count
<1>1. groups \in Seq(Group) /\ groups # <<>> /\ groups[Len(groups)].entries # <<>> /\ count \in Nat
  BY DEF Inv, TypeOK
<1>2. PICK n : n = Len(groups) /\ n \in DOMAIN groups /\ n \in 1 .. Len(groups)
  BY <1>1
<1>3. groups[n] \in Group
  BY <1>1, <1>2
<1>4. groups[n].entries \in Seq(Entry) /\ groups[n].entries # <<>>
  BY <1>1, <1>2, <1>3 DEF Group
<1>5. PICK m : m = Len(groups[n].entries) /\ m \in 1 .. Len(groups[n].entries)
  BY <1>4
<1>6. LastPlace = <<n, m>>
  BY <1>2, <1>5 DEF LastPlace
<1>7. <<n, m>> \in Places
  BY <1>1, <1>2, <1>5, PlaceIs
<1>8. EntryAt(<<n, m>>).id \in 1 .. count
  BY <1>7 DEF NumberInv
<1>9. count \in 1 .. count
  BY <1>1, <1>8
<1>10. PICK p \in Places : EntryAt(p).id = count
  BY <1>9 DEF NumberInv
<1>11. p = <<p[1], p[2]>> /\ p[1] \in 1 .. n /\ p[2] \in 1 .. Len(groups[p[1]].entries)
  BY <1>1, <1>2, PlaceIs
<1>12. ASSUME p # <<n, m>> PROVE FALSE
  <2>1. Earlier(p, <<n, m>>)
    BY <1>2, <1>5, <1>11, <1>12 DEF Earlier
  <2>2. count < EntryAt(<<n, m>>).id
    BY <1>7, <1>10, <2>1 DEF Inv, WalkIsRegistrationOrder
  <2> QED
    BY <1>1, <1>8, <2>2
<1> QED
  BY <1>6, <1>7, <1>9, <1>10, <1>12

LEMMA ListDeclares ==
    ASSUME Inv, NumberInv, NEW t \in Types, Produces(t)
    PROVE  List # <<>> /\ List' = [List EXCEPT ![Len(List)].produces = @ \cup {t}]
<1>1. LastPlace \in Places /\ EntryAt(LastPlace).id = count /\ count \in 1 .. count /\ chain
  BY LastIsNewest DEF Produces
<1>2. /\ Kept /\ count' = count
      /\ \A q \in Places : EntryAt(q)'.produces =
            IF q = LastPlace THEN EntryAt(q).produces \cup {t} ELSE EntryAt(q).produces
  BY ProducesKeeps DEF Inv, Produces
<1>3. /\ Len(List) = count /\ DOMAIN List = 1 .. count
      /\ \A i \in 1 .. count : List[i] = [on |-> EntryAt(PlaceOf(i)).on,
                                       produces |-> EntryAt(PlaceOf(i)).produces]
  BY ListIs
<1>4. ASSUME NEW i \in 1 .. count
      PROVE  /\ EntryAt(PlaceOf(i))'.on = EntryAt(PlaceOf(i)).on
             /\ EntryAt(PlaceOf(i))'.produces =
                  IF i = count THEN EntryAt(PlaceOf(i)).produces \cup {t}
                  ELSE EntryAt(PlaceOf(i)).produces
  <2>1. PlaceOf(i)' = PlaceOf(i)
    BY <1>2, NextPlaceOf DEF Kept
  <2>2. PICK p \in Places : p = PlaceOf(i)
    BY PlaceOfIs
  <2>3. EntryAt(PlaceOf(i))' = EntryAt(p)'
    BY <2>1, <2>2 DEF EntryAt
  <2>4. EntryAt(p)'.on = EntryAt(p).on
    BY <1>2 DEF Kept
  <2>5. p = LastPlace <=> i = count
    BY <1>1, <2>2, PlaceOfIs
  <2> QED
    BY <1>2, <2>2, <2>3, <2>4, <2>5
<1>5. List' = [i \in 1 .. count |-> [on |-> EntryAt(PlaceOf(i)).on,
                  produces |-> IF i = count THEN EntryAt(PlaceOf(i)).produces \cup {t}
                               ELSE EntryAt(PlaceOf(i)).produces]]
  <2>1. List' = [i \in 1 .. count |-> [on |-> EntryAt(PlaceOf(i))'.on,
                                       produces |-> EntryAt(PlaceOf(i))'.produces]]
    BY <1>2 DEF List
  <2> QED
    BY <1>4, <2>1
<1>6. [List EXCEPT ![Len(List)].produces = @ \cup {t}] =
        [i \in 1 .. count |-> [on |-> EntryAt(PlaceOf(i)).on,
                  produces |-> IF i = count THEN EntryAt(PlaceOf(i)).produces \cup {t}
                               ELSE EntryAt(PlaceOf(i)).produces]]
  <2>1. ASSUME NEW i \in 1 .. count
        PROVE  [List EXCEPT ![count].produces = @ \cup {t}][i] =
                 [on |-> EntryAt(PlaceOf(i)).on,
                  produces |-> IF i = count THEN EntryAt(PlaceOf(i)).produces \cup {t}
                               ELSE EntryAt(PlaceOf(i)).produces]
    <3>1. PICK a, b : a = EntryAt(PlaceOf(i)).on /\ b = EntryAt(PlaceOf(i)).produces
      BY Zenon
    <3>2. List[i] = [on |-> a, produces |-> b] /\ i \in DOMAIN List
      BY <1>3, <3>1
    <3>3. CASE i = count
      <4>1. [List EXCEPT ![count].produces = @ \cup {t}][i] = [List[i] EXCEPT !.produces = b \cup {t}]
        <5>1. List[i].produces = b
          BY <3>2
        <5> QED
          BY <3>2, <3>3, <5>1
      <4>2. [[on |-> a, produces |-> b] EXCEPT !.produces = b \cup {t}] = [on |-> a, produces |-> b \cup {t}]
        OBVIOUS
      <4> QED
        BY <3>1, <3>2, <3>3, <4>1, <4>2
    <3>4. CASE i # count
      <4>1. [List EXCEPT ![count].produces = @ \cup {t}][i] = List[i]
        BY <3>2, <3>4
      <4> QED
        BY <3>1, <3>2, <3>4, <4>1
    <3> QED
      BY <3>3, <3>4
  <2> QED
    BY <1>3, <2>1
<1>7. List # <<>>
  BY <1>1, <1>3
<1> QED
  BY <1>5, <1>6, <1>7

-----------------------------------------------------------------------------
\* The steps, each a step of the flat list or a stutter.

Done == IF pos = <<0, 0>> THEN 0 ELSE EntryAt(pos).id
Called == [i \in DOMAIN ran |-> ran[i].id]

\* Where the dispatch stands does not depend on later registrations.
LEMMA DoneStays ==
    ASSUME NumberInv, pos' = pos,
           \A q \in Places : EntryAt(q)'.id = EntryAt(q).id
    PROVE  Done' = Done
<1>1. CASE pos = <<0, 0>>
  BY <1>1 DEF Done
<1>2. CASE pos # <<0, 0>>
  <2>1. PICK p \in Places : p = pos
    BY <1>2 DEF NumberInv
  <2>2. EntryAt(pos)' = EntryAt(p)'
    BY <2>1 DEF EntryAt
  <2> QED
    BY <1>2, <2>1, <2>2 DEF Done
<1> QED
  BY <1>1, <1>2

LEMMA FlatRegister ==
    ASSUME Inv, NumberInv, NumberInv', NEW t \in Types, On(t) \/ OnState(t)
    PROVE  Flat!Register(t)
<1>1. Grown(NewEntry(t)) /\ cur = None
  BY RegisterGrows DEF Inv
<1>2. count' = count + 1 /\ UNCHANGED <<cur, pos, outbox, panicked, ran>>
  BY DEF On, OnState
<1>3. List' = Append(List, [on |-> t, produces |-> {}])
  BY <1>1, <1>2, ListGrows
<1>4. \A q \in Places : EntryAt(q)' = EntryAt(q)
  BY <1>1 DEF Grown
<1>5. Done' = Done
  BY <1>2, <1>4, DoneStays
<1> QED
  BY <1>1, <1>2, <1>3, <1>5 DEF Flat!Register, Done

LEMMA FlatDeclare ==
    ASSUME Inv, NumberInv, NEW t \in Types, Produces(t)
    PROVE  Flat!Declare(t)
<1>1. List # <<>> /\ List' = [List EXCEPT ![Len(List)].produces = @ \cup {t}]
  BY ListDeclares
<1>2. chain /\ UNCHANGED <<cur, pos, outbox, panicked, ran>>
  BY DEF Produces
<1>3. cur = None
  BY <1>2 DEF Inv, BorrowsInv
<1>4. Done' = Done
  BY <1>2, ProducesKeeps, DoneStays DEF Inv, Kept
<1> QED
  BY <1>1, <1>2, <1>3, <1>4 DEF Flat!Declare, Done

\* The list does not change while handlers run.
LEMMA FlatKeeps ==
    ASSUME Inv, NumberInv, groups' = groups, count' = count
    PROVE  List' = List
BY AsidePlaces, ListKept DEF Inv, TypeOK

LEMMA FlatBegin ==
    ASSUME Inv, NumberInv, NEW t \in Types, BeginDispatch(t)
    PROVE  Flat!Begin(t)
<1>1. List' = List
  BY FlatKeeps DEF BeginDispatch
<1> QED
  BY <1>1 DEF BeginDispatch, Idle, Flat!Begin

\* The places behind the one a dispatch stands at are the numbers above its own.
LEMMA BehindPos ==
    ASSUME Inv, NumberInv, NEW p \in Places
    PROVE  /\ Earlier(pos, p) <=> Done < EntryAt(p).id
           /\ Done \in Nat
<1>1. EntryAt(p).id \in 1 .. count /\ count \in Nat
  BY DEF NumberInv, Inv, TypeOK
<1>2. CASE pos = <<0, 0>>
  <2>1. p \in (Nat \ {0}) \X (Nat \ {0})
    BY EntryIs DEF Inv, TypeOK
  <2> QED
    BY <1>1, <1>2, <2>1 DEF Done, Earlier
<1>3. CASE pos # <<0, 0>>
  <2>1. pos \in Places
    BY <1>3 DEF NumberInv
  <2>2. EntryAt(pos).id \in 1 .. count
    BY <2>1 DEF NumberInv
  <2> QED
    BY <1>1, <1>3, <2>1, <2>2 DEF Done, Inv, WalkIsRegistrationOrder
<1> QED
  BY <1>2, <1>3

LEMMA FlatCall ==
    ASSUME Inv, NumberInv, NEW p \in Places, NEW wrote \in BOOLEAN, Invoke(p, wrote)
    PROVE  EntryAt(p).id \in DOMAIN List /\ Flat!Call(EntryAt(p).id)
<1> DEFINE i == EntryAt(p).id
<1>1. /\ cur # None /\ ~panicked /\ p \in Remaining /\ pos' = p
      /\ \A q \in Remaining : ~Earlier(q, p)
      /\ UNCHANGED <<cur, outbox, panicked, count>>
  BY DEF Invoke
<1>2. i \in 1 .. count /\ count \in Nat /\ i \in Nat /\ i # 0
  BY DEF NumberInv, Inv, TypeOK
<1>3. i > Done /\ List[i].on = cur /\ i \in DOMAIN List
  <2>1. Earlier(pos, p) /\ EntryAt(p).on = cur
    BY <1>1 DEF Remaining
  <2> QED
    BY <1>2, <2>1, BehindPos, ListIs
<1>4. ASSUME NEW j \in Done + 1 .. i - 1 PROVE List[j].on # cur
  <2>0. Done \in Nat
    BY BehindPos
  <2>1. j \in 1 .. count /\ Done < j /\ j < i
    BY <1>2, <2>0
  <2>2. PICK q \in Places : EntryAt(q).id = j
    BY <2>1 DEF NumberInv
  <2>3. Earlier(pos, q) /\ Earlier(q, p)
    BY <2>1, <2>2, BehindPos DEF Inv, WalkIsRegistrationOrder
  <2>4. EntryAt(q).on # cur
    BY <1>1, <2>3 DEF Remaining
  <2> QED
    BY <2>2, <2>4, ListIs
<1>5. Kept /\ \A q \in Places : EntryAt(q)'.produces = EntryAt(q).produces
  <2>1. /\ Kept /\ DOMAIN groups' = DOMAIN groups
        /\ \A g \in DOMAIN groups : groups'[g].entries = groups[g].entries
    BY InvokeKeeps DEF Inv
  <2>2. \A q \in Places : q[1] \in DOMAIN groups
    BY EntryIs DEF Inv, TypeOK
  <2> QED
    BY <2>1, <2>2 DEF EntryAt
<1>6. List' = List
  BY <1>1, <1>5, ListKept
<1>7. Done' = i
  <2>1. p # <<0, 0>>
    <3>1. p \in (Nat \ {0}) \X (Nat \ {0})
      BY EntryIs DEF Inv, TypeOK
    <3> QED
      BY <3>1
  <2>2. EntryAt(pos)' = EntryAt(p)'
    BY <1>1 DEF EntryAt
  <2> QED
    BY <1>1, <1>5, <2>1, <2>2 DEF Done, Kept
<1>8. Called' = Append(Called, i)
  <2>1. PICK c : /\ c = [id |-> i, group |-> p[1], saw |-> groups[p[1]].state,
                         wrote |-> wrote /\ groups[p[1]].kind = "Stateful"]
                 /\ ran' = Append(ran, c)
    BY DEF Invoke
  <2>2. c.id = i
    BY <2>1
  <2>3. ran \in Seq(Call) /\ \A k \in DOMAIN ran : ran[k].id \in Nat
    <3>1. ran \in Seq(Call)
      BY DEF Inv, TypeOK
    <3>2. \A k \in DOMAIN ran : ran[k] \in Call
      BY <3>1
    <3> QED
      BY <3>1, <3>2 DEF Call
  <2>4. PICK n : n = Len(ran) /\ n \in Nat /\ DOMAIN ran = 1 .. n
    BY <2>3
  <2>5. /\ DOMAIN ran' = 1 .. n + 1 /\ ran'[n + 1] = c
        /\ \A k \in 1 .. n : ran'[k] = ran[k]
    BY <2>1, <2>3, <2>4
  <2>6. PICK C : C = Called
    OBVIOUS
  <2>7. C \in [1 .. n -> Nat] /\ \A k \in 1 .. n : C[k] = ran[k].id
    BY <2>3, <2>4, <2>6 DEF Called
  <2>8. C \in Seq(Nat) /\ Len(C) = n
    BY <2>4, <2>7, SequenceIs
  <2>9. PICK D : D = Called'
    OBVIOUS
  <2>10. D = [k \in 1 .. n + 1 |-> ran'[k].id]
    BY <2>5, <2>9 DEF Called
  <2>11. D[n + 1] = i /\ \A k \in 1 .. n : D[k] = C[k]
    BY <2>2, <2>4, <2>5, <2>7, <2>10
  <2> HIDE DEF i
  <2>12. \A k \in 1 .. n + 1 : D[k] \in Nat
    BY <1>2, <2>4, <2>7, <2>11
  <2>13. D \in [1 .. n + 1 -> Nat]
    BY <2>10, <2>12
  <2>14. PICK m : m = n + 1
    OBVIOUS
  <2>15. D = Append(C, i)
    BY <1>2, <2>8, <2>11, <2>13, <2>14, AppendIs
  <2> QED
    BY <2>6, <2>9, <2>15
<1> QED
  BY <1>1, <1>3, <1>4, <1>6, <1>7, <1>8 DEF Flat!Call, Done, Called

LEMMA FlatSend ==
    ASSUME Inv, NumberInv, NEW t \in Types, Send(t)
    PROVE  Flat!Send(t)
<1>1. /\ cur # None /\ ~panicked /\ pos # <<0, 0>>
      /\ UNCHANGED <<groups, cur, pos, count, ran>>
  BY DEF Send
<1>2. pos \in Places /\ EntryAt(pos).id \in 1 .. count /\ count \in Nat
  BY <1>1 DEF NumberInv, Inv, TypeOK
<1>3. List' = List /\ Done' = Done
  BY <1>1, FlatKeeps DEF Done, EntryAt
<1>4. Done = EntryAt(pos).id /\ Done # 0
  BY <1>1, <1>2 DEF Done
<1>5. List[Done].produces = EntryAt(pos).produces
  BY <1>2, <1>4, ListIs
<1>6. IF t \in List[Done].produces
        THEN outbox' = Append(outbox, [by |-> Done, type |-> t]) /\ UNCHANGED panicked
        ELSE panicked' = TRUE /\ UNCHANGED outbox
  BY <1>4, <1>5, Zenon DEF Send
<1> QED
  BY <1>1, <1>3, <1>4, <1>6, Zenon DEF Flat!Send, Done

LEMMA FlatFinish ==
    ASSUME Inv, NumberInv, EndDispatch
    PROVE  Flat!Finish
<1>1. /\ cur # None /\ ~panicked /\ Remaining = {} /\ cur' = None
      /\ UNCHANGED <<groups, pos, outbox, panicked, count, ran>>
  BY DEF EndDispatch
<1>2. List' = List /\ Done' = Done
  BY <1>1, FlatKeeps DEF Done, EntryAt
<1>3. ASSUME NEW j \in DOMAIN List, j > Done PROVE List[j].on # cur
  <2>1. PICK q \in Places : EntryAt(q).id = j
    BY ListIs DEF NumberInv
  <2>2. Earlier(pos, q)
    BY <1>3, <2>1, BehindPos, ListIs
  <2>3. EntryAt(q).on # cur
    BY <1>1, <2>2 DEF Remaining
  <2> QED
    BY <2>1, <2>3, ListIs
<1> QED
  BY <1>1, <1>2, <1>3 DEF Flat!Finish, Done

\* Opening a state group is not visible in the list.
LEMMA FlatStutters ==
    ASSUME Inv, NumberInv, OpenState \/ UNCHANGED vars
    PROVE  UNCHANGED Flat!vars
<1>1. /\ Kept /\ UNCHANGED <<cur, pos, outbox, panicked, count, ran>>
      /\ \A q \in Places : EntryAt(q)'.produces = EntryAt(q).produces
  <2>1. CASE OpenState
    <3>1. Kept /\ \A g \in DOMAIN groups : groups'[g] = groups[g]
      BY <2>1, OpenStateKeeps DEF Inv
    <3>2. \A q \in Places : q[1] \in DOMAIN groups
      BY EntryIs DEF Inv, TypeOK
    <3> QED
      BY <2>1, <3>1, <3>2 DEF OpenState, EntryAt
  <2>2. CASE UNCHANGED vars
    BY <2>2, AsidePlaces DEF vars, Inv, TypeOK
  <2> QED
    BY <2>1, <2>2
<1>2. List' = List /\ Done' = Done
  BY <1>1, ListKept, DoneStays DEF Kept
<1> QED
  BY <1>1, <1>2 DEF Flat!vars, Done

\* ImplementsFlatRegistry: whatever the groups, the borrows and the bounds, what is
\* registered is one list in the order of registration, and a dispatch calls each
\* subscribed handler of it once, in that order, before it returns.
THEOREM RegistryIsFlatList == Spec => ImplementsFlatRegistry
<1>1. Init => Flat!Init
  <2> SUFFICES ASSUME Init PROVE Flat!Init
    OBVIOUS
  <2>1. count = 0 /\ ran = <<>> /\ cur = None /\ pos = <<0, 0>> /\ outbox = <<>> /\ panicked = FALSE
    BY Zenon DEF Init
  <2>2. List = <<>>
    BY <2>1 DEF List
  <2> QED
    BY <2>1, <2>2 DEF Flat!Init
<1>2. Inv /\ NumberInv /\ NumberInv' /\ [Next]_vars => [Flat!Next]_(Flat!vars)
  <2> SUFFICES ASSUME Inv, NumberInv, NumberInv', [Next]_vars PROVE [Flat!Next]_(Flat!vars)
    OBVIOUS
  <2>1. ASSUME NEW t \in Types, On(t) \/ OnState(t) PROVE Flat!Next
    BY <2>1, FlatRegister DEF Flat!Next
  <2>2. ASSUME NEW t \in Types, Produces(t) PROVE Flat!Next
    BY <2>2, FlatDeclare DEF Flat!Next
  <2>3. ASSUME NEW t \in Types, BeginDispatch(t) PROVE Flat!Next
    BY <2>3, FlatBegin DEF Flat!Next
  <2>4. ASSUME NEW t \in Types, Send(t) PROVE Flat!Next
    BY <2>4, FlatSend DEF Flat!Next
  <2>5. ASSUME NEW p \in Places, NEW wrote \in BOOLEAN, Invoke(p, wrote) PROVE Flat!Next
    <3>1. EntryAt(p).id \in DOMAIN List /\ Flat!Call(EntryAt(p).id)
      BY <2>5, FlatCall
    <3>2. PICK i \in DOMAIN List : i = EntryAt(p).id
      BY <3>1, Zenon
    <3>3. Flat!Call(i)
      BY <3>1, <3>2, Zenon DEF Flat!Call
    <3> QED
      BY <3>3, Zenon DEF Flat!Next
  <2>6. CASE EndDispatch
    BY <2>6, FlatFinish DEF Flat!Next
  <2>7. CASE OpenState \/ UNCHANGED vars
    BY <2>7, FlatStutters
  <2> QED
    BY <2>1, <2>2, <2>3, <2>4, <2>5, <2>6, <2>7 DEF Next
<1> QED
  BY <1>1, <1>2, AlwaysNumbered, PTL DEF Spec, ImplementsFlatRegistry, Flat!Spec
=============================================================================

--------------------------- MODULE HandlerRegistry --------------------------
(***************************************************************************)
(* The handler registry (handler.rs): groups of handlers, the state that a *)
(* group shares, and a dispatch, one handler at a time.                    *)
(*                                                                         *)
(* A &mut borrow decides who may call what: while the handle of a state    *)
(* group lives the registry cannot be used, and produces() is called on    *)
(* the entry that was just registered. `handle' and `chain' say which of   *)
(* the two borrows may still be used; using an outer one ends them.        *)
(*                                                                         *)
(* The value of a group's state is named by the call that left it, 0 being *)
(* the initial one: a handler may write anything, or nothing.              *)
(*                                                                         *)
(* An operator named X_Y stands before X and says how X might be wrong; no *)
(* action uses it.                                                         *)
(***************************************************************************)
EXTENDS Integers, Sequences, FiniteSets

CONSTANTS
    Types,      \* message types (TypeIds)
    None,       \* no type: no dispatch
    \* Bounds of the model; the code has none of them.
    MaxEntries, MaxGroups, MaxDeclared, MaxDispatches, MaxOutbox

ASSUME NoneAssumption == None \notin Types
ASSUME BoundsAssumption ==
    {MaxEntries, MaxGroups, MaxDeclared, MaxDispatches, MaxOutbox} \subseteq Nat

VARIABLES
    groups,     \* HandlerRegistry::groups
    handle,     \* the StateGroupHandle of the last group is alive
    chain,      \* the &mut HandlerEntry of the last entry is alive
    cur,        \* dispatch: type_id, or None outside of it
    pos,        \* dispatch: group and place of the handler that runs
    outbox,     \* dispatch: what was sent, and by whom
    panicked,   \* check_produces failed
    \* History, read by no guard but those of the bounds.
    count,      \* entries registered
    dispatches, \* dispatches begun
    ran         \* the calls of handlers: who, in which group, on which state

borrows == <<handle, chain>>
vars == <<groups, borrows, cur, pos, outbox, panicked, count, dispatches, ran>>

\* id is the number of the registration.
Entry == [on : Types, produces : SUBSET Types, id : Nat]
Group == [kind : {"Stateless", "Stateful"}, state : Nat, entries : Seq(Entry)]
Call  == [id : Nat, group : Nat, saw : Nat, wrote : BOOLEAN]
Sent  == [by : Nat, type : Types]

\* The entries by their group and their place in it.
Places == UNION {{g} \X DOMAIN groups[g].entries : g \in DOMAIN groups}

EntryAt(p) == groups[p[1]].entries[p[2]]

TypeOK ==
    /\ groups \in Seq(Group) /\ Len(groups) <= MaxGroups
    /\ handle \in BOOLEAN /\ chain \in BOOLEAN /\ panicked \in BOOLEAN
    /\ cur \in Types \cup {None}
    /\ pos \in Nat \X Nat
    /\ outbox \in Seq(Sent) /\ ran \in Seq(Call)
    /\ count \in Nat /\ dispatches \in Nat
    /\ handle => groups # <<>> /\ groups[Len(groups)].kind = "Stateful"
    /\ chain => groups # <<>> /\ groups[Len(groups)].entries # <<>>
    /\ cur # None /\ pos # <<0, 0>> => pos \in Places /\ EntryAt(pos).on = cur

Init ==
    /\ groups = <<>> /\ handle = FALSE /\ chain = FALSE
    /\ cur = None /\ pos = <<0, 0>> /\ outbox = <<>> /\ panicked = FALSE
    /\ count = 0 /\ dispatches = 0 /\ ran = <<>>

-----------------------------------------------------------------------------
(***************************************************************************)
(* Registration.                                                           *)
(***************************************************************************)
Idle == cur = None

Declared == UNION {{p} \X EntryAt(p).produces : p \in Places}

NewEntry(t) == [on |-> t, produces |-> {}, id |-> count + 1]

\* push_stateless: into the last group if that is stateless, else a new one.
PushStateless_Anywhere(entry) ==
    LET stateless == {g \in DOMAIN groups : groups[g].kind = "Stateless"} IN
    IF stateless # {}
    THEN [groups EXCEPT ![CHOOSE g \in stateless : \A h \in stateless : h <= g].entries
              = Append(@, entry)]
    ELSE Append(groups, [kind |-> "Stateless", state |-> 0, entries |-> <<entry>>])
PushStateless(entry) ==
    IF groups # <<>> /\ groups[Len(groups)].kind = "Stateless"
    THEN [groups EXCEPT ![Len(groups)].entries = Append(@, entry)]
    ELSE Append(groups, [kind |-> "Stateless", state |-> 0, entries |-> <<entry>>])

\* HandlerRegistry::on
On(t) ==
    /\ Idle /\ count < MaxEntries
    /\ groups' = PushStateless(NewEntry(t)) /\ Len(groups') <= MaxGroups
    /\ count' = count + 1
    /\ chain' = TRUE /\ handle' = FALSE
    /\ UNCHANGED <<cur, pos, outbox, panicked, dispatches, ran>>

\* HandlerRegistry::state
OpenState ==
    /\ Idle /\ Len(groups) < MaxGroups
    /\ groups' = Append(groups, [kind |-> "Stateful", state |-> 0, entries |-> <<>>])
    /\ handle' = TRUE /\ chain' = FALSE
    /\ UNCHANGED <<cur, pos, outbox, panicked, count, dispatches, ran>>

\* StateGroupHandle::on
OnState(t) ==
    /\ handle /\ count < MaxEntries
    /\ groups' = [groups EXCEPT ![Len(groups)].entries = Append(@, NewEntry(t))]
    /\ count' = count + 1
    /\ chain' = TRUE
    /\ UNCHANGED <<handle, cur, pos, outbox, panicked, dispatches, ran>>

\* HandlerEntry::produces
Produces(t) ==
    /\ chain /\ Cardinality(Declared) < MaxDeclared
    /\ groups' = [groups EXCEPT ![Len(groups)].entries[Len(groups[Len(groups)].entries)].produces
                      = @ \cup {t}]
    /\ UNCHANGED <<borrows, cur, pos, outbox, panicked, count, dispatches, ran>>

-----------------------------------------------------------------------------
(***************************************************************************)
(* HandlerRegistry::dispatch: the groups in order, in each its handlers.   *)
(***************************************************************************)
\* p is reached before q.
Earlier(p, q) == p[1] < q[1] \/ (p[1] = q[1] /\ p[2] < q[2])

\* Places not reached yet whose handler takes the message.
Remaining_NextGroup == {p \in Places : p[1] > pos[1] /\ EntryAt(p).on = cur}
Remaining_AnyType == {p \in Places : Earlier(pos, p)}
Remaining == {p \in Places : Earlier(pos, p) /\ EntryAt(p).on = cur}

BeginDispatch(t) ==
    /\ Idle /\ dispatches < MaxDispatches
    /\ cur' = t /\ pos' = <<0, 0>> /\ outbox' = <<>>
    /\ dispatches' = dispatches + 1
    /\ handle' = FALSE /\ chain' = FALSE
    /\ UNCHANGED <<groups, panicked, count, ran>>

\* The group's state as a handler of it leaves it.
StateLeft_Copied(g, wrote) == groups[g].state
StateLeft(g, wrote) ==
    IF groups[g].kind = "Stateful" /\ wrote THEN Len(ran) + 1 ELSE groups[g].state

Invoke(p, wrote) ==
    /\ cur # None /\ ~panicked
    /\ p \in Remaining /\ \A q \in Remaining : ~Earlier(q, p)
    /\ pos' = p
    /\ groups' = [groups EXCEPT ![p[1]].state = StateLeft(p[1], wrote)]
    /\ ran' = Append(ran, [id |-> EntryAt(p).id, group |-> p[1], saw |-> groups[p[1]].state,
                           wrote |-> wrote /\ groups[p[1]].kind = "Stateful"])
    /\ UNCHANGED <<borrows, cur, outbox, panicked, count, dispatches>>

\* Context::send from the handler that runs, with the productions of its entry.
Send(t) ==
    /\ cur # None /\ ~panicked /\ pos # <<0, 0>> /\ Len(outbox) < MaxOutbox
    /\ IF t \in EntryAt(pos).produces
         THEN outbox' = Append(outbox, [by |-> EntryAt(pos).id, type |-> t])
              /\ UNCHANGED panicked
         ELSE panicked' = TRUE /\ UNCHANGED outbox
    /\ UNCHANGED <<groups, borrows, cur, pos, count, dispatches, ran>>

EndDispatch ==
    /\ cur # None /\ ~panicked /\ Remaining = {}
    /\ cur' = None
    /\ UNCHANGED <<groups, borrows, pos, outbox, panicked, count, dispatches, ran>>

Next ==
    \/ OpenState
    \/ \E t \in Types : On(t) \/ OnState(t) \/ Produces(t) \/ BeginDispatch(t) \/ Send(t)
    \/ \E p \in Places, wrote \in BOOLEAN : Invoke(p, wrote)
    \/ EndDispatch

Spec == Init /\ [][Next]_vars

-----------------------------------------------------------------------------
(***************************************************************************)
(* The views that graph::validate reads.                                   *)
(***************************************************************************)

\* Group::entries, of every group
Entries_Stateless ==
    {EntryAt(p) : p \in {q \in Places : groups[q[1]].kind = "Stateless"}}
Entries == {EntryAt(p) : p \in Places}

SubscribedTypes == {e.on : e \in Entries}
ProducedTypes == UNION {e.produces : e \in Entries}
EdgeList == {<<e.on, e.produces>> : e \in {f \in Entries : f.produces # {}}}

-----------------------------------------------------------------------------
(***************************************************************************)
(* Safety.                                                                 *)
(***************************************************************************)

\* Coalescing stateless registrations never moves one past a state group, and
\* no handle writes into a group that is not its own: walking the groups meets
\* the handlers in the order they were registered (push_stateless, state,
\* StateGroupHandle::on).
WalkIsRegistrationOrder ==
    \A p, q \in Places : Earlier(p, q) <=> EntryAt(p).id < EntryAt(q).id

\* The last call before the i-th that wrote the state of the i-th one's group.
LastWriteBefore(i, n) ==
    /\ n < i
    /\ n = 0 \/ (ran[n].wrote /\ ran[n].group = ran[i].group)
    /\ \A k \in n + 1 .. i - 1 : ran[k].group = ran[i].group => ~ran[k].wrote

\* A handler of a state group sees what the handlers of its own group left, in
\* this dispatch or an earlier one, and never what another group did
\* (HandlerRegistry::dispatch lends the state of the group).
SeesOwnGroupsState == \A i \in DOMAIN ran : LastWriteBefore(i, ran[i].saw)

\* Whatever a handler got into the outbox runs along an edge of the graph that
\* validation is given: the views forget no entry that can send (edges,
\* produced_types, Group::entries and the productions lent to the Context).
SendsAreInViews ==
    cur # None => \A i \in DOMAIN outbox :
        /\ \E edge \in EdgeList : edge[1] = cur /\ outbox[i].type \in edge[2]
        /\ cur \in SubscribedTypes /\ outbox[i].type \in ProducedTypes

(***************************************************************************)
(* The groups are an implementation of one flat list.                      *)
(***************************************************************************)
PlaceOf(i) == CHOOSE p \in Places : EntryAt(p).id = i

\* The entries by the number of their registration, wherever they are now.
List == [i \in 1 .. count |-> [on       |-> EntryAt(PlaceOf(i)).on,
                              produces |-> EntryAt(PlaceOf(i)).produces]]

Flat == INSTANCE FlatRegistry WITH
    list   <- List,
    turn   <- cur,
    done   <- IF pos = <<0, 0>> THEN 0 ELSE EntryAt(pos).id,
    called <- [i \in DOMAIN ran |-> ran[i].id],
    sent   <- outbox,
    failed <- panicked

\* A dispatch calls the subscribed handlers in the order of registration, each
\* exactly once, and returns when none is left.
ImplementsFlatRegistry == Flat!Spec
=============================================================================

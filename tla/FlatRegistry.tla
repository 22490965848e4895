---------------------------- MODULE FlatRegistry ----------------------------
(***************************************************************************)
(* What the handler registry promises: handlers form one list in the order *)
(* in which they were registered, whatever groups they are in. A dispatch  *)
(* calls those that subscribe to its type one after the other, each once,  *)
(* and a handler sends what it declared or ends the dispatch.              *)
(***************************************************************************)
EXTENDS Naturals, Sequences

CONSTANTS Types, None

VARIABLES
    list,       \* registered handlers: [on, produces]
    turn,       \* type that is being dispatched, or None
    done,       \* the handler called last in this dispatch, 0 before the first
    called,     \* every call ever made, as a place in the list
    sent,       \* what this dispatch sent: the sender's place and a type
    failed      \* a handler sent what it had not declared

vars == <<list, turn, done, called, sent, failed>>

Init == list = <<>> /\ turn = None /\ done = 0 /\ called = <<>> /\ sent = <<>> /\ failed = FALSE

Register(t) ==
    /\ turn = None
    /\ list' = Append(list, [on |-> t, produces |-> {}])
    /\ UNCHANGED <<turn, done, called, sent, failed>>

\* Only the handler registered last may still declare.
Declare(t) ==
    /\ turn = None /\ list # <<>>
    /\ list' = [list EXCEPT ![Len(list)].produces = @ \cup {t}]
    /\ UNCHANGED <<turn, done, called, sent, failed>>

Begin(t) ==
    /\ turn = None
    /\ turn' = t /\ done' = 0 /\ sent' = <<>>
    /\ UNCHANGED <<list, called, failed>>

Call(i) ==
    /\ turn # None /\ ~failed
    /\ i > done /\ list[i].on = turn
    /\ \A j \in done + 1 .. i - 1 : list[j].on # turn
    /\ done' = i /\ called' = Append(called, i)
    /\ UNCHANGED <<list, turn, sent, failed>>

Send(t) ==
    /\ turn # None /\ ~failed /\ done # 0
    /\ IF t \in list[done].produces
         THEN sent' = Append(sent, [by |-> done, type |-> t]) /\ UNCHANGED failed
         ELSE failed' = TRUE /\ UNCHANGED sent
    /\ UNCHANGED <<list, turn, done, called>>

Finish ==
    /\ turn # None /\ ~failed
    /\ \A j \in DOMAIN list : j > done => list[j].on # turn
    /\ turn' = None
    /\ UNCHANGED <<list, done, called, sent, failed>>

Next ==
    \/ \E t \in Types : Register(t) \/ Declare(t) \/ Begin(t) \/ Send(t)
    \/ \E i \in DOMAIN list : Call(i)
    \/ Finish

Spec == Init /\ [][Next]_vars
=============================================================================

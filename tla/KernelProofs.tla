---------------------------- MODULE KernelProofs ----------------------------
(***************************************************************************)
(* The safety of Kernel, and of the two kernels of Replay, for every set   *)
(* of types, instants and handlers and every value of the bounds.          *)
(***************************************************************************)
EXTENDS Replay, NaturalFacts, TLAPS, FiniteSetTheorems, SequenceTheorems

\* What an index of a sequence is.
LEMMA Indexed ==
    ASSUME NEW S, NEW s \in Seq(S), NEW i \in DOMAIN s
    PROVE  i \in Nat /\ i > 0 /\ i <= Len(s) /\ s[i] \in S
OBVIOUS

\* The kernel's variables always have the shape the code gives them; in
\* particular an event is being dispatched in the phases that read it, and
\* nothing is left in the outbox between two dispatches.
THEOREM Typing == Spec => []TypeOK
<1> USE DEF Message, Event, Phases, Panics
<1>1. Init => TypeOK
  BY BoundsAssumption DEF Init, TypeOK
<1>2. TypeOK /\ [Next]_vars => TypeOK'
  <2> SUFFICES ASSUME TypeOK, [Next]_vars PROVE TypeOK'
    OBVIOUS
  <2> USE DEF TypeOK, Panic, owner, registry, guard
  <2>1. ASSUME NEW entry \in HandlerEntries, On(entry) PROVE TypeOK'
    BY <2>1, AppendProperties DEF On
  <2>2. ASSUME NEW t \in Types, Reduce(t) PROVE TypeOK'
    BY <2>2, BoundsAssumption DEF Reduce
  <2>3. ASSUME NEW ts \in Times, NEW t \in Types, PushEvent(ts, t) PROVE TypeOK'
    <3>1. Pushed(ts, t) \in Event
      <4> DEFINE st == ts < clock
      <4>1. st \in BOOLEAN
        OBVIOUS
      <4>2. Pushed(ts, t) = [ts |-> ts, seq |-> seq + 1, type |-> t, nth |-> calls + 1,
                             hops |-> 0, stale |-> st]
        BY DEF Pushed, SeqNext
      <4> HIDE DEF st
      <4> QED
        BY <4>1, <4>2
    <3> QED
      BY <2>3, <3>1 DEF PushEvent, SeqNext
  <2>4. CASE RejectGraph
    BY <2>4 DEF RejectGraph
  <2>5. CASE StartRun
    BY <2>5 DEF StartRun
  <2>6. CASE PopEvent
    <3>1. PICK e \in heap : heap' = heap \ {e} /\ cur' = e /\ (PopPast(e) \/ PopCounted(e))
      BY <2>6 DEF PopEvent
    <3>2. CASE PopPast(e)
      BY <2>6, <3>1, <3>2 DEF PopEvent, PopPast, InPast
    <3>3. CASE PopCounted(e)
      <4>1. CountAt(e) \in Nat
        BY DEF CountAt
      <4>2. clock' \in Times
        BY <3>3 DEF PopCounted, ClockSet
      <4> QED
        BY <2>6, <3>1, <3>3, <4>1, <4>2, BoundsAssumption DEF PopEvent, PopCounted, SeqNext, InPast
    <3> QED
      BY <3>1, <3>2, <3>3
  <2>7. CASE ReturnFromRun
    BY <2>7 DEF ReturnFromRun
  <2>8. CASE ApplyReducer
    BY <2>8, BoundsAssumption DEF ApplyReducer, ReducersLeft
  <2>9. CASE ReducersDone
    BY <2>9 DEF ReducersDone
  <2>10. CASE InvokeHandler
    BY <2>10 DEF InvokeHandler
  <2>11. CASE FlushOutbox
    <3>1. \A i \in DOMAIN outbox : Flushed(i) \in Event
      <4> SUFFICES ASSUME NEW i \in DOMAIN outbox PROVE Flushed(i) \in Event
        OBVIOUS
      <4>1. cur \in Event
        BY <2>11 DEF FlushOutbox
      <4>2. i \in Nat /\ outbox[i] \in Message
        BY Indexed, Zenon
      <4>3. seq + i \in Nat /\ cur.hops + 1 \in Nat
        BY <4>1, <4>2
      <4>4. outbox[i].ts \in Times /\ outbox[i].type \in Types /\ outbox[i].nth \in Nat
        BY <4>2
      <4> QED
        BY <4>3, <4>4 DEF Flushed
    <3> QED
      BY <2>11, <3>1, BoundsAssumption DEF FlushOutbox, HeapWithOutbox
  <2>12. ASSUME NEW ts \in Times, NEW t \in Types, phase = "handle", Emit(ts, t),
                Len(outbox) < MaxOutbox,
                UNCHANGED <<heap, clock, seq, registry, cache, inbound_log, cur, idx, guard, prev>>
         PROVE  TypeOK'
    <3>1. CASE t \in handlers[idx].produces
      <4> DEFINE m == [ts |-> ts, type |-> t, nth |-> calls + 1]
      <4>1. m \in Message
        OBVIOUS
      <4>2. outbox' = Append(outbox, m) /\ calls' = calls + 1 /\ UNCHANGED owner
        BY <2>12, <3>1 DEF Emit
      <4> HIDE DEF m, Message, Event
      <4>3. outbox' \in Seq(Message) /\ Len(outbox') = Len(outbox) + 1
        BY <4>1, <4>2, AppendProperties
      <4>4. Len(outbox) \in Nat /\ MaxOutbox \in Nat
        BY BoundsAssumption
      <4> QED
        BY <2>12, <4>2, <4>3, <4>4
    <3>2. CASE t \notin handlers[idx].produces
      BY <2>12, <3>2 DEF Emit
    <3> QED
      BY <3>1, <3>2
  <2>13. ASSUME NEW t \in Types, Send(t) PROVE TypeOK'
    BY <2>12, <2>13 DEF Send
  <2>14. ASSUME NEW ts \in Times, NEW t \in Types, SendAt(ts, t) PROVE TypeOK'
    BY <2>12, <2>14 DEF SendAt
  <2>15. CASE WallTick
    BY <2>15 DEF WallTick
  <2>16. CASE Stopped \/ UNCHANGED vars
    BY <2>16 DEF Stopped, vars
  <2> QED
    BY <2>1, <2>2, <2>3, <2>4, <2>5, <2>6, <2>7, <2>8, <2>9, <2>10, <2>11, <2>13, <2>14,
       <2>15, <2>16 DEF Next, Register, Ingest, Engine, Handler
<1> QED
  BY <1>1, <1>2, PTL DEF Spec

-----------------------------------------------------------------------------
(***************************************************************************)
(* How each step changes what is scheduled.                                *)
(***************************************************************************)

\* Popping only moves an event from the heap to the hands of run().
LEMMA PopKeepsScheduled ==
    ASSUME TypeOK, PopEvent
    PROVE  Scheduled' = Scheduled /\ cur' \in heap /\ heap' = heap \ {cur'}
<1>1. PICK e \in heap : heap' = heap \ {e} /\ cur' = e
  BY DEF PopEvent
<1>2. cur = NoEvent /\ e \in Event
  BY DEF PopEvent, TypeOK
<1>3. e # NoEvent
  BY <1>2, NoEventAssumption
<1> QED
  BY <1>1, <1>2, <1>3 DEF Scheduled

\* push_event schedules one event more, between two dispatches.
LEMMA PushAddsOne ==
    ASSUME TypeOK, NEW ts \in Times, NEW t \in Types, PushEvent(ts, t)
    PROVE  Scheduled' = Scheduled \cup {Pushed(ts, t)} /\ outbox = <<>> /\ outbox' = <<>>
BY DEF PushEvent, TypeOK, Scheduled

\* The flush trades the event that was dispatched for the events of its outbox.
LEMMA FlushAddsOutbox ==
    ASSUME TypeOK, FlushOutbox
    PROVE  /\ cur \in Event /\ cur # NoEvent
           /\ Scheduled = heap \cup {cur}
           /\ Scheduled' = heap \cup {Flushed(i) : i \in DOMAIN outbox}
           /\ \A i \in DOMAIN outbox : i \in Nat /\ i > 0 /\ i <= Len(outbox)
                                      /\ outbox[i] \in Message
           /\ Len(outbox) \in Nat /\ Len(outbox') = 0 /\ DOMAIN outbox' = {}
<1>1. cur \in Event
  BY DEF FlushOutbox, TypeOK
<1>2. cur # NoEvent
  BY <1>1, NoEventAssumption
<1>3. outbox \in Seq(Message)
  BY DEF TypeOK
<1>4. Len(outbox) \in Nat
  BY <1>3
<1>5. \A i \in DOMAIN outbox : i \in Nat /\ i > 0 /\ i <= Len(outbox) /\ outbox[i] \in Message
  BY <1>3, Indexed
<1>6. outbox' = <<>>
  BY DEF FlushOutbox
<1>7. Len(outbox') = 0 /\ DOMAIN outbox' = {}
  BY <1>6
<1> QED
  BY <1>1, <1>2, <1>4, <1>5, <1>7 DEF FlushOutbox, HeapWithOutbox, Scheduled

\* A call that goes through appends one message to the outbox.
LEMMA EmitAppends ==
    ASSUME TypeOK, NEW ts \in Times, NEW t \in Types, Emit(ts, t)
    PROVE  \/ /\ t \in handlers[idx].produces
              /\ calls' = calls + 1
              /\ Len(outbox') = Len(outbox) + 1
              /\ DOMAIN outbox' = DOMAIN outbox \cup {Len(outbox')}
              /\ \A i \in DOMAIN outbox : i # Len(outbox') /\ outbox'[i] = outbox[i]
              /\ outbox'[Len(outbox')] = [ts |-> ts, type |-> t, nth |-> calls + 1]
              /\ UNCHANGED owner
           \/ Panic("Undeclared") /\ UNCHANGED <<outbox, calls>>
<1>1. CASE t \in handlers[idx].produces
  <2> DEFINE m == [ts |-> ts, type |-> t, nth |-> calls + 1]
  <2>1. outbox' = Append(outbox, m) /\ calls' = calls + 1 /\ UNCHANGED owner
    BY <1>1 DEF Emit
  <2>2. m \in Message /\ outbox \in Seq(Message)
    BY DEF Message, TypeOK
  <2> HIDE DEF m
  <2>3. /\ Len(outbox') = Len(outbox) + 1
        /\ DOMAIN outbox' = DOMAIN outbox \cup {Len(outbox')}
        /\ \A i \in DOMAIN outbox : i # Len(outbox') /\ outbox'[i] = outbox[i]
        /\ outbox'[Len(outbox')] = m
    BY <2>1, <2>2, AppendProperties
  <2> QED
    BY <1>1, <2>1, <2>3 DEF m
<1>2. CASE t \notin handlers[idx].produces
  BY <1>2 DEF Emit
<1> QED
  BY <1>1, <1>2

\* The heap and the event at hand change in three places only, and the outbox in two.
LEMMA EventSteps ==
    ASSUME TypeOK, [Next]_vars
    PROVE  \/ \E ts \in Times, t \in Types : PushEvent(ts, t)
           \/ PopEvent
           \/ FlushOutbox
           \/ \E ts \in Times, t \in Types :
                phase = "handle" /\ Emit(ts, t) /\ UNCHANGED <<heap, cur>>
           \/ /\ UNCHANGED <<heap, cur, outbox, calls>>
              /\ phase' \in {"reduce", "handle"} => phase \in {"reduce", "handle"}
<1> USE DEF Panic, owner, registry, guard
<1>1. ASSUME NEW t \in Types, Send(t)
      PROVE  \E ts \in Times : phase = "handle" /\ Emit(ts, t) /\ UNCHANGED <<heap, cur>>
  <2>1. phase = "handle" /\ Emit(clock, t) /\ UNCHANGED <<heap, cur>>
    BY <1>1 DEF Send
  <2>2. clock \in Times
    BY DEF TypeOK
  <2> QED
    BY <2>1, <2>2
<1>2. ASSUME NEW ts \in Times, NEW t \in Types, SendAt(ts, t)
      PROVE  \/ phase = "handle" /\ Emit(ts, t) /\ UNCHANGED <<heap, cur>>
             \/ UNCHANGED <<heap, cur, outbox, calls>> /\ phase' = "panicked"
  BY <1>2 DEF SendAt
<1>3. CASE \/ Register \/ RejectGraph \/ StartRun \/ ReturnFromRun \/ ApplyReducer \/ ReducersDone
           \/ InvokeHandler \/ WallTick \/ Stopped \/ UNCHANGED vars
  BY <1>3 DEF Register, On, Reduce, RejectGraph, StartRun, ReturnFromRun, ApplyReducer,
              ReducersDone, InvokeHandler, WallTick, Stopped, vars
<1> QED
  BY <1>1, <1>2, <1>3 DEF Next, Ingest, Engine, Handler

-----------------------------------------------------------------------------
\* SeqInv: seq numbers are fresh and given in the order of the calls, by push_event
\* as by the flush, with all pops in between.
THEOREM Sequencing == Spec => []SeqInv
<1>1. Init => SeqInv
  BY DEF Init, SeqInv, Scheduled
<1>2. TypeOK /\ SeqInv /\ [Next]_vars => SeqInv'
  <2> SUFFICES ASSUME TypeOK, SeqInv, [Next]_vars PROVE SeqInv'
    OBVIOUS
  <2>0. /\ seq \in Nat /\ calls \in Nat /\ Len(outbox) \in Nat
        /\ \A e \in Scheduled : e.seq \in Nat /\ e.nth \in Nat
    BY NoEventAssumption DEF TypeOK, Scheduled, Event
  <2>1. ASSUME NEW ts \in Times, NEW t \in Types, PushEvent(ts, t) PROVE SeqInv'
    <3> DEFINE p == Pushed(ts, t)
    <3>1. p.seq = seq + 1 /\ p.nth = calls + 1
      BY DEF Pushed, SeqNext
    <3>2. /\ Scheduled' = Scheduled \cup {p} /\ outbox = <<>> /\ outbox' = <<>>
          /\ seq' = seq + 1 /\ calls' = calls + 1
      BY <2>1, PushAddsOne DEF PushEvent, SeqNext
    <3> HIDE DEF p
    <3> QED
      BY <2>0, <3>1, <3>2 DEF SeqInv
  <2>2. CASE PopEvent
    <3>1. UNCHANGED <<Scheduled, outbox, calls>>
      BY <2>2, PopKeepsScheduled DEF PopEvent
    <3>2. seq' \in Nat /\ seq' >= seq
      BY <2>0, <2>2 DEF PopEvent, PopPast, PopCounted, SeqNext, InPast
    <3> QED
      BY <2>0, <3>1, <3>2 DEF SeqInv
  <2>3. CASE FlushOutbox
    <3> DEFINE new == {Flushed(i) : i \in DOMAIN outbox}
    <3>1. \A i \in DOMAIN outbox : /\ Flushed(i).seq = seq + i
                                   /\ Flushed(i).nth = calls - Len(outbox) + i
      BY DEF Flushed, SeqInv
    <3>2. \A e \in Scheduled' : e \in Scheduled \/ \E i \in DOMAIN outbox : e = Flushed(i)
      BY <2>3, FlushAddsOutbox
    <3>3. seq' = seq + Len(outbox) /\ calls' = calls
      BY <2>3 DEF FlushOutbox
    <3>4. /\ Len(outbox') = 0 /\ DOMAIN outbox' = {}
          /\ \A i \in DOMAIN outbox : i \in Nat /\ i > 0 /\ i <= Len(outbox)
      BY <2>3, FlushAddsOutbox
    <3>5. \A e \in Scheduled' : e.seq <= seq' /\ e.nth + Len(outbox') <= calls'
      BY <2>0, <3>1, <3>2, <3>3, <3>4 DEF SeqInv
    <3>6. ASSUME NEW e \in Scheduled', NEW f \in Scheduled'
          PROVE  (e.seq < f.seq <=> e.nth < f.nth) /\ (e.seq = f.seq => e = f)
      <4>1. CASE e \in Scheduled /\ f \in Scheduled
        BY <4>1 DEF SeqInv
      <4>2. CASE e \in Scheduled /\ f \notin Scheduled
        <5>1. PICK j \in DOMAIN outbox : f = Flushed(j)
          BY <3>2, <4>2
        <5> QED
          BY <2>0, <3>1, <3>4, <4>2, <5>1 DEF SeqInv
      <4>3. CASE e \notin Scheduled /\ f \in Scheduled
        <5>1. PICK i \in DOMAIN outbox : e = Flushed(i)
          BY <3>2, <4>3
        <5> QED
          BY <2>0, <3>1, <3>4, <4>3, <5>1 DEF SeqInv
      <4>4. CASE e \notin Scheduled /\ f \notin Scheduled
        <5>1. PICK i \in DOMAIN outbox, j \in DOMAIN outbox : e = Flushed(i) /\ f = Flushed(j)
          BY <3>2, <4>4
        <5> QED
          BY <2>0, <3>1, <3>4, <5>1
      <4> QED
        BY <4>1, <4>2, <4>3, <4>4
    <3> QED
      BY <3>4, <3>5, <3>6 DEF SeqInv
  <2>4. ASSUME NEW ts \in Times, NEW t \in Types, Emit(ts, t), UNCHANGED <<heap, seq, cur>>
        PROVE  SeqInv'
    <3>1. UNCHANGED Scheduled
      BY <2>4 DEF Scheduled
    <3>2. CASE UNCHANGED <<outbox, calls>>
      BY <2>4, <3>1, <3>2 DEF SeqInv
    <3> DEFINE m == [ts |-> ts, type |-> t, nth |-> calls + 1]
    <3>3. CASE /\ calls' = calls + 1
               /\ Len(outbox') = Len(outbox) + 1
               /\ DOMAIN outbox' = DOMAIN outbox \cup {Len(outbox')}
               /\ \A i \in DOMAIN outbox : i # Len(outbox') /\ outbox'[i] = outbox[i]
               /\ outbox'[Len(outbox')] = m
      <4>1. m.nth = calls + 1
        OBVIOUS
      <4>2. \A i \in DOMAIN outbox : i \in Nat
        BY DEF TypeOK
      <4> HIDE DEF m
      <4> QED
        BY <2>0, <2>4, <3>1, <3>3, <4>1, <4>2 DEF SeqInv
    <3> QED
      BY <2>4, <3>2, <3>3, EmitAppends
  <2>5. CASE UNCHANGED <<heap, seq, cur, outbox, calls>>
    BY <2>5 DEF SeqInv, Scheduled
  <2>6. ASSUME NEW t \in Types, Send(t) PROVE SeqInv'
    BY <2>4, <2>6 DEF Send, TypeOK
  <2>7. ASSUME NEW ts \in Times, NEW t \in Types, SendAt(ts, t) PROVE SeqInv'
    BY <2>4, <2>5, <2>7 DEF SendAt
  <2> QED
    BY <2>1, <2>2, <2>3, <2>5, <2>6, <2>7 DEF Next, Register, On, Reduce, Ingest, RejectGraph,
       StartRun, Engine, ReturnFromRun, ApplyReducer, ReducersDone, InvokeHandler, Handler,
       WallTick, Stopped, vars
<1> QED
  BY <1>1, <1>2, Typing, PTL DEF Spec

\* NextEventUnique is a property of Ord for Event and of fresh sequence numbers.
THEOREM PopIsDeterministic == Spec => []NextEventUnique
<1>1. TypeOK /\ SeqInv => NextEventUnique
  <2> SUFFICES ASSUME TypeOK, SeqInv, NEW e \in heap, NEW f \in heap, IsNext(e), IsNext(f)
               PROVE  e = f
    BY DEF NextEventUnique
  <2>1. e.ts \in Int /\ f.ts \in Int /\ e.seq \in Nat /\ f.seq \in Nat
    BY TimesAssumption DEF TypeOK, Event
  <2>2. e.seq = f.seq
    BY <2>1 DEF IsNext, Precedes
  <2> QED
    BY <2>2 DEF SeqInv, Scheduled
<1> QED
  BY <1>1, Typing, Sequencing, PTL

\* HeadInv: what a run dispatches was due before all that waits, with either clock. The heap
\* may lag behind the wall clock, but not out of order.
THEOREM EarliestFirst == Spec => []HeadInv
<1>1. Init => HeadInv
  BY DEF Init, HeadInv
<1>2. TypeOK /\ SeqInv /\ HeadInv /\ [Next]_vars => HeadInv'
  <2> SUFFICES ASSUME TypeOK, SeqInv, HeadInv, [Next]_vars PROVE HeadInv'
    OBVIOUS
  <2> USE DEF HeadInv
  <2>1. \A e \in Scheduled : e.ts \in Int /\ e.seq \in Nat /\ e.nth \in Nat
    BY NoEventAssumption, TimesAssumption DEF TypeOK, Scheduled, Event
  <2>2. ASSUME NEW ts \in Times, NEW t \in Types, PushEvent(ts, t) PROVE HeadInv'
    BY <2>2 DEF PushEvent, owner
  <2>3. CASE PopEvent
    <3>1. PICK e \in heap : IsNext(e) /\ heap' = heap \ {e} /\ cur' = e
      BY <2>3 DEF PopEvent
    <3>2. ASSUME NEW f \in heap' PROVE Before(e, f)
      <4>1. f \in heap /\ f \in Scheduled /\ e \in Scheduled /\ f # e
        BY <3>1, <3>2 DEF Scheduled
      <4>2. ~Precedes(f, e)
        BY <3>1, <4>1 DEF IsNext
      <4> QED
        BY <2>1, <4>1, <4>2 DEF Before, Precedes, SeqInv
    <3> QED
      BY <3>1, <3>2 DEF Before
  <2>4. CASE FlushOutbox
    BY <2>4 DEF FlushOutbox
  <2>5. CASE /\ UNCHANGED <<heap, cur>>
             /\ phase' \in {"reduce", "handle"} => phase \in {"reduce", "handle"}
    BY <2>5 DEF Before
  <2> QED
    BY <2>2, <2>3, <2>4, <2>5, EventSteps
<1> QED
  BY <1>1, <1>2, Typing, Sequencing, PTL DEF Spec

-----------------------------------------------------------------------------
(***************************************************************************)
(* Time.  These hold of the simulated clock only: Kernel::run relies on    *)
(* clock.set, which LiveClock leaves empty.                                *)
(***************************************************************************)

\* ClockMonotone: SimClock::set is never called with an earlier instant.
THEOREM ClockNeverGoesBack == ASSUME ~Live PROVE Spec => ClockMonotone
<1>1. TypeOK /\ [Next]_vars => [clock' >= clock]_vars
  <2> SUFFICES ASSUME TypeOK, [Next]_vars PROVE clock' >= clock
    OBVIOUS
  <2>0. clock \in Int /\ \A e \in heap : e.ts \in Int
    BY TimesAssumption DEF TypeOK, Event
  <2>1. CASE PopEvent
    <3>1. PICK e \in heap : PopPast(e) \/ PopCounted(e)
      BY <2>1 DEF PopEvent
    <3> QED
      BY <2>0, <3>1 DEF PopPast, PopCounted, InPast, ClockSet
  <2>2. CASE UNCHANGED clock
    BY <2>0, <2>2
  <2> QED
    BY <2>1, <2>2 DEF Next, Register, On, Reduce, Ingest, PushEvent, RejectGraph, StartRun,
       Engine, ReturnFromRun, ApplyReducer, ReducersDone, InvokeHandler, FlushOutbox,
       Handler, Send, SendAt, WallTick, Stopped, vars
<1> QED
  BY <1>1, Typing, PTL DEF Spec, ClockMonotone

\* Every step other than the five that TimeInv and OrderInv are about.
Quiet ==
    /\ UNCHANGED <<heap, clock, cur, outbox, calls, prev>>
    /\ phase' = "handle" => phase \in {"reduce", "handle"}
    /\ phase' = "reduce" => phase = "reduce"
    /\ phase' = "pop" => phase = "pop"
    /\ phase' # "panicked" => phase # "panicked"
    /\ panic' # panic => panic' # "PastEvent"

\* With a simulated clock, a step is one of five or it is quiet.
LEMMA SimSteps ==
    ASSUME ~Live, TypeOK, [Next]_vars
    PROVE  \/ \E ts \in Times, t \in Types : PushEvent(ts, t)
           \/ StartRun
           \/ PopEvent
           \/ FlushOutbox
           \/ \E ts \in Times, t \in Types :
                /\ phase = "handle" /\ ts >= clock /\ Emit(ts, t)
                /\ UNCHANGED <<heap, clock, cur, prev>>
           \/ Quiet
<1> USE DEF Panic, owner, registry, guard, Quiet
<1>1. ASSUME NEW entry \in HandlerEntries, On(entry) PROVE Quiet
  BY <1>1 DEF On
<1>2. ASSUME NEW t \in Types, Reduce(t) PROVE Quiet
  BY <1>2 DEF Reduce
<1>3. CASE RejectGraph
  BY <1>3 DEF RejectGraph
<1>4. CASE ReturnFromRun
  BY <1>4 DEF ReturnFromRun
<1>5. CASE ApplyReducer \/ ReducersDone \/ InvokeHandler
  BY <1>5 DEF ApplyReducer, ReducersDone, InvokeHandler
<1>6. ASSUME NEW t \in Types, Send(t)
      PROVE  /\ phase = "handle" /\ clock >= clock /\ Emit(clock, t)
             /\ UNCHANGED <<heap, clock, cur, prev>>
  BY <1>6, TimesAssumption DEF Send, TypeOK
<1>7. ASSUME NEW ts \in Times, NEW t \in Types, SendAt(ts, t)
      PROVE  \/ /\ phase = "handle" /\ ts >= clock /\ Emit(ts, t)
                /\ UNCHANGED <<heap, clock, cur, prev>>
             \/ Quiet
  BY <1>7 DEF SendAt, InFuture
<1>8. CASE Stopped \/ UNCHANGED vars
  BY <1>8 DEF Stopped, vars
<1>9. ~WallTick
  BY DEF WallTick
<1>10. clock \in Times
  BY DEF TypeOK
<1> QED
  BY <1>1, <1>2, <1>3, <1>4, <1>5, <1>6, <1>7, <1>8, <1>9, <1>10
     DEF Next, Register, Ingest, Engine, Handler

\* Nothing but a stale push is ever behind the simulated clock.
THEOREM Punctuality == ASSUME ~Live PROVE Spec => []TimeInv
<1>1. Init => TimeInv
  BY DEF Init, TimeInv, PastPanicOnlyFromStalePush
<1>2. TypeOK /\ TimeInv /\ [Next]_vars => TimeInv'
  <2> SUFFICES ASSUME TypeOK, TimeInv, [Next]_vars PROVE TimeInv'
    OBVIOUS
  <2> USE DEF TimeInv, PastPanicOnlyFromStalePush
  <2>0. /\ clock \in Int /\ Times \subseteq Int
        /\ \A e \in heap : e.ts \in Int
        /\ phase # "panicked" => panic = "none"
        /\ phase = "reduce" => outbox = <<>>
    BY TimesAssumption DEF TypeOK, Event
  <2>1. ASSUME NEW ts \in Times, NEW t \in Types, PushEvent(ts, t) PROVE TimeInv'
    <3>1. Pushed(ts, t).ts = ts /\ (Pushed(ts, t).stale <=> ts < clock)
      BY DEF Pushed
    <3> QED
      BY <2>0, <2>1, <3>1 DEF PushEvent, owner
  <2>2. CASE StartRun
    BY <2>0, <2>2 DEF StartRun
  <2>3. CASE PopEvent
    <3>1. PICK e \in heap : /\ IsNext(e) /\ heap' = heap \ {e} /\ cur' = e
                            /\ PopPast(e) \/ PopCounted(e)
      BY <2>3 DEF PopEvent
    <3>2. phase = "pop" /\ panic = "none"
      BY <2>0, <2>3 DEF PopEvent
    <3>3. CASE PopPast(e)
      <4>1. e.stale
        BY <2>0, <3>2, <3>3 DEF PopPast, InPast
      <4>2. phase' = "panicked"
        BY <3>3 DEF PopPast, Panic
      <4> QED
        BY <3>1, <4>1, <4>2
    <3>4. CASE PopCounted(e)
      <4>1. clock' = e.ts /\ panic' # "PastEvent"
        BY <3>2, <3>4 DEF PopCounted, ClockSet, Panic
      <4>2. phase' # "handle"
        BY <3>4 DEF PopCounted, Panic
      <4>3. \A f \in heap : ~Precedes(f, e)
        BY <3>1 DEF IsNext
      <4>4. \A f \in heap : f.ts >= e.ts
        BY <2>0, <4>3 DEF Precedes
      <4>5. \A f \in heap' : f.ts >= clock'
        BY <3>1, <4>1, <4>4
      <4>6. phase' = "reduce" => cur'.ts = clock'
        BY <3>1, <4>1
      <4> QED
        BY <4>1, <4>2, <4>5, <4>6
    <3> QED
      BY <3>1, <3>3, <3>4
  <2>4. CASE FlushOutbox
    <3>1. \A i \in DOMAIN outbox : Flushed(i).ts >= clock
      BY <2>4 DEF FlushOutbox, Flushed
    <3>2. phase' = "pop" /\ panic' = "none" /\ clock' = clock
      BY <2>0, <2>4 DEF FlushOutbox
    <3> QED
      BY <2>4, <3>1, <3>2 DEF FlushOutbox, HeapWithOutbox
  <2>5. ASSUME NEW ts \in Times, NEW t \in Types, phase = "handle", ts >= clock, Emit(ts, t),
               UNCHANGED <<heap, clock, cur, prev>>
        PROVE  TimeInv'
    <3>1. CASE Panic("Undeclared") /\ UNCHANGED <<outbox, calls>>
      BY <2>5, <3>1 DEF Panic
    <3> DEFINE m == [ts |-> ts, type |-> t, nth |-> calls + 1]
    <3>2. CASE /\ DOMAIN outbox' = DOMAIN outbox \cup {Len(outbox')}
               /\ \A i \in DOMAIN outbox : i # Len(outbox') /\ outbox'[i] = outbox[i]
               /\ outbox'[Len(outbox')] = m
               /\ UNCHANGED owner
      <4>1. m.ts = ts
        OBVIOUS
      <4> HIDE DEF m
      <4> QED
        BY <2>0, <2>5, <3>2, <4>1 DEF owner
    <3> QED
      BY <2>5, <3>1, <3>2, EmitAppends
  <2>6. CASE Quiet
    <3>1. phase = "reduce" => DOMAIN outbox = {}
      BY <2>0
    <3> QED
      BY <2>0, <2>6, <3>1 DEF Quiet
  <2> QED
    BY <2>1, <2>2, <2>3, <2>4, <2>5, <2>6, SimSteps
<1> QED
  BY <1>1, <1>2, Typing, PTL DEF Spec

\* PastPanicOnlyFromStalePush: with a simulated clock the assertion on the
\* event's timestamp only ever rejects what was pushed for the past.
THEOREM PastPanics == ASSUME ~Live PROVE Spec => []PastPanicOnlyFromStalePush
<1>1. TimeInv => PastPanicOnlyFromStalePush
  BY DEF TimeInv
<1> QED
  BY <1>1, Punctuality, PTL

\* OrderInv: what is scheduled while an event is dispatched comes after it.
THEOREM Ordering == ASSUME ~Live PROVE Spec => []OrderInv
<1>1. Init => OrderInv
  BY DEF Init, OrderInv, HeadInv, DispatchOrder, Scheduled
<1>2. TypeOK /\ SeqInv /\ TimeInv /\ OrderInv /\ [Next]_vars => OrderInv'
  <2> SUFFICES ASSUME TypeOK, SeqInv, TimeInv, OrderInv, [Next]_vars PROVE OrderInv'
    OBVIOUS
  <2> USE DEF OrderInv, HeadInv, DispatchOrder, InRun
  <2>0. /\ calls \in Nat /\ Len(outbox) \in Nat
        /\ \A e \in Scheduled : e.ts \in Int /\ e.seq \in Nat /\ e.nth \in Nat
    <3>1. calls \in Nat /\ Len(outbox) \in Nat
      BY DEF TypeOK
    <3>2. Scheduled \subseteq Event
      BY DEF TypeOK, Scheduled
    <3> QED
      BY <3>1, <3>2, TimesAssumption DEF Event
  <2>1. ASSUME NEW ts \in Times, NEW t \in Types, PushEvent(ts, t) PROVE OrderInv'
    <3>1. phase' = "idle" /\ UNCHANGED <<cur, prev>>
      BY <2>1 DEF PushEvent, owner
    <3> QED
      BY <3>1 DEF Before
  <2>2. CASE StartRun
    BY <2>2 DEF StartRun
  <2>3. CASE PopEvent
    <3>1. PICK e \in heap : /\ IsNext(e) /\ heap' = heap \ {e} /\ cur' = e
      BY <2>3 DEF PopEvent
    <3>2. Scheduled' = Scheduled /\ prev' = prev /\ phase = "pop" /\ e \in Scheduled
      BY <2>3, PopKeepsScheduled DEF PopEvent, Scheduled
    <3>3. ASSUME NEW f \in heap' PROVE Before(e, f)
      <4>1. f \in heap /\ f \in Scheduled /\ f # e
        BY <3>1, <3>3 DEF Scheduled
      <4>2. ~Precedes(f, e)
        BY <3>1, <4>1 DEF IsNext
      <4> QED
        BY <2>0, <3>2, <4>1, <4>2 DEF Before, Precedes, SeqInv
    <3>4. prev # NoEvent => \A f \in Scheduled : Before(prev, f)
      BY <3>2
    <3> QED
      BY <3>1, <3>2, <3>3, <3>4 DEF Before
  <2>4. CASE FlushOutbox
    <3>1. /\ cur # NoEvent /\ cur \in Scheduled /\ clock = cur.ts
          /\ phase' = "pop" /\ prev' = cur /\ cur' = NoEvent
      BY <2>4, FlushAddsOutbox DEF FlushOutbox, TimeInv
    <3>2. ASSUME NEW e \in heap PROVE Before(cur, e)
      BY <2>4, <3>2 DEF FlushOutbox
    <3>3. ASSUME NEW i \in DOMAIN outbox PROVE Before(cur, Flushed(i))
      <4>1. /\ Flushed(i).ts = outbox[i].ts /\ outbox[i].ts \in Int
            /\ Flushed(i).nth = calls - Len(outbox) + i
            /\ i \in Nat /\ i > 0
        BY <2>4, FlushAddsOutbox, TimesAssumption DEF Flushed, SeqInv, Message
      <4>2. outbox[i].ts >= cur.ts /\ cur.nth + Len(outbox) <= calls
        BY <2>4, <3>1 DEF FlushOutbox, TimeInv, SeqInv
      <4> HIDE DEF Flushed
      <4> QED
        BY <2>0, <3>1, <4>1, <4>2 DEF Before
    <3>4. \A e \in Scheduled' : Before(cur, e)
      BY <2>4, <3>2, <3>3, FlushAddsOutbox
    <3> QED
      BY <3>1, <3>4 DEF Before
  <2>5. ASSUME phase = "handle", phase' \in {"handle", "panicked"},
               UNCHANGED <<heap, clock, cur, prev>>
        PROVE  OrderInv'
    BY <2>5 DEF Before, Scheduled
  <2>6. ASSUME NEW ts \in Times, NEW t \in Types, phase = "handle", Emit(ts, t),
               UNCHANGED <<heap, clock, cur, prev>>
        PROVE  OrderInv'
    <3>1. phase' \in {"handle", "panicked"}
      BY <2>6 DEF Emit, Panic, owner
    <3> QED
      BY <2>5, <2>6, <3>1
  <2>7. CASE Quiet
    BY <2>7 DEF Quiet, Before, Scheduled
  <2> QED
    BY <2>1, <2>2, <2>3, <2>4, <2>6, <2>7, SimSteps
<1> QED
  BY <1>1, <1>2, Typing, Sequencing, Punctuality, PTL DEF Spec

\* DispatchOrder: a run dispatches in order of time, and within an instant in
\* the order of the push and send calls, whatever the handlers do.
THEOREM RunsInOrder == ASSUME ~Live PROVE Spec => []DispatchOrder
<1>1. OrderInv => DispatchOrder
  BY DEF OrderInv
<1> QED
  BY <1>1, Ordering, PTL

-----------------------------------------------------------------------------
(***************************************************************************)
(* The message graph.  These hold of either clock.                         *)
(***************************************************************************)
\* A declared production of a handler of s is an edge from s.
LEMMA SendIsEdge ==
    ASSUME NEW hs, NEW i \in DOMAIN hs, NEW t \in hs[i].produces
    PROVE  <<hs[i].on, t>> \in Edges(hs)
BY DEF Edges

\* An edge leads to a declared production.
LEMMA EdgeIsProduction ==
    ASSUME NEW hs, NEW s, NEW t, <<s, t>> \in Edges(hs)
    PROVE  t \in Produced(hs)
BY DEF Edges, Produced

\* There are finitely many types, and one at least.
LEMMA TypeCount == Cardinality(Types) \in Nat /\ Cardinality(Types) >= 1
<1>1. Cardinality(Types) \in Nat /\ Cardinality(Types) # 0
  BY TypesAssumption, FS_CardinalityType, FS_EmptySet
<1> QED
  BY <1>1

\* GraphInv: from the validation on, every send follows an edge of a graph that some
\* ranking descends, so hops are bounded and productions consumed.
THEOREM GraphIsRespected == Spec => []GraphInv
<1> DEFINE N == Cardinality(Types)
           Ranked(S, E) == \A rank \in Ranks(Types) : Descends(rank, E) =>
                             \A e \in S : rank[e.type] + e.hops <= N - 1
<1>1. N \in Nat /\ N >= 1
  BY TypeCount
<1>2. \A rank \in Ranks(Types), t \in Types : rank[t] \in Nat /\ rank[t] <= N - 1
  BY <1>1 DEF Ranks
<1>3. Init => GraphInv
  BY DEF Init, GraphInv, Scheduled, InRun, HopBound, ProductionConsumed
<1>4. TypeOK /\ GraphInv /\ [Next]_vars => GraphInv'
  <2> SUFFICES ASSUME TypeOK, GraphInv, [Next]_vars PROVE GraphInv'
    OBVIOUS
  <2> USE DEF GraphInv, InRun, Panic, owner, registry, guard
  <2>0. /\ \A e \in Scheduled : e.type \in Types /\ e.hops \in Nat
        /\ phase = "idle" => Scheduled = heap
        /\ phase = "reduce" => DOMAIN outbox = {}
    <3>1. Scheduled \subseteq Event
      BY DEF TypeOK, Scheduled
    <3>2. phase \in {"idle", "pop"} => cur = NoEvent
      BY DEF TypeOK
    <3>3. phase = "reduce" => outbox = <<>>
      BY DEF TypeOK
    <3> QED
      BY <3>1, <3>2, <3>3 DEF Scheduled, Event
  <2>1. ASSUME phase = "idle", phase' \in {"idle", "panicked"},
               \A e \in Scheduled' : e.hops = 0
        PROVE  GraphInv'
    BY <1>1, <2>1 DEF HopBound, ProductionConsumed, Scheduled
  <2>2. ASSUME NEW entry \in HandlerEntries, On(entry) PROVE GraphInv'
    BY <2>0, <2>1, <2>2 DEF On, Scheduled
  <2>3. ASSUME NEW t \in Types, Reduce(t) PROVE GraphInv'
    BY <2>0, <2>1, <2>3 DEF Reduce, Scheduled
  <2>4. ASSUME NEW ts \in Times, NEW t \in Types, PushEvent(ts, t) PROVE GraphInv'
    <3>1. Pushed(ts, t).hops = 0
      BY DEF Pushed
    <3>2. phase = "idle" /\ phase' = "idle"
      BY <2>4 DEF PushEvent
    <3> QED
      BY <2>0, <2>1, <2>4, <3>1, <3>2, PushAddsOne
  <2>5. CASE RejectGraph
    BY <2>0, <2>1, <2>5 DEF RejectGraph, Scheduled
  <2>6. CASE StartRun
    <3>1. Scheduled' = Scheduled /\ UNCHANGED <<handlers, reducers, heap>>
      BY <2>6 DEF StartRun, Scheduled
    <3>2. \A e \in Scheduled : e.hops = 0
      BY <2>0, <2>6 DEF StartRun
    <3>3. Ranked(Scheduled, Edges(handlers))
      BY <1>1, <1>2, <2>0, <3>2
    <3> QED
      BY <1>1, <2>6, <3>1, <3>2, <3>3
         DEF StartRun, NoOrphans, NoCycles, HopBound, ProductionConsumed
  <2>7. CASE PopEvent
    <3>1. Scheduled' = Scheduled /\ UNCHANGED <<handlers, reducers>>
      BY <2>7, PopKeepsScheduled DEF PopEvent
    <3>2. phase = "pop" /\ phase' \in {"reduce", "panicked"}
      BY <2>7 DEF PopEvent, PopPast, PopCounted, SeqNext, InPast
    <3> QED
      BY <3>1, <3>2 DEF NoOrphans, NoCycles, HopBound, ProductionConsumed
  <2>8. CASE ReturnFromRun
    BY <2>8 DEF ReturnFromRun, Scheduled, HopBound, ProductionConsumed
  <2>9. ASSUME phase \in {"reduce", "handle"}, phase' \in {phase, "panicked"},
               UNCHANGED <<heap, cur, registry, outbox>>, phase = "handle" => UNCHANGED idx
        PROVE  GraphInv'
    <3>1. Scheduled' = Scheduled
      BY <2>9 DEF Scheduled
    <3> QED
      BY <2>9, <3>1 DEF NoOrphans, NoCycles, HopBound, ProductionConsumed, Matches
  <2>10. CASE ApplyReducer
    BY <2>9, <2>10 DEF ApplyReducer
  <2>11. CASE ReducersDone
    <3>1. Scheduled' = Scheduled
      BY <2>11 DEF ReducersDone, Scheduled
    <3>2. ~(idx' > 0) /\ DOMAIN outbox' = {}
      BY <2>0, <2>11 DEF ReducersDone
    <3> QED
      BY <2>11, <3>1, <3>2 DEF ReducersDone, NoOrphans, NoCycles, HopBound, ProductionConsumed
  <2>12. CASE InvokeHandler
    <3>1. Scheduled' = Scheduled /\ Matches(idx)'
      BY <2>12 DEF InvokeHandler, NextHandler, Scheduled, Matches
    <3> QED
      BY <2>12, <3>1 DEF InvokeHandler, NoOrphans, NoCycles, HopBound, ProductionConsumed
  <2>13. CASE FlushOutbox
    <3>1. /\ cur \in Scheduled /\ cur.type \in Types /\ cur.hops \in Nat
          /\ \A e \in Scheduled' : e \in Scheduled \/ \E i \in DOMAIN outbox : e = Flushed(i)
      BY <2>0, <2>13, FlushAddsOutbox
    <3>2. \A i \in DOMAIN outbox : /\ Flushed(i).hops = cur.hops + 1
                                   /\ Flushed(i).type = outbox[i].type
                                   /\ outbox[i].type \in Types
                                   /\ <<cur.type, outbox[i].type>> \in Edges(handlers)
      BY <2>13, FlushAddsOutbox DEF FlushOutbox, Flushed, Message
    <3>3. \A rank \in Ranks(Types) : Descends(rank, Edges(handlers)) =>
            \A i \in DOMAIN outbox : rank[outbox[i].type] < rank[cur.type]
      BY <3>2 DEF Descends
    <3>4. Ranked(Scheduled, Edges(handlers))
      BY <2>13 DEF FlushOutbox
    <3>5. Ranked(Scheduled', Edges(handlers))
      <4> SUFFICES ASSUME NEW rank \in Ranks(Types), Descends(rank, Edges(handlers)),
                          NEW e \in Scheduled'
                   PROVE  rank[e.type] + e.hops <= N - 1
        OBVIOUS
      <4>1. CASE e \in Scheduled
        BY <3>4, <4>1
      <4>2. CASE e \notin Scheduled
        <5>1. PICK i \in DOMAIN outbox : e = Flushed(i)
          BY <3>1, <4>2
        <5>2. rank[outbox[i].type] \in Nat /\ rank[cur.type] \in Nat
          BY <1>2, <3>1, <3>2
        <5>3. rank[cur.type] + cur.hops <= N - 1
          BY <3>1, <3>4
        <5>4. rank[outbox[i].type] < rank[cur.type]
          BY <3>3
        <5>5. e.type = outbox[i].type /\ e.hops = cur.hops + 1
          BY <3>2, <5>1
        <5> QED
          BY <1>1, <3>1, <5>2, <5>3, <5>4, <5>5
      <4> QED
        BY <4>1, <4>2
    <3>6. \A e \in Scheduled' : e.type \in Types /\ e.hops \in Nat
      <4>1. cur.hops + 1 \in Nat
        BY <3>1
      <4> QED
        BY <2>0, <3>1, <3>2, <4>1
    <3>7. NoOrphans /\ NoCycles /\ phase' = "pop" /\ UNCHANGED <<handlers, reducers>>
      BY <2>13 DEF FlushOutbox
    <3>8. HopBound'
      <4>1. PICK rank \in Ranks(Types) : Descends(rank, Edges(handlers))
        BY <3>7 DEF NoCycles, Acyclic
      <4>2. \A e \in Scheduled' : rank[e.type] + e.hops <= N - 1 /\ rank[e.type] \in Nat
        BY <1>2, <3>5, <3>6, <4>1
      <4> QED
        BY <1>1, <3>6, <4>2 DEF HopBound
    <3>9. ProductionConsumed'
      <4>1. \A i \in DOMAIN outbox : Flushed(i).type \in Consumed(handlers, reducers)
        BY <3>2, <3>7, EdgeIsProduction DEF NoOrphans
      <4> QED
        BY <3>1, <3>7, <4>1 DEF ProductionConsumed
    <3> QED
      BY <3>5, <3>7, <3>8, <3>9 DEF NoOrphans, NoCycles
  <2>14. ASSUME NEW ts \in Times, NEW t \in Types, phase = "handle", idx > 0, Emit(ts, t),
                UNCHANGED <<heap, registry, cur, idx>>
         PROVE  GraphInv'
    <3>1. CASE Panic("Undeclared") /\ UNCHANGED <<outbox, calls>>
      BY <2>9, <2>14, <3>1
    <3> DEFINE m == [ts |-> ts, type |-> t, nth |-> calls + 1]
    <3>2. CASE /\ t \in handlers[idx].produces
               /\ DOMAIN outbox' = DOMAIN outbox \cup {Len(outbox')}
               /\ \A i \in DOMAIN outbox : i # Len(outbox') /\ outbox'[i] = outbox[i]
               /\ outbox'[Len(outbox')] = m
               /\ UNCHANGED owner
      <4>1. m.type = t
        OBVIOUS
      <4>2. idx \in DOMAIN handlers /\ handlers[idx].on = cur.type
        BY <2>14 DEF TypeOK, Matches
      <4>3. <<cur.type, t>> \in Edges(handlers)
        BY <3>2, <4>2, SendIsEdge
      <4> HIDE DEF m
      <4>4. \A i \in DOMAIN outbox' : <<cur.type, outbox'[i].type>> \in Edges(handlers)
        BY <2>14, <3>2, <4>1, <4>3
      <4>5. Scheduled' = Scheduled /\ phase' = "handle"
        BY <2>14, <3>2 DEF Scheduled
      <4> QED
        BY <2>14, <4>4, <4>5 DEF NoOrphans, NoCycles, HopBound, ProductionConsumed, Matches
    <3> QED
      BY <2>14, <3>1, <3>2, EmitAppends
  <2>15. ASSUME NEW t \in Types, Send(t) PROVE GraphInv'
    BY <2>14, <2>15 DEF Send, TypeOK
  <2>16. ASSUME NEW ts \in Times, NEW t \in Types, SendAt(ts, t) PROVE GraphInv'
    BY <2>9, <2>14, <2>16 DEF SendAt
  <2>17. CASE WallTick \/ Stopped \/ UNCHANGED vars
    <3>1. UNCHANGED <<Scheduled, heap, handlers, reducers, cur, phase, outbox, idx>>
      BY <2>17 DEF WallTick, Stopped, vars, Scheduled
    <3> QED
      BY <3>1 DEF NoOrphans, NoCycles, HopBound, ProductionConsumed, Matches
  <2> QED
    BY <2>2, <2>3, <2>4, <2>5, <2>6, <2>7, <2>8, <2>10, <2>11, <2>12, <2>13, <2>15, <2>16,
       <2>17 DEF Next, Register, Ingest, Engine, Handler
<1> QED
  BY <1>3, <1>4, Typing, PTL DEF Spec

\* HopBound: on a validated graph no chain of sends is as long as the number
\* of message types.
THEOREM CascadesAreBounded == Spec => []HopBound
<1>1. GraphInv => HopBound
  BY DEF GraphInv
<1> QED
  BY <1>1, GraphIsRespected, PTL

\* ProductionConsumed: nothing a handler sends is dropped for want of a consumer.
THEOREM ProductionsAreConsumed == Spec => []ProductionConsumed
<1>1. GraphInv => ProductionConsumed
  BY DEF GraphInv
<1> QED
  BY <1>1, GraphIsRespected, PTL

-----------------------------------------------------------------------------
(***************************************************************************)
(* Reducers before handlers.                                               *)
(***************************************************************************)
\* CacheInv: during a dispatch exactly the cells of the reducers that ran are new.
THEOREM Reduction == Spec => []CacheInv
<1>1. Init => CacheInv
  BY DEF Init, CacheInv
<1>2. TypeOK /\ CacheInv /\ [Next]_vars => CacheInv'
  <2> SUFFICES ASSUME TypeOK, CacheInv, [Next]_vars PROVE CacheInv'
    OBVIOUS
  <2> USE DEF CacheInv, Panic, owner, registry, guard
  <2>0. /\ seq \in Nat /\ idx \in Nat
        /\ \A t \in Types : reducers[t] \in Nat /\ reducers[t] <= MaxReducers
        /\ \A t \in Types, i \in 1 .. MaxReducers : cache[t][i] \in Nat
        /\ phase = "reduce" => cur.type \in Types
    BY BoundsAssumption DEF TypeOK, Event
  <2>1. ASSUME cache' = cache, seq' \in Nat, seq' >= seq, phase' \notin {"reduce", "handle"}
        PROVE  CacheInv'
    BY <2>0, <2>1
  <2>2. ASSUME UNCHANGED <<cache, seq, phase, cur, reducers>>, phase = "reduce" => UNCHANGED idx
        PROVE  CacheInv'
    BY <2>2
  <2>3. ASSUME NEW entry \in HandlerEntries, On(entry) PROVE CacheInv'
    BY <2>0, <2>1, <2>3 DEF On
  <2>4. ASSUME NEW t \in Types, Reduce(t) PROVE CacheInv'
    BY <2>0, <2>1, <2>4 DEF Reduce
  <2>5. ASSUME NEW ts \in Times, NEW t \in Types, PushEvent(ts, t) PROVE CacheInv'
    BY <2>0, <2>1, <2>5 DEF PushEvent, SeqNext
  <2>6. CASE RejectGraph \/ StartRun \/ ReturnFromRun
    BY <2>0, <2>1, <2>6 DEF RejectGraph, StartRun, ReturnFromRun
  <2>7. CASE PopEvent
    <3>1. PICK e \in heap : PopPast(e) \/ PopCounted(e)
      BY <2>7 DEF PopEvent
    <3>2. CASE PopPast(e)
      BY <2>0, <2>1, <2>7, <3>2 DEF PopEvent, PopPast, InPast
    <3>3. CASE PopCounted(e)
      BY <2>0, <2>7, <3>3 DEF PopEvent, PopCounted, SeqNext, InPast
    <3> QED
      BY <3>1, <3>2, <3>3
  <2>8. CASE ApplyReducer
    <3>1. idx + 1 \in 1 .. MaxReducers /\ cur.type \in Types
      BY <2>0, <2>8, BoundsAssumption DEF ApplyReducer, ReducersLeft
    <3>2. cache \in [Types -> [1 .. MaxReducers -> Nat]]
      BY DEF TypeOK
    <3>3. \A t \in Types, i \in 1 .. MaxReducers :
            cache'[t][i] = IF t = cur.type /\ i = idx + 1 THEN seq ELSE cache[t][i]
      BY <2>8, <3>1, <3>2 DEF ApplyReducer
    <3>4. UNCHANGED <<seq, phase, cur, reducers>> /\ phase = "reduce" /\ idx' = idx + 1
      BY <2>8 DEF ApplyReducer
    <3>5. \A t \in Types, i \in 1 .. MaxReducers :
            cache'[t][i] <= seq /\ (cache'[t][i] = seq <=> t = cur.type /\ i <= idx + 1)
      BY <2>0, <3>3, <3>4
    <3> QED
      BY <3>4, <3>5
  <2>9. CASE ReducersDone
    <3>1. idx = reducers[cur.type]
      BY <2>0, <2>9 DEF ReducersDone, ReducersLeft, TypeOK
    <3> QED
      BY <2>0, <2>9, <3>1 DEF ReducersDone
  <2>10. CASE InvokeHandler
    BY <2>2, <2>10 DEF InvokeHandler
  <2>11. CASE FlushOutbox
    <3>1. Len(outbox) \in Nat
      BY DEF TypeOK
    <3> QED
      BY <2>0, <2>1, <2>11, <3>1 DEF FlushOutbox
  <2>12. ASSUME NEW ts \in Times, NEW t \in Types, phase = "handle",
                Emit(ts, t) \/ Panic("PastSend"), UNCHANGED <<seq, registry, cache, cur, idx>>
         PROVE  CacheInv'
    <3>1. UNCHANGED phase \/ phase' = "panicked"
      BY <2>12 DEF Emit
    <3> QED
      BY <2>0, <2>1, <2>2, <2>12, <3>1
  <2>13. ASSUME NEW t \in Types, Send(t) PROVE CacheInv'
    BY <2>12, <2>13 DEF Send, TypeOK
  <2>14. ASSUME NEW ts \in Times, NEW t \in Types, SendAt(ts, t) PROVE CacheInv'
    BY <2>12, <2>14 DEF SendAt
  <2>15. CASE WallTick \/ Stopped \/ UNCHANGED vars
    BY <2>2, <2>15 DEF WallTick, Stopped, vars
  <2> QED
    BY <2>3, <2>4, <2>5, <2>6, <2>7, <2>8, <2>9, <2>10, <2>11, <2>13, <2>14, <2>15
       DEF Next, Register, Ingest, Engine, Handler
<1> QED
  BY <1>1, <1>2, Typing, PTL DEF Spec

\* ReducedView: a handler reads a cache that all reducers of its message, and
\* no reducer of a later one, have been through.
THEOREM HandlersSeeReducedCache == Spec => []ReducedView
<1>1. TypeOK /\ CacheInv => ReducedView
  <2> SUFFICES ASSUME TypeOK, CacheInv, phase = "handle",
                      NEW t \in Types, NEW i \in 1 .. reducers[t]
               PROVE  IF t = cur.type THEN cache[t][i] = seq ELSE cache[t][i] < seq
    BY DEF ReducedView
  <2>1. reducers[t] \in 0 .. MaxReducers /\ MaxReducers \in Nat /\ seq \in Nat
    BY BoundsAssumption DEF TypeOK
  <2>2. i \in 1 .. MaxReducers /\ i <= reducers[t]
    BY <2>1
  <2>3. cache[t][i] \in Nat
    BY <2>2 DEF TypeOK
  <2> QED
    BY <2>1, <2>2, <2>3 DEF CacheInv
<1> QED
  BY <1>1, Typing, Reduction, PTL

-----------------------------------------------------------------------------
(***************************************************************************)
(* Refinement: the kernel is an event loop, with either clock.             *)
(***************************************************************************)
PendingOf(S) == {AsPending(e) : e \in S}

\* Handling one event, from the pop to the flush, is one Process step of the
\* abstract loop; a push is an Ingest; every other step is invisible.
THEOREM KernelIsEventLoop == Spec => ImplementsEventLoop
<1> USE DEF Loop!vars
<1>1. Init => Loop!Init
  <2> SUFFICES ASSUME Init PROVE Loop!Init
    OBVIOUS
  <2>1. heap = {} /\ cur = NoEvent /\ calls = 0 /\ outbox = <<>>
    BY DEF Init
  <2>2. Scheduled = {}
    BY <2>1 DEF Scheduled
  <2>3. calls = 0 /\ Len(outbox) = 0
    BY <2>1
  <2>4. calls - Len(outbox) = 0
    BY <2>3
  <2> QED
    BY <2>2, <2>4 DEF Loop!Init
<1>2. TypeOK /\ SeqInv /\ (~Live => TimeInv) /\ HeadInv /\ [Next]_vars => [Loop!Next]_(Loop!vars)
  <2> SUFFICES ASSUME TypeOK, SeqInv, ~Live => TimeInv, HeadInv, [Next]_vars
               PROVE  [Loop!Next]_(Loop!vars)
    OBVIOUS
  <2>0. /\ calls \in Nat /\ Len(outbox) \in Nat /\ Len(outbox) <= MaxOutbox
        /\ Scheduled \subseteq Event
    BY DEF TypeOK, Scheduled
  <2>1. ASSUME NEW ts \in Times, NEW t \in Types, PushEvent(ts, t) PROVE Loop!Next
    <3> DEFINE m == [ts |-> ts, type |-> t]
    <3>1. m \in Loop!Message
      BY DEF Loop!Message
    <3>2. AsPending(Pushed(ts, t)) = Loop!Due(m, calls + 1)
      BY DEF AsPending, Pushed, Loop!Due
    <3>3. Scheduled' = Scheduled \cup {Pushed(ts, t)} /\ outbox = <<>> /\ outbox' = <<>>
      BY <2>1, PushAddsOne
    <3>4. calls' = calls + 1 /\ Len(outbox) = 0 /\ Len(outbox') = 0
      BY <2>1, <3>3 DEF PushEvent
    <3>5. PendingOf(Scheduled)' = PendingOf(Scheduled) \cup {Loop!Due(m, calls + 1)}
      BY <3>2, <3>3 DEF PendingOf
    <3>6. /\ calls - Len(outbox) + 1 = calls + 1
          /\ calls' - Len(outbox') = calls - Len(outbox) + 1
      BY <2>0, <3>4
    <3> HIDE DEF m
    <3>7. Loop!Ingest(m)
      BY <3>5, <3>6 DEF Loop!Ingest, PendingOf
    <3> QED
      BY <3>1, <3>7 DEF Loop!Next
  <2>2. CASE FlushOutbox
    <3> DEFINE n == Len(outbox)
               out == [i \in 1 .. n |-> [ts |-> outbox[i].ts, type |-> outbox[i].type]]
               c == AsPending(cur)
    <3>1. /\ cur \in Event /\ Scheduled = heap \cup {cur}
          /\ Scheduled' = heap \cup {Flushed(i) : i \in DOMAIN outbox}
          /\ DOMAIN outbox = 1 .. n /\ \A i \in 1 .. n : outbox[i] \in Message
          /\ Len(outbox') = 0 /\ calls' = calls
      BY <2>2, FlushAddsOutbox DEF FlushOutbox, TypeOK
    <3>2. out \in [1 .. n -> Loop!Message]
      BY <3>1 DEF Message, Loop!Message
    <3>3. \A i \in 1 .. n : AsPending(Flushed(i)) = Loop!Due(out[i], (calls - n) + i)
      BY <3>1 DEF AsPending, Flushed, Loop!Due, SeqInv
    <3>4. ~Live => \A i \in 1 .. n : out[i].ts >= c.ts
      BY <2>2, <3>1 DEF FlushOutbox, TimeInv, AsPending
    <3>5. \A e \in heap : AsPending(e) # c /\ (c.ts < e.ts \/ (c.ts = e.ts /\ c.nth < e.nth))
      <4>1. \A e \in heap : Before(cur, e)
        BY <2>2 DEF FlushOutbox, HeadInv
      <4>2. \A e \in heap : e.ts \in Int /\ e.nth \in Nat /\ cur.ts \in Int /\ cur.nth \in Nat
        BY <2>0, <3>1, TimesAssumption DEF Event, Scheduled
      <4> QED
        BY <4>1, <4>2 DEF Before, AsPending
    <3>6. PendingOf(Scheduled)' =
            (PendingOf(Scheduled) \ {c}) \cup {Loop!Due(out[i], (calls - n) + i) : i \in 1 .. n}
      BY <3>1, <3>3, <3>5 DEF PendingOf
    <3>7. c \in PendingOf(Scheduled) /\ Loop!Earliest(c)
      <4>1. c.ts \in Int /\ c.nth \in Nat
        BY <3>1, TimesAssumption DEF Event, AsPending
      <4>2. \A e \in heap : LET f == AsPending(e) IN f.ts = e.ts /\ f.nth = e.nth
        BY DEF AsPending
      <4>3. c \in PendingOf(Scheduled)
        BY <3>1 DEF PendingOf
      <4>4. \A f \in PendingOf(Scheduled) : f = c \/ \E e \in heap : f = AsPending(e)
        BY <3>1 DEF PendingOf
      <4> HIDE DEF c
      <4>5. \A f \in PendingOf(Scheduled) : c.ts < f.ts \/ (c.ts = f.ts /\ c.nth <= f.nth)
        <5> SUFFICES ASSUME NEW f \in PendingOf(Scheduled), f # c
                     PROVE  c.ts < f.ts \/ (c.ts = f.ts /\ c.nth <= f.nth)
          BY <4>1
        <5>1. PICK e \in heap : f = AsPending(e)
          BY <4>4
        <5>2. e.nth \in Nat
          BY <2>0, <3>1 DEF Event, Scheduled
        <5> QED
          BY <3>5, <4>1, <4>2, <5>1, <5>2
      <4> QED
        BY <4>3, <4>5 DEF PendingOf, Loop!Earliest
    <3>8. /\ calls' - Len(outbox') = (calls - n) + n
          /\ n \in 0 .. MaxOutbox
      BY <2>0, <3>1, BoundsAssumption
    <3> HIDE DEF out, c
    <3>9. Loop!Process(c)
      BY <3>2, <3>4, <3>6, <3>7, <3>8 DEF Loop!Process, PendingOf
    <3> QED
      BY <3>7, <3>9 DEF Loop!Next, PendingOf
  <2>3. ASSUME NEW ts \in Times, NEW t \in Types, Emit(ts, t), UNCHANGED <<heap, cur>>
        PROVE  UNCHANGED Loop!vars
    <3>1. \/ calls' = calls + 1 /\ Len(outbox') = Len(outbox) + 1
          \/ UNCHANGED <<outbox, calls>>
      BY <2>3, EmitAppends
    <3>2. calls' - Len(outbox') = calls - Len(outbox)
      BY <2>0, <3>1
    <3> QED
      BY <2>3, <3>2 DEF Scheduled
  <2>4. CASE PopEvent
    <3>1. UNCHANGED <<Scheduled, calls, outbox>>
      BY <2>4, PopKeepsScheduled DEF PopEvent
    <3> QED
      BY <3>1
  <2>5. CASE UNCHANGED <<heap, cur, outbox, calls>>
    BY <2>5 DEF Scheduled
  <2> QED
    BY <2>1, <2>2, <2>3, <2>4, <2>5, EventSteps
<1>3. Spec => [](~Live => TimeInv)
  <2>1. CASE ~Live
    BY <2>1, Punctuality, PTL
  <2>2. CASE Live
    <3>1. ~Live => TimeInv
      BY <2>2
    <3> QED
      BY <3>1, PTL
  <2> QED
    BY <2>1, <2>2
<1> QED
  BY <1>1, <1>2, <1>3, Typing, Sequencing, EarliestFirst, PTL
     DEF Spec, ImplementsEventLoop, Loop!Spec

-----------------------------------------------------------------------------
(***************************************************************************)
(* Progress.  A cascade could keep run() in its loop for ever; what stops  *)
(* it is that an event waits for at most Cardinality(Types) hops more.     *)
(* Count the waiting events by their hops: a flush takes an event away and *)
(* adds some, but only with more hops.  Between two flushes the dispatch   *)
(* walks down two finite lists.                                            *)
(***************************************************************************)
Hops == 0 .. Cardinality(Types) - 1

\* The events still to be dispatched that are h handlers away from their push.
Waiting(h) == Cardinality({e \in Scheduled : e.hops = h})

\* What the dispatch at hand still does: a pop, reducers, handlers.
StepsLeft ==
    CASE phase = "reduce" -> reducers[cur.type] - idx + Len(handlers) + 1
      [] phase = "handle" -> Len(handlers) - idx
      [] OTHER            -> MaxReducers + Len(handlers) + 2

\* Both are numbers, and no event is beyond the last of the hops.
Measured ==
    /\ StepsLeft \in Nat
    /\ \A h \in Hops : Waiting(h) \in Nat
    /\ \A e \in Scheduled : e.hops \in Hops

\* Less is waiting, fewest hops first, or as much is and the dispatch is further on.
Closer ==
    \/ StepsLeft' < StepsLeft /\ \A h \in Hops : Waiting(h)' = Waiting(h)
    \/ \E h \in Hops : Waiting(h)' < Waiting(h) /\ \A g \in 0 .. h - 1 : Waiting(g)' = Waiting(g)

AsFar == StepsLeft' = StepsLeft /\ \A h \in Hops : Waiting(h)' = Waiting(h)

\* The heap is finite, and what is dispatched was taken off it.
HeapInv == IsFiniteSet(heap) /\ cur \notin heap

\* Finitely many messages leave the outbox, so the heap stays finite.
THEOREM HeapIsFinite == Spec => []HeapInv
<1>1. Init => HeapInv
  BY FS_EmptySet DEF Init, HeapInv
<1>2. TypeOK /\ TypeOK' /\ HeapInv /\ [Next]_vars => HeapInv'
  <2> SUFFICES ASSUME TypeOK, TypeOK', HeapInv, [Next]_vars PROVE HeapInv'
    OBVIOUS
  <2> USE DEF HeapInv
  <2>1. ASSUME NEW ts \in Times, NEW t \in Types, PushEvent(ts, t) PROVE HeapInv'
    <3>1. IsFiniteSet(heap')
      BY <2>1, FS_AddElement DEF PushEvent
    <3>2. cur' = NoEvent /\ heap' \subseteq Event
      BY <2>1 DEF PushEvent, TypeOK
    <3> QED
      BY <3>1, <3>2, NoEventAssumption
  <2>2. CASE PopEvent
    <3>1. heap' = heap \ {cur'}
      BY <2>2, PopKeepsScheduled
    <3> QED
      BY <3>1, FS_RemoveElement
  <2>3. CASE FlushOutbox
    <3> DEFINE S == DOMAIN outbox
               T == {Flushed(i) : i \in S}
               f == [i \in S |-> Flushed(i)]
    <3>1. IsFiniteSet(S)
      <4>1. PICK n \in Nat : S = 1 .. n
        BY DEF TypeOK
      <4> QED
        BY <4>1, FS_Interval
    <3>2. f \in Surjection(S, T)
      BY DEF Surjection
    <3>3. IsFiniteSet(T)
      <4> HIDE DEF S, T, f
      <4> QED
        BY <3>1, <3>2, FS_Surjection
    <3>4. heap' = heap \cup T /\ cur' = NoEvent /\ heap' \subseteq Event
      BY <2>3 DEF FlushOutbox, HeapWithOutbox, TypeOK
    <3>5. IsFiniteSet(heap \cup T)
      BY <3>3, FS_Union
    <3> QED
      BY <3>4, <3>5, NoEventAssumption
  <2>4. CASE UNCHANGED <<heap, cur>>
    BY <2>4
  <2>5. \/ \E ts \in Times, t \in Types : PushEvent(ts, t)
        \/ PopEvent \/ FlushOutbox \/ UNCHANGED <<heap, cur>>
    BY EventSteps
  <2> QED
    BY <2>1, <2>2, <2>3, <2>4, <2>5
<1> QED
  BY <1>1, <1>2, Typing, PTL DEF Spec

\* Finitely many events in an order without ties: one of them is first.
LEMMA HeapHasNext ==
    ASSUME TypeOK, HeapInv, heap # {}
    PROVE  \E e \in heap : IsNext(e)
<1> DEFINE Below(e) == {f \in heap : Precedes(f, e)}
           T == {Cardinality(Below(e)) : e \in heap}
<1>1. \A e \in heap : e.ts \in Int /\ e.seq \in Nat
  BY TimesAssumption DEF TypeOK, Event
<1>2. ASSUME NEW e \in heap PROVE IsFiniteSet(Below(e)) /\ Cardinality(Below(e)) \in Nat
  BY FS_Subset, FS_CardinalityType DEF HeapInv
<1>3. T \subseteq Nat /\ T # {}
  BY <1>2
<1>4. PICK m \in T : \A n \in T : m <= n
  <2> HIDE DEF T
  <2> QED
    BY <1>3, LeastNumber
<1>5. PICK e \in heap : m = Cardinality(Below(e))
  BY <1>4
<1>6. ASSUME NEW f \in heap, Precedes(f, e) PROVE FALSE
  <2>1. f \in Below(e) /\ f \notin Below(f) /\ Below(f) \subseteq Below(e)
    BY <1>1, <1>6 DEF Precedes
  <2>2. Below(f) \in SUBSET (Below(e) \ {f})
    BY <2>1
  <2>3. Cardinality(Below(f)) \in T
    OBVIOUS
  <2> HIDE DEF Below, T
  <2>4. /\ IsFiniteSet(Below(e) \ {f})
        /\ Cardinality(Below(e) \ {f}) = Cardinality(Below(e)) - 1
    BY <1>2, <2>1, FS_RemoveElement
  <2>5. Cardinality(Below(f)) <= Cardinality(Below(e)) - 1
    BY <2>2, <2>4, FS_Subset
  <2> QED
    BY <1>2, <1>4, <1>5, <2>3, <2>5
<1> QED
  BY <1>6 DEF IsNext

\* BinaryHeap::pop has exactly one event to return whenever the heap is not empty.
THEOREM PopFindsOne ==
    Spec => [](heap # {} => \E e \in heap : IsNext(e) /\ \A f \in heap : IsNext(f) => f = e)
<1>1. TypeOK /\ HeapInv /\ NextEventUnique
        => (heap # {} => \E e \in heap : IsNext(e) /\ \A f \in heap : IsNext(f) => f = e)
  BY HeapHasNext DEF NextEventUnique
<1> QED
  BY <1>1, Typing, HeapIsFinite, PopIsDeterministic, PTL

\* What the measure counts are numbers.
LEMMA MeasuresAreNumbers ==
    ASSUME TypeOK, GraphInv, HeapInv
    PROVE  Measured
<1>1. Len(handlers) \in Nat /\ idx \in Nat /\ MaxReducers \in Nat
  BY BoundsAssumption DEF TypeOK
<1>2. phase = "reduce" => reducers[cur.type] \in Nat /\ idx <= reducers[cur.type]
  BY BoundsAssumption DEF TypeOK, Event
<1>3. phase = "handle" => idx <= Len(handlers)
  BY DEF TypeOK
<1>4. StepsLeft \in Nat
  BY <1>1, <1>2, <1>3 DEF StepsLeft
<1>5. IsFiniteSet(Scheduled)
  <2>1. IsFiniteSet({cur} \ {NoEvent})
    BY FS_Singleton, FS_RemoveElement
  <2> QED
    BY <2>1, FS_Union DEF HeapInv, Scheduled
<1>6. ASSUME NEW h PROVE Waiting(h) \in Nat
  <2>1. {e \in Scheduled : e.hops = h} \in SUBSET Scheduled
    OBVIOUS
  <2> QED
    BY <1>5, <2>1, FS_Subset, FS_CardinalityType DEF Waiting
<1>7. ASSUME NEW e \in Scheduled PROVE e.hops \in Hops
  <2>1. e.hops \in Nat
    BY DEF Scheduled, TypeOK, Event
  <2> QED
    BY <2>1, TypeCount DEF GraphInv, HopBound, Hops
<1> QED
  BY <1>4, <1>6, <1>7 DEF Measured

\* A flush takes away the event that was dispatched, and what it adds is a handler further.
LEMMA FlushIsCloser ==
    ASSUME TypeOK, GraphInv, HeapInv, FlushOutbox
    PROVE  Closer
<1> DEFINE At(h) == {e \in Scheduled : e.hops = h}
<1>1. /\ cur \in Event /\ cur # NoEvent
      /\ Scheduled = heap \cup {cur}
      /\ Scheduled' = heap \cup {Flushed(i) : i \in DOMAIN outbox}
  BY FlushAddsOutbox
<1>2. PICK k \in Hops : k = cur.hops
  BY <1>1, MeasuresAreNumbers DEF Measured
<1>3. k \in Nat /\ \A i \in DOMAIN outbox : Flushed(i).hops = k + 1
  BY <1>2, TypeCount DEF Flushed, Hops
<1>4. ASSUME NEW g \in 0 .. k - 1 PROVE Waiting(g)' = Waiting(g)
  <2>1. g # k /\ g # k + 1
    BY <1>3, <1>4
  <2>2. At(g)' = At(g)
    BY <1>1, <1>2, <1>3, <2>1
  <2> QED
    BY <2>2 DEF Waiting
<1>5. Waiting(k)' < Waiting(k)
  <2>1. At(k)' = At(k) \ {cur} /\ cur \in At(k)
    BY <1>1, <1>2, <1>3 DEF HeapInv
  <2>2. IsFiniteSet(At(k))
    <3>1. IsFiniteSet(heap \cup {cur})
      BY FS_AddElement DEF HeapInv
    <3>2. At(k) \in SUBSET (heap \cup {cur})
      BY <1>1
    <3> QED
      BY <3>1, <3>2, FS_Subset
  <2>3. Waiting(k) = Cardinality(At(k)) /\ Waiting(k)' = Cardinality(At(k)')
    BY DEF Waiting
  <2> HIDE DEF At
  <2>4. Cardinality(At(k)) \in Nat /\ Cardinality(At(k) \ {cur}) = Cardinality(At(k)) - 1
    BY <2>1, <2>2, FS_CardinalityType, FS_RemoveElement
  <2> QED
    BY <2>1, <2>3, <2>4
<1> QED
  BY <1>2, <1>4, <1>5 DEF Closer

\* run() cannot go on for ever: within a run every step of the engine leaves less to do, and
\* no step of a closure or of the clock takes that back.  It rests on the validated graph
\* alone, not on the bound per instant nor on the clock.
THEOREM EveryStepOfARunCounts ==
    Spec => [][InRun /\ InRun' => /\ Measured /\ Measured'
                                  /\ IF Engine THEN Closer ELSE AsFar]_vars
<1>1. TypeOK /\ GraphInv /\ HeapInv => Measured
  BY MeasuresAreNumbers
<1>2. TypeOK /\ TypeOK' /\ GraphInv /\ HeapInv
      /\ Measured /\ Measured' /\ [Next]_vars
        => [InRun /\ InRun' => /\ Measured /\ Measured'
                               /\ IF Engine THEN Closer ELSE AsFar]_vars
  <2> SUFFICES ASSUME TypeOK, TypeOK', GraphInv, HeapInv, Next, InRun, InRun'
               PROVE  IF Engine THEN Closer ELSE AsFar
    OBVIOUS
  <2> USE DEF owner, registry, guard
  <2>1. ASSUME UNCHANGED Scheduled PROVE \A h \in Hops : Waiting(h)' = Waiting(h)
    BY <2>1 DEF Waiting
  <2>2. /\ idx \in Nat /\ Len(handlers) \in Nat
        /\ MaxReducers \in Nat /\ \A t \in Types : reducers[t] \in Nat /\ reducers[t] <= MaxReducers
        /\ phase = "reduce" => cur.type \in Types
    BY BoundsAssumption DEF TypeOK, Event
  <2>3. CASE PopEvent
    <3>1. UNCHANGED <<Scheduled, handlers, reducers>> /\ phase = "pop" /\ idx' = 0
      BY <2>3, PopKeepsScheduled DEF PopEvent
    <3>2. phase' = "reduce"
      BY <2>3 DEF PopEvent, PopPast, PopCounted, Panic, InRun
    <3>3. cur'.type \in Types
      BY <3>2 DEF TypeOK, Event
    <3>4. StepsLeft = MaxReducers + Len(handlers) + 2
      BY <3>1 DEF StepsLeft
    <3>5. StepsLeft' = reducers[cur'.type] - 0 + Len(handlers) + 1
      BY <3>1, <3>2 DEF StepsLeft
    <3>6. StepsLeft' < StepsLeft
      BY <2>2, <3>3, <3>4, <3>5
    <3> QED
      BY <2>1, <2>3, <3>1, <3>6 DEF Closer, Engine
  <2>4. CASE ApplyReducer
    <3>1. /\ phase = "reduce" /\ phase' = "reduce" /\ idx' = idx + 1
          /\ UNCHANGED <<Scheduled, handlers, reducers, cur>>
      BY <2>4 DEF ApplyReducer, Scheduled
    <3>2. StepsLeft = reducers[cur.type] - idx + Len(handlers) + 1
      BY <3>1 DEF StepsLeft
    <3>3. StepsLeft' = reducers[cur.type] - (idx + 1) + Len(handlers) + 1
      BY <3>1 DEF StepsLeft
    <3>4. StepsLeft' < StepsLeft
      BY <2>2, <3>1, <3>2, <3>3
    <3> QED
      BY <2>1, <2>4, <3>1, <3>4 DEF Closer, Engine
  <2>5. CASE ReducersDone
    <3>1. /\ phase = "reduce" /\ phase' = "handle" /\ idx' = 0
          /\ UNCHANGED <<Scheduled, handlers, reducers, cur>>
          /\ idx <= reducers[cur.type]
      BY <2>5 DEF ReducersDone, Scheduled, TypeOK
    <3>2. StepsLeft = reducers[cur.type] - idx + Len(handlers) + 1
      BY <3>1 DEF StepsLeft
    <3>3. StepsLeft' = Len(handlers) - 0
      BY <3>1 DEF StepsLeft
    <3>4. StepsLeft' < StepsLeft
      BY <2>2, <3>1, <3>2, <3>3
    <3> QED
      BY <2>1, <2>5, <3>1, <3>4 DEF Closer, Engine
  <2>6. CASE InvokeHandler
    <3>1. /\ phase = "handle" /\ phase' = "handle"
          /\ idx' \in Nat /\ idx' > idx
          /\ UNCHANGED <<Scheduled, handlers, cur>>
      BY <2>6 DEF InvokeHandler, NextHandler, Scheduled, TypeOK
    <3>2. StepsLeft = Len(handlers) - idx /\ StepsLeft' = Len(handlers) - idx'
      BY <3>1 DEF StepsLeft
    <3>3. StepsLeft' < StepsLeft
      BY <2>2, <3>1, <3>2
    <3> QED
      BY <2>1, <2>6, <3>1, <3>3 DEF Closer, Engine
  <2>7. CASE FlushOutbox
    BY <2>7, FlushIsCloser DEF Engine
  <2>8. ~ReturnFromRun
    BY DEF ReturnFromRun, InRun
  <2>9. CASE Handler \/ WallTick
    <3>1. /\ UNCHANGED <<phase, heap, cur, idx, handlers, reducers>>
          /\ phase' # "panicked"
      BY <2>9 DEF Handler, Send, SendAt, Emit, Panic, WallTick, InRun
    <3>2. AsFar
      BY <2>1, <3>1 DEF AsFar, Scheduled, StepsLeft
    <3>3. ~Engine
      <4>1. ~PopEvent
        BY <3>1 DEF PopEvent, PopPast, PopCounted, Panic
      <4>2. ~ApplyReducer /\ ~ReducersDone /\ ~FlushOutbox
        BY <2>2, <3>1 DEF ApplyReducer, ReducersDone, FlushOutbox
      <4>3. ~InvokeHandler
        BY <2>2, <3>1 DEF InvokeHandler, NextHandler
      <4> QED
        BY <2>8, <4>1, <4>2, <4>3 DEF Engine
    <3> QED
      BY <3>2, <3>3
  <2>10. Engine \/ Handler \/ WallTick
    BY DEF Next, Register, On, Reduce, Ingest, PushEvent, RejectGraph, StartRun, Stopped, InRun
  <2> QED
    BY <2>3, <2>4, <2>5, <2>6, <2>7, <2>8, <2>9, <2>10 DEF Engine
<1> QED
  BY <1>1, <1>2, Typing, GraphIsRespected, HeapIsFinite, PTL DEF Spec

\* Nothing is lost, with either clock: what is scheduled stays so until it has been through
\* all its reducers and handlers.
THEOREM NothingIsLost ==
    Spec => [][\A e \in Scheduled : \/ e \in Scheduled'
                                    \/ FlushOutbox /\ e = cur /\ prev' = e]_vars
<1>1. TypeOK /\ [Next]_vars
        => [\A e \in Scheduled : \/ e \in Scheduled'
                                 \/ FlushOutbox /\ e = cur /\ prev' = e]_vars
  <2> SUFFICES ASSUME TypeOK, Next, NEW e \in Scheduled
               PROVE  e \in Scheduled' \/ (FlushOutbox /\ e = cur /\ prev' = e)
    OBVIOUS
  <2>1. ASSUME NEW ts \in Times, NEW t \in Types, PushEvent(ts, t) PROVE e \in Scheduled'
    BY <2>1, PushAddsOne
  <2>2. CASE PopEvent
    BY <2>2, PopKeepsScheduled
  <2>3. CASE FlushOutbox
    BY <2>3, FlushAddsOutbox DEF FlushOutbox
  <2>4. CASE UNCHANGED <<heap, cur>>
    BY <2>4 DEF Scheduled
  <2>5. \/ \E ts \in Times, t \in Types : PushEvent(ts, t)
        \/ PopEvent \/ FlushOutbox \/ UNCHANGED <<heap, cur>>
    BY EventSteps
  <2> QED
    BY <2>1, <2>2, <2>3, <2>4, <2>5
<1> QED
  BY <1>1, Typing, PTL DEF Spec

-----------------------------------------------------------------------------
(***************************************************************************)
(* Replay: nothing that run() does by itself is left to chance.            *)
(***************************************************************************)
\* The first of two kernels is a kernel.
LEMMA ReplayIsSpec == ReplaySpec => Spec
<1>1. ReplayInit => Init
  BY DEF ReplayInit
<1>2. [ReplayNext]_<<vars, vars2>> => [Next]_vars
  BY DEF ReplayNext, SameCall, RunBoth, StoppedBoth, Next, Register, Ingest, Handler
<1> QED
  BY <1>1, <1>2, PTL DEF ReplaySpec, Spec

\* In states that agree, both kernels read the same.
LEMMA AgreeingReads ==
    ASSUME ReplayAgrees
    PROVE  /\ Twin!NoOrphans = NoOrphans /\ Twin!NoCycles = NoCycles
           /\ Twin!ReducersLeft = ReducersLeft
           /\ \A e : Twin!IsNext(e) <=> IsNext(e)
           /\ \A i : Twin!NextHandler(i) <=> NextHandler(i)
           /\ Twin!HeapWithOutbox = HeapWithOutbox
<1> USE DEF ReplayAgrees
<1>1. Twin!NoOrphans = NoOrphans /\ Twin!NoCycles = NoCycles
  <2>1. \A hs, rs : Twin!Produced(hs) = Produced(hs) /\ Twin!Consumed(hs, rs) = Consumed(hs, rs)
    BY DEF Twin!Produced, Produced, Twin!Consumed, Consumed, Twin!Subscribed, Subscribed
  <2>2. \A N, E : Twin!Acyclic(N, E) = Acyclic(N, E)
    <3>1. \A N : Twin!Cardinality(N) = Cardinality(N)
      BY DEF Twin!Cardinality, Cardinality
    <3>2. \A N : Twin!Ranks(N) = Ranks(N)
      BY <3>1 DEF Twin!Ranks, Ranks
    <3> QED
      BY <3>2 DEF Twin!Acyclic, Acyclic, Twin!Descends, Descends
  <2>3. \A hs : Twin!Edges(hs) = Edges(hs)
    BY DEF Twin!Edges, Edges
  <2> QED
    BY <2>1, <2>2, <2>3 DEF Twin!NoOrphans, NoOrphans, Twin!NoCycles, NoCycles
<1>2. Twin!ReducersLeft = ReducersLeft
  BY DEF Twin!ReducersLeft, ReducersLeft
<1>3. \A e : Twin!IsNext(e) <=> IsNext(e)
  BY DEF Twin!IsNext, IsNext, Twin!Precedes, Precedes
<1>4. \A i : Twin!NextHandler(i) <=> NextHandler(i)
  BY DEF Twin!NextHandler, NextHandler, Twin!Matches, Matches
<1>5. Twin!HeapWithOutbox = HeapWithOutbox
  BY DEF Twin!HeapWithOutbox, HeapWithOutbox, Twin!Flushed, Flushed
<1> QED
  BY <1>1, <1>2, <1>3, <1>4, <1>5

\* At most one entry is next: the first behind idx that takes the type.
LEMMA NextHandlerUnique ==
    ASSUME TypeOK, NEW i \in DOMAIN handlers, NEW j \in DOMAIN handlers,
           NextHandler(i), NextHandler(j)
    PROVE  i = j
<1>1. i \in Nat /\ j \in Nat /\ idx \in Nat
  BY DEF TypeOK
<1> QED
  BY <1>1 DEF NextHandler

\* What the engine does next, and what comes of it, is settled by the state.
LEMMA EngineIsAFunction ==
    ASSUME TypeOK, NextEventUnique, ReplayAgrees, Engine, Twin!Engine
    PROVE  ReplayAgrees'
<1> USE DEF ReplayAgrees, Panic, Twin!Panic, owner, registry, guard,
        Twin!owner, Twin!registry, Twin!guard
<1>1. CASE PopEvent
  <2>1. Twin!PopEvent
    BY <1>1 DEF PopEvent, Twin!Engine, Twin!ReturnFromRun, Twin!ApplyReducer, Twin!ReducersDone,
                Twin!InvokeHandler, Twin!FlushOutbox
  <2>2. PICK e \in heap : IsNext(e) /\ heap' = heap \ {e} /\ cur' = e /\ (PopPast(e) \/ PopCounted(e))
    BY <1>1 DEF PopEvent
  <2>3. PICK f \in heap2 : /\ Twin!IsNext(f) /\ heap2' = heap2 \ {f} /\ cur2' = f
                           /\ Twin!PopPast(f) \/ Twin!PopCounted(f)
    BY <2>1 DEF Twin!PopEvent
  <2>4. f = e
    BY <2>2, <2>3, AgreeingReads DEF NextEventUnique
  <2>5. <<phase2, panic2, clock2, seq2, instant2, iters2>>' = <<phase, panic, clock, seq, instant, iters>>'
    BY <2>2, <2>3, <2>4 DEF PopPast, Twin!PopPast, PopCounted, Twin!PopCounted, InPast, Twin!InPast,
       ClockSet, Twin!ClockSet, SeqNext, Twin!SeqNext, CountAt, Twin!CountAt
  <2> QED
    BY <1>1, <2>1, <2>2, <2>3, <2>4, <2>5 DEF PopEvent, Twin!PopEvent
<1>2. CASE ReturnFromRun
  <2>1. Twin!ReturnFromRun
    BY <1>2 DEF ReturnFromRun, Twin!Engine, Twin!PopEvent, Twin!ApplyReducer, Twin!ReducersDone,
                Twin!InvokeHandler, Twin!FlushOutbox
  <2> QED
    BY <1>2, <2>1 DEF ReturnFromRun, Twin!ReturnFromRun
<1>3. CASE ApplyReducer
  <2>1. Twin!ApplyReducer
    BY <1>3, AgreeingReads DEF ApplyReducer, Twin!Engine, Twin!PopEvent, Twin!ReturnFromRun,
                Twin!ReducersDone, Twin!InvokeHandler, Twin!FlushOutbox
  <2> QED
    BY <1>3, <2>1 DEF ApplyReducer, Twin!ApplyReducer
<1>4. CASE ReducersDone
  <2>1. Twin!ReducersDone
    BY <1>4, AgreeingReads DEF ReducersDone, Twin!Engine, Twin!PopEvent, Twin!ReturnFromRun,
                Twin!ApplyReducer, Twin!InvokeHandler, Twin!FlushOutbox
  <2> QED
    BY <1>4, <2>1 DEF ReducersDone, Twin!ReducersDone
<1>5. CASE InvokeHandler
  <2>1. PICK i \in DOMAIN handlers : NextHandler(i) /\ idx' = i
    BY <1>5 DEF InvokeHandler
  <2>2. Twin!InvokeHandler
    BY <1>5, <2>1, AgreeingReads DEF InvokeHandler, Twin!Engine, Twin!PopEvent, Twin!ReturnFromRun,
                Twin!ApplyReducer, Twin!ReducersDone, Twin!FlushOutbox
  <2>3. PICK j \in DOMAIN handlers : NextHandler(j) /\ idx2' = j
    BY <2>2, AgreeingReads DEF Twin!InvokeHandler
  <2>4. i = j
    BY <2>1, <2>3, NextHandlerUnique
  <2> QED
    BY <1>5, <2>1, <2>2, <2>3, <2>4 DEF InvokeHandler, Twin!InvokeHandler
<1>6. CASE FlushOutbox
  <2>1. Twin!FlushOutbox
    BY <1>6, AgreeingReads DEF FlushOutbox, Twin!Engine, Twin!PopEvent, Twin!ReturnFromRun,
                Twin!ApplyReducer, Twin!ReducersDone, Twin!InvokeHandler
  <2> QED
    BY <1>6, <2>1, AgreeingReads DEF FlushOutbox, Twin!FlushOutbox
<1> QED
  BY <1>1, <1>2, <1>3, <1>4, <1>5, <1>6 DEF Engine

\* ReplayAgrees: from the same start and with the same calls, two kernels dispatch the same
\* events in the same order and are always in the same state.
THEOREM ReplayNeverDiverges == ReplaySpec => []ReplayAgrees
<1>1. ReplayInit => ReplayAgrees
  BY DEF ReplayInit, Init, Twin!Init, ReplayAgrees
<1>2. TypeOK /\ NextEventUnique /\ ReplayAgrees /\ [ReplayNext]_<<vars, vars2>> => ReplayAgrees'
  <2> SUFFICES ASSUME TypeOK, NextEventUnique, ReplayAgrees, [ReplayNext]_<<vars, vars2>>
               PROVE  ReplayAgrees'
    OBVIOUS
  <2> USE DEF Panic, Twin!Panic, owner, registry, guard, Twin!owner, Twin!registry, Twin!guard
  <2>1. ASSUME NEW entry \in HandlerEntries, On(entry), Twin!On(entry) PROVE ReplayAgrees'
    BY <2>1 DEF ReplayAgrees, On, Twin!On
  <2>2. ASSUME NEW t \in Types, Reduce(t), Twin!Reduce(t) PROVE ReplayAgrees'
    BY <2>2 DEF ReplayAgrees, Reduce, Twin!Reduce
  <2>3. ASSUME NEW ts \in Times, NEW t \in Types, PushEvent(ts, t), Twin!PushEvent(ts, t)
        PROVE  ReplayAgrees'
    BY <2>3 DEF ReplayAgrees, PushEvent, Twin!PushEvent, Pushed, Twin!Pushed, SeqNext, Twin!SeqNext
  <2>4. ASSUME NEW t \in Types, Send(t), Twin!Send(t) PROVE ReplayAgrees'
    BY <2>4 DEF ReplayAgrees, Send, Twin!Send, Emit, Twin!Emit
  <2>5. ASSUME NEW ts \in Times, NEW t \in Types, SendAt(ts, t), Twin!SendAt(ts, t)
        PROVE  ReplayAgrees'
    BY <2>5 DEF ReplayAgrees, SendAt, Twin!SendAt, InFuture, Twin!InFuture, Emit, Twin!Emit
  <2>6. CASE RejectGraph /\ Twin!RejectGraph
    BY <2>6, AgreeingReads DEF ReplayAgrees, RejectGraph, Twin!RejectGraph
  <2>7. CASE StartRun /\ Twin!StartRun
    BY <2>7 DEF ReplayAgrees, StartRun, Twin!StartRun
  <2>8. CASE Engine /\ Twin!Engine
    BY <2>8, EngineIsAFunction
  <2>9. CASE StoppedBoth \/ UNCHANGED <<vars, vars2>>
    <3>1. UNCHANGED <<vars, vars2>>
      BY <2>9 DEF StoppedBoth, Stopped, Twin!Stopped, vars2, Twin!vars
    <3> QED
      BY <3>1 DEF ReplayAgrees, vars, vars2
  <2> QED
    BY <2>1, <2>2, <2>3, <2>4, <2>5, <2>6, <2>7, <2>8, <2>9 DEF ReplayNext, SameCall, RunBoth
<1> QED
  BY <1>1, <1>2, ReplayIsSpec, Typing, PopIsDeterministic, PTL DEF ReplaySpec
=============================================================================

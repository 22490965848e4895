------------------------------- MODULE Kernel -------------------------------
(***************************************************************************)
(* The kernel of kavod (kernel.rs) with the parts it drives: the scheduler *)
(* (schedule.rs), the sequence number (log.rs), the clock (clock.rs and    *)
(* clock/), the reducer and handler registries (reducer.rs, handler.rs)    *)
(* and the context through which a handler sends (context.rs).             *)
(*                                                                         *)
(* One thread of control runs everything: the owner of the kernel          *)
(* registers closures, pushes events and calls run(); run() pops one event *)
(* at a time, applies its reducers, invokes its handlers and moves what    *)
(* they sent from the outbox to the heap.  `phase' says where that thread  *)
(* is.  The closures are the kernel's environment: a handler may send any  *)
(* message at any instant, declared or not.                                *)
(*                                                                         *)
(* A failed assert! is a panic that unwinds out of the kernel; it is the   *)
(* last thing a behaviour does.                                            *)
(*                                                                         *)
(* An operator named X_Y stands before X and says how X might be wrong; no *)
(* action uses it.                                                         *)
(***************************************************************************)
EXTENDS MessageGraph

CONSTANTS
    Types,          \* message types (TypeIds)
    Times,          \* instants that timestamps are drawn from
    HandlerEntries, \* [on, produces] entries the owner may register
    Live,           \* TRUE: LiveClock, FALSE: SimClock
    MaxIterations,  \* max_iterations_per_instant
    NoEvent,        \* no event: between two dispatches
    \* Bounds of the model; the code has none of them.
    MaxHandlers, MaxReducers,   \* registered handlers, reducers per type
    MaxOutbox,                  \* messages sent while one event is dispatched
    MaxSeq                      \* push_event is not called at or past this seq

Event == [ts : Times, seq : Nat, type : Types, nth : Nat, hops : Nat, stale : BOOLEAN]

ASSUME TypesAssumption == IsFiniteSet(Types) /\ Types # {}
ASSUME TimesAssumption == Times \subseteq Int
ASSUME EntriesAssumption == HandlerEntries \subseteq [on : Types, produces : SUBSET Types]
ASSUME LiveAssumption == Live \in BOOLEAN
ASSUME BoundsAssumption ==
    /\ MaxIterations \in Nat
    /\ {MaxHandlers, MaxReducers, MaxOutbox, MaxSeq} \subseteq Nat
ASSUME NoEventAssumption == NoEvent \notin Event

VARIABLES
    \* The owner's view.
    phase,      \* "idle" outside run(); "pop", "reduce", "handle" inside; "panicked"
    panic,      \* the assertion that failed, "none" so far
    \* Kernel fields.
    heap,       \* Scheduler: the events in the BinaryHeap
    clock,      \* what clock.now() returns
    seq,        \* SeqNo
    handlers,   \* HandlerRegistry: entries in dispatch order
    reducers,   \* ReducerRegistry: how many reducers each type has
    cache,      \* Cache: for each reducer the seq of the event it last applied
    inbound_log,\* InboundLog
    \* Locals of run().
    cur,        \* the event being dispatched, or NoEvent
    idx,        \* reducers applied (phase "reduce"), last handler invoked ("handle")
    outbox,     \* what the handlers of cur sent so far
    instant,    \* current_instant
    iters,      \* instant_iter_count
    \* History, read by no guard.
    prev,       \* the event this run dispatched before cur
    calls       \* push_event, send and send_at calls that went through

owner    == <<phase, panic>>
registry == <<handlers, reducers>>
guard    == <<instant, iters>>
vars == <<owner, heap, clock, seq, registry, cache, inbound_log, cur, idx, outbox, guard,
          prev, calls>>

(***************************************************************************)
(* Events carry three history fields: nth is the number of the call that   *)
(* created the event, hops the number of handlers between it and the push  *)
(* it goes back to, and stale says that it was pushed for a past instant.  *)
(***************************************************************************)
Message == [ts : Times, type : Types, nth : Nat]

Phases == {"idle", "pop", "reduce", "handle", "panicked"}

Panics == {"none", "NoConsumer", "Cycle", "PastEvent", "MaxIterations", "PastSend", "Undeclared"}

TypeOK ==
    /\ phase \in Phases /\ panic \in Panics
    /\ phase # "panicked" => panic = "none"
    /\ heap \subseteq Event
    /\ clock \in Times /\ instant \in Times
    /\ seq \in Nat /\ iters \in Nat /\ idx \in Nat /\ calls \in Nat
    /\ handlers \in Seq(HandlerEntries)
    /\ reducers \in [Types -> 0 .. MaxReducers]
    /\ cache \in [Types -> [1 .. MaxReducers -> Nat]]
    /\ inbound_log = <<>>
    /\ cur \in Event \cup {NoEvent} /\ prev \in Event \cup {NoEvent}
    /\ outbox \in Seq(Message) /\ Len(outbox) <= MaxOutbox
    /\ phase \in {"reduce", "handle"} => cur \in Event
    /\ phase \in {"idle", "pop"} => cur = NoEvent /\ outbox = <<>>
    /\ phase = "reduce" => idx <= reducers[cur.type] /\ outbox = <<>>
    /\ phase = "handle" => idx <= Len(handlers)

Init ==
    /\ phase = "idle" /\ panic = "none"
    /\ heap = {} /\ seq = 0 /\ calls = 0
    /\ clock \in Times /\ instant = clock /\ iters = 0
    /\ handlers = <<>>
    /\ reducers = [t \in Types |-> 0]
    /\ cache = [t \in Types |-> [i \in 1 .. MaxReducers |-> 0]]
    /\ inbound_log = <<>>
    /\ cur = NoEvent /\ prev = NoEvent /\ idx = 0 /\ outbox = <<>>

\* SeqNo::next
SeqNext_Stuck(n) == n
SeqNext(n) == n + 1

Panic(reason) == phase' = "panicked" /\ panic' = reason

-----------------------------------------------------------------------------
(***************************************************************************)
(* Between runs: the owner registers closures and pushes events.           *)
(***************************************************************************)

\* Kernel::on, or on() of a state group, with the produces() chained to it.
On(entry) ==
    /\ phase = "idle"
    /\ Len(handlers) < MaxHandlers
    /\ handlers' = Append(handlers, entry)
    /\ UNCHANGED <<owner, heap, clock, seq, reducers, cache, inbound_log, cur, idx, outbox,
                   guard, prev, calls>>

\* Kernel::reduce
Reduce(t) ==
    /\ phase = "idle"
    /\ reducers[t] < MaxReducers
    /\ reducers' = [reducers EXCEPT ![t] = @ + 1]
    /\ UNCHANGED <<owner, heap, clock, seq, handlers, cache, inbound_log, cur, idx, outbox,
                   guard, prev, calls>>

Pushed(ts, t) ==
    [ts |-> ts, seq |-> SeqNext(seq), type |-> t, nth |-> calls + 1, hops |-> 0,
     stale |-> ts < clock]

\* Kernel::push_event: any instant, any type; neither is checked.
PushEvent(ts, t) ==
    /\ phase = "idle"
    /\ seq < MaxSeq
    /\ seq' = SeqNext(seq)
    /\ calls' = calls + 1
    /\ heap' = heap \cup {Pushed(ts, t)}
    /\ UNCHANGED <<owner, clock, registry, cache, inbound_log, cur, idx, outbox, guard, prev>>

-----------------------------------------------------------------------------
(***************************************************************************)
(* Kernel::run.  graph::validate first: orphans, then cycles.              *)
(***************************************************************************)
NoOrphans_Unchecked == TRUE
NoOrphans == Produced(handlers) \subseteq Consumed(handlers, reducers)
NoCycles_Unchecked == TRUE
NoCycles == Acyclic(Types, Edges(handlers))

RejectGraph ==
    /\ phase = "idle"
    /\ \/ ~NoOrphans /\ Panic("NoConsumer")
       \/ NoOrphans /\ ~NoCycles /\ Panic("Cycle")
    /\ UNCHANGED <<heap, clock, seq, registry, cache, inbound_log, cur, idx, outbox, guard,
                   prev, calls>>

StartRun ==
    /\ phase = "idle"
    /\ NoOrphans /\ NoCycles
    /\ phase' = "pop"
    /\ instant' = clock /\ iters' = 0
    /\ prev' = NoEvent
    /\ UNCHANGED <<panic, heap, clock, seq, registry, cache, inbound_log, cur, idx, outbox,
                   calls>>

\* The order of the heap: Ord for Event.
Precedes_LastIn(e, f) == e.ts < f.ts \/ (e.ts = f.ts /\ e.seq > f.seq)
Precedes(e, f) == e.ts < f.ts \/ (e.ts = f.ts /\ e.seq < f.seq)

\* An event that BinaryHeap::pop may return.
IsNext(e) == e \in heap /\ \A f \in heap : ~Precedes(f, e)

\* instant_iter_count once e is counted.
CountAt(e) == IF e.ts = instant THEN iters + 1 ELSE 1

\* SimClock jumps to the event's instant; LiveClock::set does nothing.
ClockSet(ts) == clock' = IF Live THEN clock ELSE ts

InPast_Never(e) == FALSE
InPast(e) == e.ts < clock

PopPast(e) ==
    /\ InPast(e)
    /\ Panic("PastEvent")
    /\ UNCHANGED <<clock, seq, guard>>

PopCounted(e) ==
    /\ ~InPast(e)
    /\ ClockSet(e.ts)
    /\ seq' = SeqNext(seq)
    /\ instant' = e.ts
    /\ iters' = CountAt(e)
    /\ IF iters' > MaxIterations
       THEN Panic("MaxIterations")
       ELSE phase' = "reduce" /\ panic' = panic

PopEvent ==
    /\ phase = "pop"
    /\ \E e \in heap :
         /\ IsNext(e)
         /\ heap' = heap \ {e}
         /\ cur' = e
         /\ PopPast(e) \/ PopCounted(e)
    /\ idx' = 0
    /\ UNCHANGED <<registry, cache, inbound_log, outbox, prev, calls>>

\* The heap is empty: run() returns.
ReturnFromRun ==
    /\ phase = "pop" /\ heap = {}
    /\ phase' = "idle"
    /\ UNCHANGED <<panic, heap, clock, seq, registry, cache, inbound_log, cur, idx, outbox,
                   guard, prev, calls>>

-----------------------------------------------------------------------------
(***************************************************************************)
(* One dispatch: every reducer of the type in registration order, then     *)
(* every matching handler in registration order, then the outbox.          *)
(***************************************************************************)
ReducersLeft_FirstOnly == idx = 0 /\ reducers[cur.type] > 0
ReducersLeft_OneMore == idx <= reducers[cur.type]
ReducersLeft == idx < reducers[cur.type]

ApplyReducer ==
    /\ phase = "reduce" /\ ReducersLeft
    /\ idx' = idx + 1
    /\ cache' = [cache EXCEPT ![cur.type][idx + 1] = seq]
    /\ UNCHANGED <<owner, heap, clock, seq, registry, inbound_log, cur, outbox, guard, prev,
                   calls>>

ReducersDone ==
    /\ phase = "reduce" /\ ~ReducersLeft
    /\ phase' = "handle" /\ idx' = 0
    /\ UNCHANGED <<panic, heap, clock, seq, registry, cache, inbound_log, cur, outbox, guard,
                   prev, calls>>

Matches(i) == handlers[i].on = cur.type

\* The entry that dispatch reaches after idx, of those that match.
NextHandler_Again(i) == Matches(i) /\ i >= idx /\ \A j \in (idx .. i - 1) \ {0} : ~Matches(j)
NextHandler(i) == Matches(i) /\ i > idx /\ \A j \in idx + 1 .. i - 1 : ~Matches(j)

InvokeHandler ==
    /\ phase = "handle"
    /\ \E i \in DOMAIN handlers : NextHandler(i) /\ idx' = i
    /\ UNCHANGED <<owner, heap, clock, seq, registry, cache, inbound_log, cur, outbox, guard,
                   prev, calls>>

\* check_produces, then the message goes to the outbox.
Emit(ts, t) ==
    IF t \in handlers[idx].produces
    THEN /\ outbox' = Append(outbox, [ts |-> ts, type |-> t, nth |-> calls + 1])
         /\ calls' = calls + 1
         /\ UNCHANGED owner
    ELSE Panic("Undeclared") /\ UNCHANGED <<outbox, calls>>

\* Context::send from the handler that runs: due now.
Send(t) ==
    /\ phase = "handle" /\ idx > 0
    /\ Len(outbox) < MaxOutbox
    /\ Emit(clock, t)
    /\ UNCHANGED <<heap, clock, seq, registry, cache, inbound_log, cur, idx, guard, prev>>

InFuture_Any(ts) == TRUE
InFuture(ts) == ts >= clock

\* Context::send_at: the instant is checked before the type.
SendAt(ts, t) ==
    /\ phase = "handle" /\ idx > 0
    /\ Len(outbox) < MaxOutbox
    /\ IF InFuture(ts)
       THEN Emit(ts, t)
       ELSE Panic("PastSend") /\ UNCHANGED <<outbox, calls>>
    /\ UNCHANGED <<heap, clock, seq, registry, cache, inbound_log, cur, idx, guard, prev>>

\* The i-th message of the outbox as the event the flush makes of it.
Flushed_Reversed(i) ==
    [ts |-> outbox[i].ts, seq |-> seq + Len(outbox) + 1 - i, type |-> outbox[i].type,
     nth |-> outbox[i].nth, hops |-> cur.hops + 1, stale |-> FALSE]
Flushed(i) ==
    [ts |-> outbox[i].ts, seq |-> seq + i, type |-> outbox[i].type, nth |-> outbox[i].nth,
     hops |-> cur.hops + 1, stale |-> FALSE]

HeapWithOutbox_Replaced == {Flushed(i) : i \in DOMAIN outbox}
HeapWithOutbox == heap \cup {Flushed(i) : i \in DOMAIN outbox}

\* No handler is left: every message of the outbox gets its seq and is scheduled.
FlushOutbox ==
    /\ phase = "handle"
    /\ \A i \in DOMAIN handlers : ~NextHandler(i)
    /\ heap' = HeapWithOutbox
    /\ seq' = seq + Len(outbox)
    /\ outbox' = <<>>
    /\ phase' = "pop"
    /\ prev' = cur /\ cur' = NoEvent
    /\ UNCHANGED <<panic, clock, registry, cache, inbound_log, idx, guard, calls>>

-----------------------------------------------------------------------------
\* The wall clock behind LiveClock moves by itself; it may be set back.
WallTick ==
    /\ Live /\ phase # "panicked"
    /\ clock' \in Times \ {clock}
    /\ UNCHANGED <<owner, heap, seq, registry, cache, inbound_log, cur, idx, outbox, guard,
                   prev, calls>>

\* A panic is final.
Stopped == phase = "panicked" /\ UNCHANGED vars

Register == (\E entry \in HandlerEntries : On(entry)) \/ (\E t \in Types : Reduce(t))
Ingest   == \E ts \in Times, t \in Types : PushEvent(ts, t)
Handler  == \E t \in Types : Send(t) \/ \E ts \in Times : SendAt(ts, t)

\* The steps run() takes by itself once it was called.
Engine ==
    \/ PopEvent
    \/ ReturnFromRun
    \/ ApplyReducer
    \/ ReducersDone
    \/ InvokeHandler
    \/ FlushOutbox

Next ==
    \/ Register
    \/ Ingest
    \/ RejectGraph
    \/ StartRun
    \/ Engine
    \/ Handler
    \/ WallTick
    \/ Stopped

Spec == Init /\ [][Next]_vars

\* run() is a loop on a running thread and the closures return.
FairSpec == Spec /\ WF_vars(Engine)

-----------------------------------------------------------------------------
(***************************************************************************)
(* Safety.                                                                 *)
(***************************************************************************)
Scheduled == heap \cup ({cur} \ {NoEvent})

\* The order events should be dispatched in, told without their seq.
Before(e, f) == e.ts < f.ts \/ (e.ts = f.ts /\ e.nth < f.nth)

\* Which event is popped never depends on how BinaryHeap breaks ties: at most
\* one pending event is next (Ord for Event, the seq given by push_event and by
\* the flush in Kernel::run).
NextEventUnique == \A e, f \in heap : IsNext(e) /\ IsNext(f) => e = f

\* The past-event assertion of Kernel::run is only ever raised by an event that
\* was already in the past when push_event took it, never by what handlers sent
\* nor by an event that was pushed in time.
PastPanicOnlyFromStalePush == panic = "PastEvent" => cur.stale

\* Two events dispatched one after the other in one run of Kernel::run are in
\* order of time, and those of one instant in the order in which the calls that
\* created them were made: the cascade of an instant is breadth first.
DispatchOrder == prev # NoEvent /\ cur # NoEvent => Before(prev, cur)

\* Handlers run on a cache that every reducer of their message has already
\* updated for this very event, and that holds nothing newer than it
\* (ReducerRegistry::reduce before HandlerRegistry::dispatch).
ReducedView ==
    phase = "handle" =>
        \A t \in Types : \A i \in 1 .. reducers[t] :
            IF t = cur.type THEN cache[t][i] = seq ELSE cache[t][i] < seq

\* What a handler sent always has a consumer when it is dispatched, although
\* closures may be registered between two runs (validate_consumers with
\* Context::check_produces).
ProductionConsumed ==
    \A e \in Scheduled : e.hops > 0 => e.type \in Consumed(handlers, reducers)

\* A chain of sends is shorter than the number of message types, whatever the
\* handlers do (validate_no_cycles with Context::check_produces).
HopBound == \A e \in Scheduled : e.hops < Cardinality(Types)

\* The simulated clock never goes back, although SimClock::set would let it.
ClockMonotone == [][clock' >= clock]_vars

(***************************************************************************)
(* Liveness.                                                               *)
(***************************************************************************)

\* run() returns or panics: cascades die out (validate_no_cycles).
RunTerminates == phase = "pop" ~> phase \in {"idle", "panicked"}

\* Whatever is scheduled while run() is in its loop is dispatched before it
\* returns: no event is overtaken for ever, none is lost at a flush.
ScheduledIsDispatched ==
    \A n \in 1 .. MaxSeq :
        phase = "pop" /\ (\E e \in heap : e.nth = n)
            ~> (prev # NoEvent /\ prev.nth = n) \/ phase = "panicked"

(***************************************************************************)
(* The inductive strengthenings of the safety properties.                  *)
(***************************************************************************)
InRun == phase \in {"pop", "reduce", "handle"}

\* The seq numbers are unique and grow with the calls that created the events;
\* the outbox holds the last calls, in order.
SeqInv ==
    /\ \A e \in Scheduled : e.seq <= seq /\ e.nth + Len(outbox) <= calls
    /\ \A e, f \in Scheduled : e.seq < f.seq <=> e.nth < f.nth
    /\ \A e, f \in Scheduled : e.seq = f.seq => e = f
    /\ \A i \in DOMAIN outbox : outbox[i].nth = calls - Len(outbox) + i

\* Only stale pushes are behind the simulated clock.
TimeInv ==
    /\ phase # "panicked" => \A e \in heap : ~e.stale => e.ts >= clock
    /\ phase \in {"reduce", "handle"} => cur.ts = clock
    /\ phase = "handle" => \A i \in DOMAIN outbox : outbox[i].ts >= clock
    /\ PastPanicOnlyFromStalePush

\* What is dispatched was due before everything that waits.
HeadInv == phase \in {"reduce", "handle"} => \A e \in heap : Before(cur, e)

\* What is scheduled during a run comes after what the run dispatched.
OrderInv ==
    /\ HeadInv
    /\ InRun /\ prev # NoEvent => \A e \in Scheduled : Before(prev, e)
    /\ DispatchOrder

\* Every send follows an edge of the validated graph, so whatever ranks the
\* types downwards bounds the hops an event still has before it.
GraphInv ==
    /\ phase = "idle" => \A e \in heap : e.hops = 0
    /\ InRun =>
         /\ NoOrphans /\ NoCycles
         /\ \A rank \in Ranks(Types) : Descends(rank, Edges(handlers)) =>
              \A e \in Scheduled : rank[e.type] + e.hops <= Cardinality(Types) - 1
    /\ phase = "handle" =>
         /\ idx > 0 => Matches(idx)
         /\ \A i \in DOMAIN outbox : <<cur.type, outbox[i].type>> \in Edges(handlers)
    /\ HopBound /\ ProductionConsumed

\* The cache holds nothing newer than seq, and during a dispatch exactly the
\* cells of the reducers that already ran hold seq.
CacheInv ==
    /\ \A t \in Types : \A i \in 1 .. MaxReducers : cache[t][i] <= seq
    /\ phase \in {"reduce", "handle"} =>
         \A t \in Types : \A i \in 1 .. MaxReducers :
            cache[t][i] = seq <=>
                t = cur.type /\ i <= (IF phase = "reduce" THEN idx ELSE reducers[t])

(***************************************************************************)
(* The kernel implements the abstract event loop.  A dispatch is one step  *)
(* of it: the event stays pending until the outbox is flushed, and what    *)
(* its handlers sent is not issued before that.                            *)
(***************************************************************************)
AsPending(e) == [ts |-> e.ts, type |-> e.type, nth |-> e.nth]

Loop == INSTANCE EventLoop WITH
    MaxOut  <- MaxOutbox,
    Steady  <- ~Live,
    pending <- {AsPending(e) : e \in Scheduled},
    issued  <- calls - Len(outbox)

\* Every behaviour of the kernel is one of the event loop.
ImplementsEventLoop == Loop!Spec
=============================================================================

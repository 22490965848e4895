# TLA+ verification of the kavod kernel

kavod (`src/`) is a single-threaded event kernel for trading systems: typed messages are
scheduled at instants, reducers update a shared cache, handlers decide and send further
messages. This directory holds TLA+ models of it, TLC configurations that check them on
small instances, and TLAPS proofs for every size. Paths below are relative to the
repository; `kernel.rs` means `src/kernel.rs`.

## Inventory

| Component | State | Operations | Modules |
|---|---|---|---|
| Kernel (`kernel.rs`) | scheduler, cache, clock, `seq`, inbound log, registries; in `run`: event, outbox, per-instant counter | `on`, `state`, `reduce`, `push_event`, `run` | `Kernel`, `Replay` |
| Scheduler (`schedule.rs`) | `BinaryHeap<Event>` by (ts, seq) | `push`, `push_boxed`, `pop` | `Kernel` |
| Sequence number (`log.rs`) | a `u64` | `next` | `Kernel` |
| Inbound log (`log.rs`) | entries | `append`, `iter` (nobody calls them) | `Kernel` |
| Context (`context.rs`) | borrows cache, clock, seq, outbox, declared productions | `now`, `seq`, `get`, `send`, `send_at` | `Kernel` |
| Handler registry (`handler.rs`) | groups of entries, the state of stateful groups | `on`, `state`, `dispatch`, the views for validation | `HandlerRegistry`, `FlatRegistry`; as a flat list in `Kernel`, `MessageGraph` |
| Reducer registry (`reducer.rs`) | closures per type | `register`, `reduce` | `Kernel`, `MessageGraph` |
| Graph validation (`graph.rs`) | `visited`, `on_path`, `path` | `validate` | `MessageGraph`, `CycleCheck` |
| Cache (`cache.rs`) | `HashMap<(TypeId, u64), Box<dyn Any>>` | `insert`, `get*`, `remove`, `len` | `Cache` |
| Clocks (`clock/`) | `SimClock`: an instant; `LiveClock`: the OS | `now`, `set`, `tick`, `advance` | `Clocks`; as `run` uses them in `Kernel` |
| Time (`time/`) | none | checked arithmetic, conversions to and from `SystemTime` and seconds | `Time` |
| Decimal (`decimal.rs`) | none | construction, `normalized`, `add`, `sub`, `mul`, `div`, order, equality, hash, `from_str`, `Display` | `Decimal`, `DecimalText` |
| Price, Quantity (`price.rs`, `quantity.rs`) | none | the decimal's operations; a quantity refuses negative results | `Amounts` |

How they interact: the owner registers closures, pushes events and calls `run`. `run`
validates the message graph, then pops one event at a time, checks and sets the clock,
draws a seq, counts the event against the bound per instant, applies the reducers of its
type to the cache, calls the handlers of its type with a context that borrows cache, clock,
seq and outbox, and schedules the outbox. It returns when the heap is empty. Closures
call back into the kernel only through their context.

There are no threads, locks or persistence. What is hard:

- *order*: events of one instant, handlers' messages among queued events, several runs;
- *feedback*: handlers refill the heap the loop must empty;
- *time*: two clocks behind one trait, one of which ignores `set` and moves by itself;
- *assertions*: six ways in which a run may stop, in a given order;
- *dynamic checks for static promises*: validation at the start of a run covers all sends of it;
- *hashing*: the iteration order of sets in the search, and the cache keyed by hashes;
- *sharing*: the state of a group lent to one handler after the other, and groups that
  stateless registrations join or not;
- *edges of numbers*: a `u128` of nanoseconds against an `i128` instant, a product or quotient
  that no longer fits, two scales whose common one does not fit, a `u64` on the way to
  `SystemTime`.

What makes the components correct: one next event; an order of dispatch that depends on
the calls only; a monotone clock; an outbox that takes effect at once; every send declared,
validated and consumed; finite cascades; handlers after reducers; a search that accepts
exactly the acyclic graphs; a cache that keeps keys apart; groups that behave as one list
and keep their state to themselves; time that is neither lost nor invented; amounts that
are the exact ones, cut off where the scale ends and never wrapped. `PROJECT.json` lists the hazards
line by line with the properties aimed at them.

## Modules

**`MessageGraph`** - the graph of declared productions and the views both registries give
of it. `Acyclic` is stated by rankings: finite graphs without a cycle are those whose nodes
can be numbered so that every edge goes down.

**`Kernel`** - the core. `phase` says where the one thread of control is:

| phase | the code is | actions |
|---|---|---|
| `idle` | outside `run` | `On`, `Reduce`, `PushEvent`, `StartRun`, `RejectGraph` |
| `pop` | at `while let Some(event)` | `PopEvent` (with the two assertions of the loop), `ReturnFromRun` |
| `reduce` | in `ReducerRegistry::reduce` | `ApplyReducer`, `ReducersDone` |
| `handle` | in `HandlerRegistry::dispatch` | `InvokeHandler`, `Send`, `SendAt`, `FlushOutbox` |
| `panicked` | unwinding | `Stopped` |

`WallTick` moves the wall clock under `Live = TRUE` between any two steps, also backwards.
Everything the code asserts is a panic with its own reason. `PopEvent` is one step from the
pop to the last assertion before the reducers: no closure runs in between. Handlers are the
environment: while one runs it may send any type at any instant any number of times up to
`MaxOutbox`. The owner may push any event between two runs, also for the past.

The group structure of the handler registry is flattened. `dispatch` goes through the
groups in registration order and through each group in registration order, and a handle
appends to the last group and borrows the registry while it lives, so the flat list in
order of registration is what `dispatch` walks: `HandlerRegistry` is about just that.

Reducers are reduced to what `ReducedView` needs: each keeps the seq the kernel had
when it was last applied. Events carry three history fields that no guard reads: `nth` (the
call that made them), `hops` (how many handlers since the push) and `stale` (pushed for the
past).

**`EventLoop`** - the abstract promise: a bag of pending messages, of which the earliest
is processed, one at a time, each replaced in one step by what its handlers sent. `Kernel`
implements it under `pending <- heap and the event in hand`, `issued <- calls whose message
has left the outbox`: pop, reducers, handlers and sends are stutters, the flush is
`Process`. It has no heap, seq, clock or phase, so it says in one formula that ordering,
atomicity of the outbox and absence of loss and duplication hold together. `Kernel` implements
it with either clock. `Steady` says that the clock shows the instant of the message at hand: then,
and only then, nothing is sent for before that message. `LiveClock` may be set back while a
handler runs, so it gets the loop without this promise.

**`Replay`** - two kernels that are told the same, as the design documents would run one setup
twice and compare (`design_docs/design-v2.md:20`, `log.rs:46`). The second is `Kernel` again, over
variables of its own. What comes from outside is chosen once for both: the registrations,
the pushes, the calls of `run`, and what closures send. What `run` does by itself each kernel
chooses alone: the event popped, what becomes of it, the handler that is next, the flush. The
clocks show the same when the kernels are built, and only events move them: this is a
backtest that is run again, or a replay under `SimClock` of what was recorded.

**`CycleCheck`** - `validate_no_cycles` and `dfs_cycle`, one step per neighbour, on any graph.
The recursion is the pair of stacks `path` and `todo`. Roots and neighbours are taken in
any order. `Kernel` uses `Acyclic` as the guard of `StartRun`; this module is why it may.

**`Cache`** and **`KeyedStore`** - the cache with an arbitrary hash function, and the typed,
keyed storage its documentation describes. `StableKeys` says whether callers of
`get_keyed_mut` leave keys alone, as `design_docs/design-v3.md` (9.7, Key Stability) asks of
them; nothing in the code enforces it, and the document leaves open what should. The cache
implements the store when keys neither collide (`NoCollision`) nor change. What it promises
without either is stated too: `renamed` is history, the types and keys that values were given in
place, and `ReplyIsOfKey`, `IndexedByKey` and `KeysIndependent` say that only a collision or a
key in `renamed` makes a value turn up under a key that is not its own.

**`HandlerRegistry`** and **`FlatRegistry`** - the groups of `handler.rs`, and the flat list
they are meant to be. Registration is bounded by two `&mut` borrows, which the model keeps:
`handle` (the `StateGroupHandle` of the last group lives) and `chain` (the entry registered
last may still declare). Using an outer borrow ends the inner ones, as the borrow checker
has it. `Invoke` calls one handler, which may write its group's state; the value is named
by the number of the call that wrote it, so that a lost or a leaked write shows. `Entries`,
`SubscribedTypes`, `ProducedTypes` and `EdgeList` are the views that `graph::validate` reads.
The flat list forgets groups, places and state; the registry implements it under
`list <- the entries, by the number of their registration`. That a dispatch walks the groups in
just this order is what the refinement then has to show.

**`Time`** and **`Clocks`** - the checked operations on instants (`i128` in the code, `IMax`
here) and durations (`u128`, twice as wide), and `SimClock` over them. A `SystemTime` is the
platform's: signed seconds and nanoseconds that always count upwards; it is external, with
its own limit `SecMax`. `start` and `elapsed` are history: where the clock was set to and by
how much it was advanced since.

**`Decimal`**, **`DecimalText`**, **`Amounts`** - fixed point numbers over a machine integer
(`UMax`, 2^128 - 1 in the code) with at most `MaxScale` places (38 in the code). `Pow10` is a
constant: the function its assumption describes. `Decimal` has the arithmetic, order and
hash; `DecimalText` the parser, character by character, and the printer; `Amounts` a price
or a quantity and the owner who calls its operations, divides it one digit per step and reads
a text one character per step. A failed call leaves the owner with what it had.

**`DecimalBench`, `DecimalTests`, `AmountTests`, `TimeTests`, `UnitTests`** - the unit tests of
these value types as tables, one row per assertion, run on the models. They tie the models to
the code from the other side: where a model was read wrongly, a test of the code fails on
it. A decimal is written as its text, which determines inner, scale and sign. Numbers of
TLC have 31 bits, so `u128::MAX` has 9 digits there and literals that are longer are shortened
so that they stand where they stood: at the limit, just beyond it, or at `MAX_SCALE`; a
second has 8 nanoseconds, with the same ratios above it. Tests that only look at `Debug`,
`Display` of an instant, or at the system clock of the day are left out.

**`MCKernel`, `MCReplay`, `MCCycleCheck`, `MCCache`, `MCRegistry`, `MCDecimal`** - instances for TLC, and the
claims of documents that the code does not keep. **`KernelProofs`, `CycleCheckProofs`,
`CacheProofs`, `RegistryProofs`, `ClocksProofs`, `DecimalProofs`, `AmountProofs`** - the theorems;
**`NaturalFacts`** - the least element of a set of numbers, which they use instead of induction.

An operator named `X_Y` stands before `X` and says how `X` might be wrong (`Precedes_LastIn`
breaks ties the other way round). No action uses it; with it in the place of `X`, TLC must
find the property violated that `PROJECT.json` pairs it with.

## Runs

| Run | Instance | Shows |
|---|---|---|
| `kernel_sim` | 2 types, 2 instants, all 8 handler entries, 2 handlers, 2 reducers per type, 2 sends per dispatch, pushes up to seq 3, bound of 3 per instant; two kernels told the same | typing; `ReplayAgrees`, `PastPanicOnlyFromStalePush`, `ReducedView`, `ProductionConsumed`, `ClockMonotone`, `ImplementsEventLoop` |
| `kernel_chain` | 3 types in a cascade tick, order, fill with a closing edge, 3 handlers, 2 sends per dispatch | `DispatchOrder`, `HopBound` with chains of length three and batches of two |
| `kernel_live` | 3 types, fan-out and fan-in, 2 handlers, 1 reducer per type, pushes up to seq 2, a wall clock, fairness | `RunTerminates`, `ScheduledIsDispatched` |
| `cycle_check` | all graphs of 4 nodes with up to 5 edges, in every order of roots and neighbours, fairness | `AcceptedIsAcyclic`, `RejectedIsCyclic`, `ReportsACycle`, `NothingLeftBehind`, `SearchEnds` |
| `cache` | 2 types, 2 keys, 3 hashes, 2 values, no collision, keys not changed in place | `ImplementsKeyedStore` |
| `cache_any_use` | 2 types, 3 keys of which 2 collide, 3 hashes, keys changed in place | `ReplyIsOfKey`, `IndexedByKey`, `KeysIndependent` |
| `registry` | 2 types, 3 entries in up to 3 groups, 2 declarations, 2 dispatches, 1 send each | `WalkIsRegistrationOrder`, `SeesOwnGroupsState`, `SendsAreInViews`, `ImplementsFlatRegistry` |
| `clocks` | instants -32..31, durations 0..63, 4 nanoseconds per second, `u64` of 17, seconds up to 6 | `NoDrift`, `OnlySetGoesBack`, `TimersAreAhead`, `WaitsAddUp`, `ConversionsAreFaithful` |
| `decimal` | numbers up to 127, 2 places, operands 0, 1, 3, 10, 13, 127 at every scale and sign, texts of 5 characters | `QuantityNeverNegative`, `SumsAreExact`, `ProductsTruncate`, `QuotientsTruncate`, `ComparesAsNumbers`, `RoundTrip`, `ReadsFaithfully` |
| `unit_tests` | 9 digits, 8 places; 531 rows, each an assertion of the code's tests | `Passes` |

Bounds. `MaxHandlers`, `MaxReducers`, `MaxOutbox` and `MaxSeq` (no push at or past it) bound
what the owner and the handlers do; the code bounds none of them. `MaxIterations` is the
code's own bound, 10 000 there and 3 to 9 here. Two instants give a present, a past and a
future; with two types the graph has self-loops, two-cycles, orphans and consumed
productions; three types give chains, diamonds need the four nodes of `cycle_check`.
`MaxIterations = 3` lets `kernel_sim` reach the panic; 9 in `kernel_live` is beyond what
two pushes can cause, so the runs end because cascades end and not because of the bound.
`kernel_live` has a wall clock that may move, or stand still, between any two steps, so its
behaviours include those of a clock that only `set` moves, as far as ending and dispatching
are concerned.

Three handlers in three groups make every pattern of stateless, stateful, stateless; two
dispatches let state survive one of them. In `clocks` every width is small enough that sums
leave it on both sides, and `u64` and `SystemTime` end inside the range of an instant, as they
do in the code. In `decimal` 127 holds two digits and a part of a third: products of two
scales pass `MaxScale`, quotients run out of digits, and two numbers of different scale may
fit crosswise once, never or both times.
The proofs remove all of these bounds except that they are natural numbers.

Symmetry is used where all types are interchangeable and no liveness is checked.

Fairness: `FairSpec` is weak fairness of `Engine`, the steps `run` takes by itself: a loop
on a running thread. `Send` and `SendAt` are not fair, a handler need not send. That a
closure returns is assumed: `InvokeHandler` and `FlushOutbox` belong to `Engine`. The owner
is not fair: it need never call `run`. For `CycleCheck` it is weak fairness of the search.

### Claims the code does not keep

Each of these runs checks one sentence of a document or comment, and TLC finds it violated.

- `claim_live_past` (`kernel.rs:71`): the loop asserts `event.ts >= clock.now()` and relies
  on `clock.set`, which `LiveClock` leaves empty. An event pushed for the present is past by
  the time it is popped, and the run panics. The assertion is called a causality check in
  `design_docs/design-v2.md:255`. Without a wall clock the same property is a theorem.
- `claim_cache_collision` (`cache.rs:33`): keys with one hash share a slot.

A value whose key is changed through `get_keyed_mut` (`cache.rs:49`) stays under its old hash, and
an insert of the new key puts a second one beside it. That is no such claim: `design_docs/design-v3.md`
(9.7) forbids the change. `cache_any_use` shows how far its effects go.

Two more things a reader of the documents may expect and not find: an event *pushed* with a
type nobody subscribes to is dropped silently (`kernel.rs:94`; what *handlers* send always has
a consumer, `ProductionConsumed`), and nothing is appended to the inbound log (`log.rs:46`), so
there is no replay from a log yet. `ReplayAgrees` says that the calls, had they been kept,
would be enough. `Decimal::div` announces at `decimal.rs:228` that it stops adding
digits when they no longer fit, and returns `Overflow` instead; its tests expect the error,
and the model has it.

## Theorems

All are proved by TLAPS without assumptions other than those the modules state about their
constants, plus the hypotheses given here.

`KernelProofs`. `Typing` is the ordinary type invariant. The safety properties are not
inductive; each group has its own strengthening, proved on top of the ones before it:

- `SeqInv`: of any two scheduled events, the one with the smaller seq was made by the
  earlier call, seqs are unique, and the outbox holds exactly the last calls in order. It
  is needed because uniqueness alone says nothing of the next number drawn. It gives
  `PopIsDeterministic`, at most one event is first, for both clocks. `PopFindsOne` adds that
  while the heap holds anything there is one: the event with the fewest before it
  has none before it. `run` therefore always has exactly one event to take.
- `ReplayNeverDiverges` (`ReplayAgrees`): equality of all variables of both kernels is inductive
  given `PopIsDeterministic`. Where the state leaves the engine a choice, in the pop and in the
  walk through the handlers, there is only one (`EngineIsAFunction`). It assumes what `Replay`
  says of the outside, and nothing of what the handlers are or do.
- `HeadInv`: what is dispatched comes before everything that waits (`EarliestFirst`), for both
  clocks. A wall clock may trip the assertion of the loop, but does not reorder the heap.
- `TimeInv` (simulated clock): what is not stale is not before the clock. A pop moves
  the clock to the least instant of the heap, and sends are checked against the clock. It
  gives `PastPanics`. `ClockNeverGoesBack` needs only typing and the assertion.
- `OrderInv` (simulated clock): `HeadInv`, and everything scheduled comes after the event
  dispatched before. It uses `SeqInv` and `TimeInv`, and gives `RunsInOrder` (`DispatchOrder`).
- `GraphInv`: during a run, for every ranking that descends the graph, rank plus hops of a
  scheduled event stays below the number of types. A send follows an edge, so the rank
  falls by at least what the hops rise. It is quantified over all rankings since the code
  fixes none; validation provides one. It gives `CascadesAreBounded` (`HopBound`) and
  `ProductionsAreConsumed`.
- `CacheInv`: during a dispatch exactly the cells of the reducers that already ran hold
  the current seq. It gives `HandlersSeeReducedCache` (`ReducedView`).
- `KernelIsEventLoop`: the refinement, for either clock, from `SeqInv` and `HeadInv`. Only that
  nothing is sent for before the message at hand needs `TimeInv`, and holds for the simulated
  clock only; TLC finds a counterexample when `Steady` is asked of the other.
- `EveryStepOfARunCounts`: the safety half of `RunTerminates`, for either clock. Count the
  scheduled events by their hops, `Waiting(0)`, `Waiting(1)` and so on below the number of types
  (`GraphInv`), then `StepsLeft` of the dispatch at hand. In that order every step of `run()` makes
  this list of numbers smaller: a flush takes the event at hand away and adds events only with one
  hop more, any other step leaves the events and is further on in the dispatch. Sends and
  ticks of the clock leave the list as it is. `HeapInv` is needed to count at all. Neither
  the bound per instant nor the clock plays a part, and neither does the model's `MaxOutbox`.
- `NothingIsLost`: the safety half of `ScheduledIsDispatched`, for either clock. An event
  leaves the schedule only at the flush that ends its dispatch.

`CycleCheckProofs`. `IInv` says that the path is the recursion stack, that every finished
node ranks above all its successors, and that every ranking of the graph would have to
descend along the path. The finishing numbers are the ranking that proves `AcceptanceIsSound`;
the descent contradicts a back edge, which proves `RejectionIsSound`. `WalkInv` says that the path
is a walk in the graph, so that the part of it that is reported is a cycle (`ReportIsACycle`).
`RootsStartClean` (`NothingLeftBehind`) is `PathInv` and `RankInv` on an empty path: every visited node
is then finished, and so are its successors. `SearchDecidesClosedWalks` says what the verdict means without
rankings: when the search accepts, the finishing numbers are a ranking, and on a closed walk of
any length the node of least rank would have a successor of lower rank; when it rejects, what it
reports is a closed walk.
`EveryStepCounts` is the safety half of `SearchEnds`: `Left`, the roots to take, the nodes to finish,
the edges to look at and the answer to give, falls with every step of the search. That the search can
always take a step is checked with the deadlocks, that it takes it is its fairness.

`CacheProofs`. `ValuesStayIndexed`, `RepliesAreOfTheirKey` and `KeysStayIndependent` hold for every hash
function and every use of `get_keyed_mut`; the first is what the second needs to be inductive. Only
the refinement `CacheIsKeyedStore` assumes `NoCollision` and `StableKeys`: `renamed` is then empty
(`NothingRenamed`), and the count of the store equals the length of the map because slot and
pair are in bijection.

`RegistryProofs`. `Inv` adds four facts to the properties: borrows end when a dispatch begins;
no entry has a number above the count; the state of a group names the last call that wrote it
(`SeesOwnGroupsState` speaks of the moment of a call only, and the next call reads what is
there now); and each message of the outbox was declared by a handler *of the type at hand*,
which survives although the handler that runs changes. `GroupsKeepOrder` rests on
`GrownInLast` and `GrownByGroup`: an entry is only ever added at the end of the last group,
by itself or with a new one. The refinement `RegistryIsFlatList` needs `NumberInv` besides: the
numbers of the entries are 1 to the count, each at one place, in the order of the walk; so the
entry that a dispatch meets next is the next one of the list that takes the message.

`ClocksProofs`. `ClockInv`, the types together with the sum of what was waited for, is inductive
and gives `ClockTyping` and `ClockShowsElapsed`. The other
invariants are facts about the operations for every instant: `AddAndSubAreInverse`,
`StepsAddUp`; `NoTimeLost` puts together the three conversions `SystemTimesRoundTrip`,
`InstantsKeepOrder` and `SecondsSurvive`, which rest on the lemma that splitting into seconds and
nanoseconds and joining again is the identity, before the epoch too. `NeverBackBySteps` is the
action property.

`DecimalProofs`. For every width and every largest scale: `AmountTyping` (nothing wraps, zero
has no sign) and `QuantitiesStayPositive` over every sequence of operations;
`AdditionIsExact`, `MultiplicationTruncates`, `DivisionTruncates` against integers in units of the
last place. Multiplication needs that stripping zeros and then cutting digits is one cut
(`StripThenFit`); division needs the loop invariant `quot * divisor + rem = dividend * 10^digits`
with `rem < divisor` (`LoopInvariant`, part of the inductive invariant because a step of the
model is one digit), and that two cuts in a row are one (`CutTwice`).

`AmountProofs`. Texts and comparisons, over the same inductive invariant.
`AmountsCompareAsNumbers` rests on `CrossScaled`, two numbers compare as the products of each with the
power of ten of the other's scale, or of the difference of the scales, which are smaller; on that
both ways of `CmpMagnitude` therefore agree with the numbers (`CmpMagnitudeIs`), also where one product does
not fit or neither does. Equality and hashing compare stripped forms, so they need that
a number has one of them only (`OneForm`). The digits of a number are its remainders after cutting
it (`Prefix`, `NumeralIs`), and `DisplayIs` gives the text digit by digit. `ReadingIsFaithful` rests on
`Follows`, an invariant of reading one character per step: what has been typed is the number read so
far, digit for digit, with as many places as the scale says, and has at most one digit more than
`MaxScale`. `TextsRoundTrip` goes the other way: `from_str` is a loop over a whole text there, a fold
in the model. `LoopIs` unfolds it to the reader after each character, and `BeforePoint` and
`BehindPoint` say what that reader has seen of a printed amount.

Where a textbook would use induction - over the walks of a graph, the characters of a text, the
places of a fold - these proofs take the least number for which a claim fails (`LeastNumber`).

Model-checked only: the liveness properties (`RunTerminates`, `ScheduledIsDispatched`,
`SearchEnds`) beyond the halves above, since the prover cannot reason about fairness and
enabledness, and `Passes`, which is about given numbers.

## Limits of the models

- A panic ends the behaviour. The repository never catches one.
- `SeqNo` does not overflow: at one number per nanosecond a `u64` lasts five centuries.
- Closures return and do not panic by themselves; what they compute is arbitrary.
- The value a state group owns, and `Context::get` as a read, are not in `Kernel`: a closure
  that may send anything already does what any state could make it do.
- Message payloads are their type; the cache in `Kernel` is the trace of its reducers, the
  cache proper is `Cache`.
- The check for actor routes in `graph::validate` has an empty set of routes, as in the code.
- Under `LiveClock` the `now()` of a handler is the wall clock and may differ between two calls
  (`WallTick` interleaves with sends); that it is the event's instant with `SimClock` is part of
  `TimeInv`.
- `Context::new`, which checks no declaration, `InboundLog::append` and `iter` have no caller
  outside tests and are not modelled; `EngineEvent` and the trait `Message` hold no behaviour.
- `Display` of instants and durations, and the accessors that only read, are left out.
- The operations on decimals take an owner's amounts one at a time; there is nothing
  concurrent in the code.

## Plan

When the code appends to `InboundLog`: the second kernel of `Replay` reads its calls from the
log of the first, also after a crash of the first between two of them, and with `LiveClock` in
the first and `SimClock` in the second.

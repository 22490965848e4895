----------------------------- MODULE EventLoop ------------------------------
(***************************************************************************)
(* What the kernel promises to the code around it, with no heap, clock,    *)
(* sequence numbers or phases: a bag of pending messages out of which one  *)
(* is processed at a time.                                                 *)
(*                                                                         *)
(*  - a message is earliest when no pending one is due before it, ties     *)
(*    being broken by the order in which the push and send calls were made;*)
(*  - processing a message takes it out and adds, in one step, everything  *)
(*    its handlers sent, none of it due before the message itself if the   *)
(*    clock stands still meanwhile;                                        *)
(*  - nothing else adds, removes, duplicates or reorders a message.        *)
(***************************************************************************)
EXTENDS Integers

CONSTANTS
    Types,      \* message types
    Times,      \* instants
    MaxOut,     \* most messages the handlers of one event send
    Steady      \* the clock shows the instant of the message that is processed

VARIABLES
    pending,    \* messages accepted and not yet processed
    issued      \* number of messages accepted so far

vars == <<pending, issued>>

Message == [ts : Times, type : Types]
Pending == [ts : Times, type : Types, nth : Nat]

Due(m, n) == [ts |-> m.ts, type |-> m.type, nth |-> n]

Earliest(e) ==
    \A f \in pending : e.ts < f.ts \/ (e.ts = f.ts /\ e.nth <= f.nth)

Init == pending = {} /\ issued = 0

\* Code outside the loop hands a message over.
Ingest(m) ==
    /\ pending' = pending \cup {Due(m, issued + 1)}
    /\ issued' = issued + 1

\* The earliest message is processed; out is what its handlers sent, in order.
Process(e) ==
    /\ Earliest(e)
    /\ \E n \in 0 .. MaxOut :
         /\ issued' = issued + n
         /\ \E out \in [1 .. n -> Message] :
              /\ Steady => \A i \in 1 .. n : out[i].ts >= e.ts
              /\ pending' = (pending \ {e}) \cup {Due(out[i], issued + i) : i \in 1 .. n}

Next ==
    \/ \E m \in Message : Ingest(m)
    \/ \E e \in pending : Process(e)

Spec == Init /\ [][Next]_vars
=============================================================================

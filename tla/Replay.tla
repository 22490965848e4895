------------------------------- MODULE Replay -------------------------------
(***************************************************************************)
(* Two kernels that are told the same: the same registrations and pushes,  *)
(* and closures that send the same when they are called.  A backtest that  *)
(* is run again, or a recorded run that is replayed, is such a pair.       *)
(*                                                                         *)
(* What happens outside is chosen once, for both.  What run() does by      *)
(* itself each kernel chooses alone: which event is popped, what it does   *)
(* with it, which handler is next, how the outbox is flushed.  The clocks  *)
(* show the same when they are built and move with the events only.        *)
(***************************************************************************)
EXTENDS Kernel

VARIABLES
    phase2, panic2, heap2, clock2, seq2, handlers2, reducers2, cache2, inbound_log2, cur2,
    idx2, outbox2, instant2, iters2, prev2, calls2

vars2 == <<phase2, panic2, heap2, clock2, seq2, handlers2, reducers2, cache2, inbound_log2,
           cur2, idx2, outbox2, instant2, iters2, prev2, calls2>>

Twin == INSTANCE Kernel WITH
    phase <- phase2, panic <- panic2, heap <- heap2, clock <- clock2, seq <- seq2,
    handlers <- handlers2, reducers <- reducers2, cache <- cache2,
    inbound_log <- inbound_log2, cur <- cur2, idx <- idx2, outbox <- outbox2,
    instant <- instant2, iters <- iters2, prev <- prev2, calls <- calls2

ReplayInit == Init /\ Twin!Init /\ clock2 = clock

\* The owner and the closures do the same to both.
SameCall ==
    \/ \E entry \in HandlerEntries : On(entry) /\ Twin!On(entry)
    \/ \E t \in Types : Reduce(t) /\ Twin!Reduce(t)
    \/ \E ts \in Times, t \in Types : PushEvent(ts, t) /\ Twin!PushEvent(ts, t)
    \/ \E t \in Types : Send(t) /\ Twin!Send(t)
    \/ \E ts \in Times, t \in Types : SendAt(ts, t) /\ Twin!SendAt(ts, t)

\* run() is called on both, and each goes its own way.
RunBoth ==
    \/ RejectGraph /\ Twin!RejectGraph
    \/ StartRun /\ Twin!StartRun
    \/ Engine /\ Twin!Engine

StoppedBoth == Stopped /\ Twin!Stopped

ReplayNext == SameCall \/ RunBoth \/ StoppedBoth

ReplaySpec == ReplayInit /\ [][ReplayNext]_<<vars, vars2>>

-----------------------------------------------------------------------------
\* A replay never diverges: whatever was called, both kernels have dispatched the
\* same events in the same order and are in the same state, down to the seq numbers
\* and the assertion that failed.
ReplayAgrees ==
    /\ <<phase2, panic2, heap2, clock2, seq2>> = <<phase, panic, heap, clock, seq>>
    /\ <<handlers2, reducers2, cache2, inbound_log2>> = <<handlers, reducers, cache, inbound_log>>
    /\ <<cur2, idx2, outbox2, instant2, iters2>> = <<cur, idx, outbox, instant, iters>>
    /\ <<prev2, calls2>> = <<prev, calls>>
=============================================================================

------------------------------- MODULE Clocks -------------------------------
(***************************************************************************)
(* SimClock, the clock of simulations, over the checked arithmetic of      *)
(* module Time: the kernel sets it, its owner may tick and advance it.     *)
(*                                                                         *)
(* An operator named X_Y stands before X and says how X might be wrong; no *)
(* action uses it.                                                         *)
(***************************************************************************)
EXTENDS Time

VARIABLES
    now,        \* the instant the clock shows
    refused,    \* whether the last call returned an error
    start,      \* history: the instant it was created with or last set to
    elapsed     \* history: the durations it was advanced by since, added up

vars == <<now, refused, start, elapsed>>

\* SimClock::new
Init ==
    /\ now \in Timestamp
    /\ refused = FALSE
    /\ start = now /\ elapsed = 0

\* Clock::set: any instant, an earlier one too.
Set(ts) ==
    /\ now' = ts
    /\ refused' = FALSE
    /\ start' = ts /\ elapsed' = 0

\* What `?` makes of the sum: an error leaves the function before the assignment.
Moved_Unchecked(d) == now + d
Moved(d) == IF TsAdd(now, d).ok THEN TsAdd(now, d).value ELSE now

\* SimClock::advance
Advance(d) ==
    /\ now' = Moved(d)
    /\ refused' = ~TsAdd(now, d).ok
    /\ elapsed' = IF TsAdd(now, d).ok THEN elapsed + d ELSE elapsed
    /\ UNCHANGED start

\* SimClock::tick: one NANOSECOND.
Tick == Advance(1)

Next ==
    \/ \E ts \in Timestamp : Set(ts)
    \/ \E d \in Duration : Advance(d)
    \/ Tick

Spec == Init /\ [][Next]_vars

-----------------------------------------------------------------------------
TypeOK ==
    /\ now \in Timestamp /\ start \in Timestamp
    /\ refused \in BOOLEAN
    /\ elapsed \in Nat

\* However often the clock is advanced, and however many of the calls fail half
\* way, it shows the instant it was set to plus all that it was advanced by.
NoDrift == now = start + elapsed

\* Only set takes a SimClock back (tick and advance never wrap).
OnlySetGoesBack == [][now' < now => start' = now' /\ elapsed' = 0]_vars

\* A timer at checked_add of now and a duration is never in the past, so send_at
\* takes it, and checked_sub undoes it; the other way round too.
TimersAreAhead ==
    \A d \in Duration :
        LET later == TsAdd(now, d)
            earlier == TsSub(now, d)
        IN  /\ later.ok => later.value >= now /\ TsSub(later.value, d) = Ok(now)
            /\ earlier.ok => earlier.value <= now /\ TsAdd(earlier.value, d) = Ok(now)

\* Waiting for two durations one after the other ends when waiting for their sum
\* does, as long as no step is refused; and what fits as a sum fits in steps.
WaitsAddUp ==
    \A d, e \in Duration :
        LET first == TsAdd(now, d)
            sum == DurAdd(d, e)
        IN  sum.ok =>
              /\ DurSub(sum.value, e) = Ok(d)
              /\ TsAdd(now, sum.value).ok =>
                    first.ok /\ TsAdd(first.value, e) = TsAdd(now, sum.value)

\* An instant that becomes a SystemTime comes back as itself; a SystemTime never
\* fails to become an instant, and comes back unless it is too far for a u64.
SystemTimeRoundTrip ==
    /\ ToSystem(now).ok =>
          ToSystem(now).value \in SystemTime /\ FromSystem(ToSystem(now).value) = now
    /\ \A s \in SystemTime :
          /\ FromSystem(s) \in Timestamp
          /\ FromSystem(s) \in -U64Max .. U64Max => ToSystem(FromSystem(s)) = Ok(s)

\* A later reading of the system clock than the one that gave this instant gives
\* a later instant (LiveClock::now).
SystemTimesKeepOrder ==
    \A s, u \in SystemTime :
        /\ FromSystem(s) = now
        /\ s.secs < u.secs \/ (s.secs = u.secs /\ s.nanos < u.nanos)
        => FromSystem(u) > now

\* The time waited, in whole seconds, is cut and never rounded up: back in
\* nanoseconds it always fits and is less than a second short. And whole seconds
\* come back as themselves.
SecondsRoundTrip ==
    /\ LET whole == FromSeconds(AsSecs(elapsed))
       IN  whole.ok /\ whole.value <= elapsed /\ elapsed < whole.value + NanosPerSec
    /\ \A n \in Duration : FromSeconds(n).ok => AsSecs(FromSeconds(n).value) = n

\* No conversion invents or loses time: between instants and the SystemTime of the
\* platform in both directions, in order, and between seconds and nanoseconds.
ConversionsAreFaithful == SystemTimeRoundTrip /\ SystemTimesKeepOrder /\ SecondsRoundTrip
=============================================================================

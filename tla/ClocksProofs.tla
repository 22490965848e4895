---------------------------- MODULE ClocksProofs ----------------------------
(***************************************************************************)
(* The arithmetic of time and the simulated clock for every width of the   *)
(* machine integers.                                                       *)
(***************************************************************************)
EXTENDS Clocks, TLAPS

LEMMA Widths == IMax \in Int /\ IMin \in Int /\ UMax \in Int /\ IMin = -IMax - 1 /\ UMax = 2 * IMax + 1 /\ IMax >= 0
BY WidthsAssumption DEF IMin, UMax

\* What checked_add returns, in the two cases it has.
LEMMA Added ==
    ASSUME NEW t \in Timestamp, NEW d \in Duration
    PROVE  /\ TsAdd(t, d).ok \in BOOLEAN
           /\ TsAdd(t, d).ok <=> t + d <= IMax /\ d <= IMax
           /\ TsAdd(t, d).ok => TsAdd(t, d) = Ok(t + d) /\ TsAdd(t, d).value = t + d
                                /\ t + d \in Timestamp
<1>1. CASE t + d <= IMax /\ d <= IMax
  <2>1. TsAdd(t, d) = Ok(t + d)
    BY <1>1 DEF TsAdd
  <2>2. t + d \in Timestamp
    BY <1>1, Widths DEF Timestamp, Duration
  <2>3. TsAdd(t, d).ok = TRUE /\ TsAdd(t, d).value = t + d
    BY <2>1 DEF Ok
  <2> QED
    BY <1>1, <2>1, <2>2, <2>3, Zenon
<1>2. CASE ~(t + d <= IMax /\ d <= IMax)
  <2>1. TsAdd(t, d) = Err("Overflow")
    BY <1>2 DEF TsAdd
  <2>2. TsAdd(t, d).ok = FALSE
    BY <2>1 DEF Err
  <2> QED
    BY <1>2, <2>2, Zenon
<1> QED
  BY <1>1, <1>2

\* What checked_sub returns.
LEMMA Subtracted ==
    ASSUME NEW t \in Timestamp, NEW d \in Duration
    PROVE  /\ TsSub(t, d).ok \in BOOLEAN
           /\ TsSub(t, d).ok <=> t - d >= IMin /\ d <= IMax
           /\ TsSub(t, d).ok => TsSub(t, d) = Ok(t - d) /\ TsSub(t, d).value = t - d
                                /\ t - d \in Timestamp
<1>1. CASE t - d >= IMin /\ d <= IMax
  <2>1. TsSub(t, d) = Ok(t - d)
    BY <1>1 DEF TsSub
  <2>2. t - d \in Timestamp
    BY <1>1, Widths DEF Timestamp, Duration
  <2>3. TsSub(t, d).ok = TRUE /\ TsSub(t, d).value = t - d
    BY <2>1 DEF Ok
  <2> QED
    BY <1>1, <2>1, <2>2, <2>3, Zenon
<1>2. CASE ~(t - d >= IMin /\ d <= IMax)
  <2>1. TsSub(t, d) = Err("Underflow")
    BY <1>2 DEF TsSub
  <2>2. TsSub(t, d).ok = FALSE
    BY <2>1 DEF Err
  <2> QED
    BY <1>2, <2>2, Zenon
<1> QED
  BY <1>1, <1>2

\* The clock only ever shows instants, and knows how it came there.
LEMMA ClockInv == Spec => [](TypeOK /\ NoDrift)
<1>1. Init => TypeOK /\ NoDrift
  <2> SUFFICES ASSUME Init PROVE TypeOK /\ NoDrift
    OBVIOUS
  <2>1. now \in Timestamp /\ start \in Timestamp /\ refused \in BOOLEAN
    BY DEF Init
  <2>2. elapsed \in Nat /\ now = start + elapsed
    BY <2>1, Widths DEF Init, Timestamp
  <2> QED
    BY <2>1, <2>2 DEF TypeOK, NoDrift
<1>2. TypeOK /\ NoDrift /\ [Next]_vars => (TypeOK /\ NoDrift)'
  <2> SUFFICES ASSUME TypeOK, NoDrift, [Next]_vars PROVE (TypeOK /\ NoDrift)'
    OBVIOUS
  <2>1. ASSUME NEW ts \in Timestamp, Set(ts) PROVE (TypeOK /\ NoDrift)'
    <3>1. now' \in Timestamp /\ start' \in Timestamp /\ refused' \in BOOLEAN
      BY <2>1 DEF Set
    <3>2. elapsed' \in Nat /\ now' = start' + elapsed'
      BY <2>1, Widths DEF Set, Timestamp
    <3> QED
      BY <3>1, <3>2 DEF TypeOK, NoDrift
  <2>2. ASSUME NEW d \in Duration, Advance(d) PROVE (TypeOK /\ NoDrift)'
    <3>1. now \in Timestamp /\ refused' = ~TsAdd(now, d).ok /\ start' = start
      BY <2>2 DEF Advance, TypeOK
    <3>2. refused' \in BOOLEAN
      BY <3>1, Added, Zenon
    <3>3. CASE TsAdd(now, d).ok
      <4>1. now' = now + d /\ elapsed' = elapsed + d /\ now + d \in Timestamp
        BY <2>2, <3>1, <3>3, Added, Zenon DEF Advance, Moved
      <4> QED
        BY <3>1, <3>2, <4>1, Widths DEF TypeOK, NoDrift, Timestamp, Duration
    <3>4. CASE ~TsAdd(now, d).ok
      <4>1. now' = now /\ elapsed' = elapsed
        BY <2>2, <3>4, Zenon DEF Advance, Moved
      <4> QED
        BY <3>1, <3>2, <4>1 DEF TypeOK, NoDrift
    <3> QED
      BY <3>3, <3>4
  <2>3. CASE Tick
    <3>1. 1 \in Duration
      BY Widths DEF Duration
    <3> QED
      BY <2>2, <2>3, <3>1 DEF Tick
  <2>4. CASE UNCHANGED vars
    BY <2>4 DEF vars, TypeOK, NoDrift
  <2> QED
    BY <2>1, <2>2, <2>3, <2>4 DEF Next
<1> QED
  BY <1>1, <1>2, PTL DEF Spec

\* TypeOK: the clock only ever shows instants.
THEOREM ClockTyping == Spec => []TypeOK
BY ClockInv, PTL

\* NoDrift: no sequence of calls, refused ones among them, makes the clock show
\* anything but where it was set plus what it was advanced by.
THEOREM ClockShowsElapsed == Spec => []NoDrift
BY ClockInv, PTL

\* Advancing never takes the clock back.
THEOREM NeverBackBySteps == Spec => OnlySetGoesBack
<1>1. TypeOK /\ [Next]_vars => [now' < now => start' = now' /\ elapsed' = 0]_vars
  <2> SUFFICES ASSUME TypeOK, Next, now' < now PROVE start' = now' /\ elapsed' = 0
    OBVIOUS
  <2>1. ASSUME NEW ts \in Timestamp, Set(ts) PROVE start' = now' /\ elapsed' = 0
    BY <2>1 DEF Set
  <2>2. ASSUME NEW d \in Duration, Advance(d) PROVE FALSE
    <3>1. now \in Timestamp
      BY DEF TypeOK
    <3>2. now' = now \/ now' = now + d
      BY <2>2, <3>1, Added, Zenon DEF Advance, Moved
    <3> QED
      BY <3>1, <3>2, Widths DEF Timestamp, Duration
  <2>3. 1 \in Duration
    BY Widths, WidthsAssumption DEF Duration
  <2> QED
    BY <2>1, <2>2, <2>3 DEF Next, Tick
<1>2. Spec => []TypeOK
  BY ClockInv, PTL
<1> QED
  BY <1>1, <1>2, PTL DEF Spec, OnlySetGoesBack

\* Timers lie ahead and can be undone, whatever the instant and the duration.
THEOREM AddAndSubAreInverse == Spec => []TimersAreAhead
<1>1. TypeOK => TimersAreAhead
  <2> SUFFICES ASSUME TypeOK, NEW d \in Duration
               PROVE  /\ TsAdd(now, d).ok =>
                            TsAdd(now, d).value >= now /\ TsSub(TsAdd(now, d).value, d) = Ok(now)
                      /\ TsSub(now, d).ok =>
                            TsSub(now, d).value <= now /\ TsAdd(TsSub(now, d).value, d) = Ok(now)
    BY DEF TimersAreAhead
  <2>1. now \in Timestamp /\ now \in Int /\ d \in Int /\ d >= 0 /\ IMin <= now /\ now <= IMax
    BY Widths DEF TypeOK, Timestamp, Duration
  <2>2. ASSUME TsAdd(now, d).ok
        PROVE  TsAdd(now, d).value >= now /\ TsSub(TsAdd(now, d).value, d) = Ok(now)
    <3>1. TsAdd(now, d).value = now + d /\ now + d \in Timestamp /\ d <= IMax
      BY <2>1, <2>2, Added
    <3>2. (now + d) - d = now /\ now + d >= now /\ (now + d) - d >= IMin
      BY <2>1, Widths
    <3>3. TsSub(now + d, d) = Ok(now)
      BY <3>1, <3>2 DEF TsSub
    <3> QED
      BY <3>1, <3>2, <3>3
  <2>3. ASSUME TsSub(now, d).ok
        PROVE  TsSub(now, d).value <= now /\ TsAdd(TsSub(now, d).value, d) = Ok(now)
    <3>1. TsSub(now, d).value = now - d /\ now - d \in Timestamp /\ d <= IMax
      BY <2>1, <2>3, Subtracted
    <3>2. (now - d) + d = now /\ now - d <= now /\ (now - d) + d <= IMax
      BY <2>1, Widths
    <3>3. TsAdd(now - d, d) = Ok(now)
      BY <3>1, <3>2 DEF TsAdd
    <3> QED
      BY <3>1, <3>2, <3>3
  <2> QED
    BY <2>2, <2>3
<1> QED
  BY <1>1, ClockInv, PTL

\* Waiting in two steps is waiting for the sum.
THEOREM StepsAddUp == Spec => []WaitsAddUp
<1>1. TypeOK => WaitsAddUp
  <2> SUFFICES ASSUME TypeOK, NEW d \in Duration, NEW e \in Duration, DurAdd(d, e).ok
               PROVE  /\ DurSub(DurAdd(d, e).value, e) = Ok(d)
                      /\ TsAdd(now, DurAdd(d, e).value).ok =>
                            /\ TsAdd(now, d).ok
                            /\ TsAdd(TsAdd(now, d).value, e) = TsAdd(now, DurAdd(d, e).value)
    BY DEF WaitsAddUp
  <2>1. /\ now \in Timestamp /\ now \in Int /\ d \in Int /\ e \in Int
        /\ d >= 0 /\ e >= 0 /\ IMin <= now /\ now <= IMax
    BY Widths DEF TypeOK, Timestamp, Duration
  <2>2. d + e <= UMax
    <3>1. CASE ~(d + e <= UMax)
      <4>1. DurAdd(d, e) = Err("Overflow")
        BY <3>1 DEF DurAdd
      <4> QED
        BY <4>1 DEF Err
    <3> QED
      BY <3>1
  <2>3. DurAdd(d, e).value = d + e /\ d + e \in Duration
    BY <2>1, <2>2, Widths DEF DurAdd, Ok, Duration
  <2>4. DurSub(d + e, e) = Ok(d)
    <3>1. e <= d + e /\ (d + e) - e = d
      BY <2>1
    <3> QED
      BY <3>1 DEF DurSub
  <2>5. ASSUME TsAdd(now, d + e).ok
        PROVE  TsAdd(now, d).ok /\ TsAdd(TsAdd(now, d).value, e) = TsAdd(now, d + e)
    <3>1. now + (d + e) <= IMax /\ d + e <= IMax /\ TsAdd(now, d + e) = Ok(now + (d + e))
      BY <2>1, <2>3, <2>5, Added
    <3>2. now + d <= IMax /\ d <= IMax /\ e <= IMax /\ (now + d) + e = now + (d + e)
      BY <2>1, <3>1, Widths
    <3>3. TsAdd(now, d).ok /\ TsAdd(now, d).value = now + d
      BY <2>1, <3>2, Added
    <3>4. TsAdd(now + d, e) = Ok(now + (d + e))
      BY <3>1, <3>2 DEF TsAdd
    <3> QED
      BY <3>1, <3>3, <3>4
  <2> QED
    BY <2>3, <2>4, <2>5
<1> QED
  BY <1>1, ClockInv, PTL

\* Instants keep the order of the system times they are made from.
THEOREM InstantsKeepOrder == Spec => []SystemTimesKeepOrder
<1>1. SystemTimesKeepOrder
  <2> SUFFICES ASSUME NEW s \in SystemTime, NEW u \in SystemTime,
                      s.secs < u.secs \/ (s.secs = u.secs /\ s.nanos < u.nanos)
               PROVE  FromSystem(s) < FromSystem(u)
    <3>1. ASSUME NEW s \in SystemTime, NEW u \in SystemTime, FromSystem(s) < FromSystem(u)
          PROVE  FromSystem(s) = now => FromSystem(u) > now
      <4>1. FromSystem(s) \in Int /\ FromSystem(u) \in Int
        BY WidthsAssumption DEF SystemTime, FromSystem
      <4> QED
        BY <3>1, <4>1
    <3> QED
      BY <3>1, Zenon DEF SystemTimesKeepOrder
  <2> DEFINE N == NanosPerSec
  <2>1. /\ N \in Int /\ N > 0 /\ s.secs \in Int /\ u.secs \in Int /\ s.nanos \in Int /\ u.nanos \in Int
        /\ 0 <= u.nanos /\ s.nanos < N
    BY WidthsAssumption DEF SystemTime
  <2>2. ASSUME NEW a \in Int, NEW b \in Int, a < b PROVE a * N + N <= b * N
    <3>1. b - a - 1 >= 0 /\ b - a - 1 \in Int
      BY <2>2
    <3>2. (b - a - 1) * N >= 0
      BY <2>1, <3>1
    <3> QED
      BY <2>1, <3>1, <3>2
  <2>3. CASE s.secs < u.secs
    <3> HIDE DEF N
    <3>1. s.secs * N + N <= u.secs * N
      BY <2>1, <2>2, <2>3
    <3>2. s.secs * N \in Int /\ u.secs * N \in Int
      BY <2>1
    <3>3. s.secs * N + s.nanos < u.secs * N + u.nanos
      BY <2>1, <3>1, <3>2
    <3> QED
      BY <3>3 DEF FromSystem, N
  <2>4. CASE s.secs = u.secs /\ s.nanos < u.nanos
    <3>1. s.secs * NanosPerSec \in Int
      BY <2>1
    <3> QED
      BY <2>1, <2>4, <3>1 DEF FromSystem
  <2> QED
    BY <2>3, <2>4
<1> QED
  BY <1>1, PTL

\* Seconds and nanoseconds since the epoch determine one number of nanoseconds,
\* negative ones included, and are determined by it.
LEMMA SplitAndJoin ==
    /\ \A n \in Int : /\ Since(n).secs \in Int /\ Since(n).nanos \in 0 .. NanosPerSec - 1
                      /\ FromSystem(Since(n)) = n
    /\ \A s \in SystemTime : FromSystem(s) \in Int /\ Since(FromSystem(s)) = s
<1>1. NanosPerSec \in Nat \ {0}
  BY WidthsAssumption
<1>2. ASSUME NEW n \in Int
      PROVE  /\ Since(n).secs \in Int /\ Since(n).nanos \in 0 .. NanosPerSec - 1
             /\ FromSystem(Since(n)) = n
  <2>1. (n \div NanosPerSec) \in Int /\ (n % NanosPerSec) \in 0 .. NanosPerSec - 1
    BY <1>1
  <2>2. n = (n \div NanosPerSec) * NanosPerSec + (n % NanosPerSec)
    BY <1>1
  <2> QED
    BY <2>1, <2>2 DEF Since, FromSystem
<1>3. ASSUME NEW s \in SystemTime
      PROVE  FromSystem(s) \in Int /\ Since(FromSystem(s)) = s
  <2>1. s.secs \in Int /\ s.nanos \in 0 .. NanosPerSec - 1
    BY <1>1, WidthsAssumption DEF SystemTime
  <2> DEFINE n == s.secs * NanosPerSec + s.nanos
  <2>2. n \in Int
    BY <1>1, <2>1
  <2>3. s.secs = n \div NanosPerSec /\ s.nanos = n % NanosPerSec
    <3>1. ASSUME NEW N \in Nat \ {0}, NEW m \in Int, NEW q \in Int, NEW r \in 0 .. N - 1, m = q * N + r
          PROVE  q = m \div N
      BY <3>1
    <3>2. s.secs = n \div NanosPerSec
      BY <1>1, <2>1, <2>2, <3>1
    <3>3. n = (n \div NanosPerSec) * NanosPerSec + (n % NanosPerSec)
      BY <1>1, <2>2
    <3>4. s.secs * NanosPerSec \in Int /\ n % NanosPerSec \in Int
      BY <1>1, <2>1, <2>2
    <3> QED
      BY <2>1, <3>2, <3>3, <3>4
  <2>4. s = [secs |-> s.secs, nanos |-> s.nanos]
    BY DEF SystemTime
  <2> QED
    BY <2>2, <2>3, <2>4 DEF FromSystem, Since
<1> QED
  BY <1>2, <1>3

\* Every instant within a u64 of nanoseconds of the epoch has a system time.
LEMMA NearInstants ==
    ASSUME NEW t \in -U64Max .. U64Max
    PROVE  Since(t) \in SystemTime /\ ToSystem(t) = Ok(Since(t))
<1> DEFINE N == NanosPerSec
<1> DEFINE q == t \div N
<1> DEFINE k == U64Max \div N
<1>1. /\ N \in Nat \ {0} /\ t \in Int /\ U64Max \in Nat /\ SecMax \in Nat /\ IMax \in Nat
      /\ N * (SecMax + 1) <= IMax /\ k < SecMax /\ -U64Max <= t /\ t <= U64Max
  BY WidthsAssumption
<1>2. q \in Int /\ k \in Int /\ (t % N) \in 0 .. N - 1 /\ (U64Max % N) \in 0 .. N - 1
  BY <1>1
<1>3. t = q * N + (t % N) /\ U64Max = k * N + (U64Max % N)
  BY <1>1
<1>4. ASSUME NEW a \in Int, NEW b \in Int, a < b PROVE a * N + N <= b * N
  <2>1. b - a - 1 >= 0 /\ b - a - 1 \in Int
    BY <1>4
  <2>2. (b - a - 1) * N >= 0
    BY <1>1, <2>1
  <2> QED
    BY <1>1, <2>1, <2>2
<1>5. q * N \in Int /\ k * N \in Int /\ (SecMax + 1) * N \in Int /\ (-SecMax - 1) * N \in Int
  BY <1>1, <1>2
<1>6. q <= SecMax
  <2> SUFFICES ASSUME k < q PROVE FALSE
    BY <1>1, <1>2
  <2>1. k * N + N <= q * N
    BY <1>2, <1>4
  <2> QED
    BY <1>1, <1>2, <1>3, <1>5, <2>1
<1>7. q >= -SecMax - 1
  <2> SUFFICES ASSUME q < -SecMax - 1 PROVE FALSE
    BY <1>1, <1>2
  <2>1. q * N + N <= (-SecMax - 1) * N
    BY <1>1, <1>2, <1>4
  <2>2. k * N + N <= SecMax * N /\ SecMax * N \in Int
    BY <1>1, <1>2, <1>4
  <2>3. (-SecMax - 1) * N = -(SecMax * N) - N
    BY <1>1
  <2> QED
    BY <1>1, <1>2, <1>3, <1>5, <2>1, <2>2, <2>3
<1>8. Since(t) \in SystemTime /\ Since(t).secs = q
  BY <1>1, <1>2, <1>6, <1>7 DEF Since, SystemTime
<1>9. t > IMin /\ ~(t > U64Max) /\ ~(-t > U64Max) /\ t # IMin
  <2>1. k * N + N <= SecMax * N /\ SecMax * N \in Int /\ N * (SecMax + 1) = SecMax * N + N
    BY <1>1, <1>2, <1>4
  <2> QED
    BY <1>1, <1>2, <1>3, <1>5, <2>1, Widths
<1>10. ~(Since(t).secs > SecMax) /\ ~(Since(t).secs < -SecMax - 1)
  BY <1>1, <1>2, <1>6, <1>7, <1>8
<1> QED
  BY <1>1, <1>8, <1>9, <1>10, Zenon DEF ToSystem

\* Conversions to and from the SystemTime of the platform lose nothing.
THEOREM SystemTimesRoundTrip == Spec => []SystemTimeRoundTrip
<1>1. ASSUME NEW t \in Timestamp, ToSystem(t).ok
      PROVE  t \in -U64Max .. U64Max
  <2> SUFFICES ASSUME t > U64Max \/ -t > U64Max PROVE FALSE
    BY Widths, WidthsAssumption DEF Timestamp
  <2>1. ToSystem(t) = Err("OutOfRange")
    BY Widths, WidthsAssumption DEF Timestamp, ToSystem
  <2> QED
    BY <1>1, <2>1 DEF Err
<1>2. ASSUME NEW s \in SystemTime PROVE FromSystem(s) \in Timestamp
  <2> DEFINE N == NanosPerSec
  <2>1. /\ N \in Nat \ {0} /\ SecMax \in Nat /\ IMax \in Nat /\ N * (SecMax + 1) <= IMax
        /\ s.secs \in -SecMax - 1 .. SecMax /\ s.nanos \in 0 .. N - 1
    BY WidthsAssumption DEF SystemTime
  <2>2. (SecMax - s.secs) * N >= 0 /\ (s.secs + SecMax + 1) * N >= 0
    BY <2>1
  <2>3. s.secs * N <= SecMax * N /\ s.secs * N >= -(SecMax * N) - N /\ N * (SecMax + 1) = SecMax * N + N
    BY <2>1, <2>2
  <2>4. s.secs * N \in Int /\ SecMax * N \in Int
    BY <2>1
  <2> QED
    BY <2>1, <2>3, <2>4, Widths DEF FromSystem, Timestamp
<1>3. TypeOK => SystemTimeRoundTrip
  <2> SUFFICES ASSUME TypeOK PROVE SystemTimeRoundTrip
    OBVIOUS
  <2>1. now \in Timestamp /\ now \in Int
    BY Widths DEF TypeOK, Timestamp
  <2>2. ASSUME ToSystem(now).ok
        PROVE  ToSystem(now).value \in SystemTime /\ FromSystem(ToSystem(now).value) = now
    <3>1. ToSystem(now) = Ok(Since(now)) /\ Since(now) \in SystemTime
      BY <1>1, <2>1, <2>2, NearInstants
    <3>2. ToSystem(now).value = Since(now)
      BY <3>1 DEF Ok
    <3> QED
      BY <2>1, <3>1, <3>2, SplitAndJoin
  <2>3. ASSUME NEW s \in SystemTime
        PROVE  /\ FromSystem(s) \in Timestamp
               /\ FromSystem(s) \in -U64Max .. U64Max => ToSystem(FromSystem(s)) = Ok(s)
    BY <1>2, <2>3, NearInstants, SplitAndJoin
  <2> QED
    BY <2>2, <2>3 DEF SystemTimeRoundTrip
<1> QED
  BY <1>3, ClockInv, PTL

\* Whole seconds survive the way to nanoseconds and back.
THEOREM SecondsSurvive == Spec => []SecondsRoundTrip
<1>1. ASSUME NEW n \in Duration, FromSeconds(n).ok
      PROVE  AsSecs(FromSeconds(n).value) = n
  <2>1. n \in Nat /\ NanosPerSec \in Nat \ {0}
    BY Widths, WidthsAssumption DEF Duration
  <2>2. FromSeconds(n) = Ok(n * NanosPerSec) \/ FromSeconds(n) = Err("Overflow")
    BY DEF FromSeconds, DurMul
  <2>3. FromSeconds(n).value = n * NanosPerSec
    BY <1>1, <2>2 DEF Ok, Err
  <2>4. n * NanosPerSec \in Int /\ n * NanosPerSec = n * NanosPerSec + 0
    BY <2>1
  <2>5. (n * NanosPerSec) \div NanosPerSec = n
    BY <2>1, <2>4
  <2> QED
    BY <2>3, <2>5 DEF AsSecs
<1>2. ASSUME TypeOK, NoDrift
      PROVE  LET whole == FromSeconds(AsSecs(elapsed))
             IN  whole.ok /\ whole.value <= elapsed /\ elapsed < whole.value + NanosPerSec
  <2> DEFINE q == elapsed \div NanosPerSec
  <2>1. elapsed \in Nat /\ elapsed <= UMax /\ NanosPerSec \in Nat \ {0}
    BY <1>2, Widths, WidthsAssumption DEF TypeOK, NoDrift, Timestamp
  <2>2. q \in Int /\ (elapsed % NanosPerSec) \in 0 .. NanosPerSec - 1
    BY <2>1
  <2>3. elapsed = q * NanosPerSec + (elapsed % NanosPerSec)
    BY <2>1
  <2>4. q * NanosPerSec \in Int
    BY <2>1, <2>2
  <2>5. q * NanosPerSec <= elapsed /\ elapsed < q * NanosPerSec + NanosPerSec
    BY <2>1, <2>2, <2>3, <2>4
  <2>6. q * NanosPerSec <= UMax
    BY <2>1, <2>4, <2>5, Widths
  <2>7. FromSeconds(AsSecs(elapsed)) = Ok(q * NanosPerSec)
    BY <2>6 DEF FromSeconds, DurMul, AsSecs
  <2>8. FromSeconds(AsSecs(elapsed)).ok /\ FromSeconds(AsSecs(elapsed)).value = q * NanosPerSec
    BY <2>7 DEF Ok
  <2> QED
    BY <2>5, <2>8
<1>3. TypeOK /\ NoDrift => SecondsRoundTrip
  BY <1>1, <1>2, Zenon DEF SecondsRoundTrip
<1> QED
  BY <1>3, ClockInv, PTL

\* All conversions together.
THEOREM NoTimeLost == Spec => []ConversionsAreFaithful
<1>1. Spec => [](SystemTimeRoundTrip /\ SystemTimesKeepOrder /\ SecondsRoundTrip)
  BY SystemTimesRoundTrip, InstantsKeepOrder, SecondsSurvive, PTL
<1> QED
  BY <1>1 DEF ConversionsAreFaithful
=============================================================================

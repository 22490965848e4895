-------------------------------- MODULE Time --------------------------------
(***************************************************************************)
(* Timestamps (i128 nanoseconds), durations (u128 nanoseconds), and the    *)
(* conversions to and from the SystemTime of the platform, with the widths *)
(* of the machine integers as parameters.                                  *)
(*                                                                         *)
(* An operator named X_Y stands before X and says how X might be wrong; no *)
(* action uses it.                                                         *)
(***************************************************************************)
EXTENDS Integers, Outcome

CONSTANTS
    IMax,           \* i128::MAX
    U64Max,         \* u64::MAX
    SecMax,         \* the i64::MAX of seconds of a SystemTime
    NanosPerSec     \* NANOS_PER_SEC

IMin == -IMax - 1
UMax == 2 * IMax + 1

ASSUME WidthsAssumption ==
    /\ IMax \in Nat /\ U64Max \in Nat /\ SecMax \in Nat
    /\ NanosPerSec \in Nat \ {0}
    /\ U64Max \div NanosPerSec < SecMax
    /\ NanosPerSec * (SecMax + 1) <= IMax

Timestamp == IMin .. IMax
Duration == 0 .. UMax
SystemTime == [secs : -SecMax - 1 .. SecMax, nanos : 0 .. NanosPerSec - 1]

TimeErrors == {"Overflow", "Underflow", "OutOfRange"}

-----------------------------------------------------------------------------
\* Timestamp::checked_add: the duration is narrowed to i128 first.
TsAdd_Wrapped(t, d) ==
    LET n == IF d <= IMax THEN d ELSE d - UMax - 1 IN
    IF t + n \in Timestamp THEN Ok(t + n) ELSE Err("Overflow")
TsAdd(t, d) == IF d <= IMax /\ t + d <= IMax THEN Ok(t + d) ELSE Err("Overflow")

\* Timestamp::checked_sub
TsSub_Saturated(t, d) == Ok(IF t - d >= IMin THEN t - d ELSE IMin)
TsSub(t, d) == IF d <= IMax /\ t - d >= IMin THEN Ok(t - d) ELSE Err("Underflow")

\* Duration::checked_add, checked_sub, checked_mul
DurAdd(d, e) == IF d + e <= UMax THEN Ok(d + e) ELSE Err("Overflow")
DurSub(d, e) == IF e <= d THEN Ok(d - e) ELSE Err("Underflow")
DurMul(d, n) == IF d * n <= UMax THEN Ok(d * n) ELSE Err("Overflow")

\* Duration::from_seconds, as_secs
FromSeconds(n) == DurMul(n, NanosPerSec)
AsSecs(d) == d \div NanosPerSec

\* A SystemTime is seconds and nanoseconds since the epoch; before it the seconds
\* are negative and the nanoseconds still count upwards.
Since(n) == [secs |-> n \div NanosPerSec, nanos |-> n % NanosPerSec]

\* From<SystemTime> for Timestamp
FromSystem(s) == s.secs * NanosPerSec + s.nanos

\* TryFrom<Timestamp> for SystemTime: the distance from the epoch goes through a
\* std Duration made from a u64 of nanoseconds.
ToSystem_Narrowed(t) == Ok(Since(IF t > U64Max THEN t % (U64Max + 1) ELSE t))
ToSystem(t) ==
    IF t >= 0
      THEN IF t > U64Max THEN Err("OutOfRange")
           ELSE IF Since(t).secs > SecMax THEN Err("Overflow") ELSE Ok(Since(t))
      ELSE IF t = IMin \/ -t > U64Max THEN Err("OutOfRange")
           ELSE IF Since(t).secs < -SecMax - 1 THEN Err("Underflow") ELSE Ok(Since(t))
=============================================================================

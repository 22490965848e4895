------------------------------ MODULE TimeTests -----------------------------
(***************************************************************************)
(* The unit tests of duration.rs, timestamp.rs and sim.rs, a table for     *)
(* each group of them; a row is what one assertion says. The three factors *)
(* of 1000 between a nanosecond and a second are Thousand, and a literal   *)
(* is written with the same unit as in the test or shortened.              *)
(***************************************************************************)
EXTENDS Time, SequencesExt

CONSTANTS Thousand      \* 1000

Micro == Thousand
Milli == Thousand * Micro
Second == NanosPerSec
Minute == 60 * Second
Hour == 60 * Minute
Day == 24 * Hour
Week == 7 * Day

\* A call and what the test expects of it: <<x, op, y, result>>.
Call(x, op, y) ==
    CASE op = "plus"         -> DurAdd(x, y)
      [] op = "minus"        -> DurSub(x, y)
      [] op = "times"        -> DurMul(x, y)
      [] op = "from_seconds" -> FromSeconds(x)
      [] op = "as_secs"      -> Ok(AsSecs(x))
      [] op = "before"       -> Ok(x < y)
      [] op = "later by"     -> TsAdd(x, y)
      [] op = "earlier by"   -> TsSub(x, y)
      [] op = "there and back" -> TsSub(TsAdd(x, y).value, y)
      [] op = "back and there" -> TsAdd(TsSub(x, y).value, y)
      [] op = "to and from SystemTime" ->
            IF ToSystem(x).ok THEN Ok(FromSystem(ToSystem(x).value)) ELSE ToSystem(x)
      [] op = "from SystemTime" -> Ok(FromSystem(Since(x)))
Expected(row) == Call(row[1], row[2], row[3]) = row[4]

Ascending(s) == {<<s[i], "before", s[i + 1], Ok(TRUE)>> : i \in 1 .. Len(s) - 1}

-----------------------------------------------------------------------------
ConstantTests ==
    Ascending(<<0, 1, Micro, Milli, Second, Minute, Hour, Day, Week>>)
    \cup {<<Second, "times", 60, Ok(Minute)>>, <<Minute, "times", 60, Ok(Hour)>>,
          <<Hour, "times", 24, Ok(Day)>>, <<Day, "times", 7, Ok(Week)>>}

SecondsTests ==
    {<<x, "as_secs", 0, Ok(0)>> : x \in {0, 4, Second \div 2, Second - 1}}
    \cup {<<Second, "as_secs", 0, Ok(1)>>, <<5 * Second + Second \div 2, "as_secs", 0, Ok(5)>>,
          <<0, "from_seconds", 0, Ok(0)>>, <<1, "from_seconds", 0, Ok(Second)>>}
    \cup {<<x, "from_seconds", 0, Err("Overflow")>> : x \in {UMax, UMax \div Second + 1}}
    \cup {<<x, "from_seconds", 0, Ok(x * Second)>> :
             x \in {Second, UMax \div Second}}

SecondsRoundTripTests ==
    {<<x, "from_seconds", 0, Ok(x * Second)>> : x \in {0, 1, 42, Thousand, Thousand * Thousand}}
    \cup {<<5 * Second + 3 * (Second \div 4), "as_secs", 0, Ok(5)>>,
          <<Second * Second + Second \div 2, "as_secs", 0, Ok(Second)>>,
          <<UMax, "as_secs", 0, Ok(UMax \div Second)>>}

MulTests ==
    {<<d, "times", 0, Ok(0)>> : d \in {1, Second, Day}}
    \cup {<<d, "times", 1, Ok(d)>> : d \in {0, 1, Second, Week}}
    \cup {<<Second, "times", 5, Ok(5 * Second)>>, <<Milli, "times", 3600 * Thousand, Ok(Hour)>>,
          <<Second, "times", UMax, Err("Overflow")>>,
          <<UMax \div 2 + 1, "times", 2, Err("Overflow")>>,
          <<UMax \div 2, "times", 2, Ok(UMax - 1)>>}

AddTests ==
    {<<d, "plus", 0, Ok(d)>> : d \in {0, 1, Second, UMax}}
    \cup {<<0, "plus", Minute, Ok(Minute)>>, <<100, "plus", 200, Ok(300)>>,
          <<Second, "plus", Minute, Ok(61 * Second)>>, <<UMax, "plus", 1, Err("Overflow")>>}
    \cup {<<d + e, "minus", e, Ok(d)>> : d \in {0, 100, 1000}, e \in {50, 30, 1}}
    \cup {<<d, "plus", e, DurAdd(e, d)>> :
             d \in {0, 1, 100, Second, UMax \div 2}, e \in {0, 1, 50, Second}}

SubTests ==
    {<<d, "minus", 0, Ok(d)>> : d \in {0, 1, Second, UMax}}
    \cup {<<d, "minus", d, Ok(0)>> : d \in {0, 1, Second, UMax}}
    \cup {<<500, "minus", 200, Ok(300)>>, <<Minute, "minus", Second, Ok(59 * Second)>>,
          <<Second, "minus", Minute, Err("Underflow")>>, <<0, "minus", 1, Err("Underflow")>>}
    \cup {<<d - e, "plus", e, Ok(d)>> : d \in {200, 1000}, e \in {30, 0}}

-----------------------------------------------------------------------------
LaterTests ==
    {<<t, "later by", 0, Ok(t)>> : t \in {0, -50, 100, IMin, IMax}}
    \cup {<<0, "later by", 50, Ok(50)>>, <<-100, "later by", 30, Ok(-70)>>,
          <<-50, "later by", 100, Ok(50)>>, <<-100, "later by", 100, Ok(0)>>,
          <<Second, "later by", Second, Ok(2 * Second)>>, <<IMax, "later by", 1, Err("Overflow")>>,
          <<0, "later by", IMax + 1, Err("Overflow")>>, <<0, "later by", IMax, Ok(IMax)>>}
    \cup {<<p[1], "there and back", p[2], Ok(p[1])>> :
             p \in {<<0, 0>>, <<0, 50>>, <<100, 30>>, <<-50, 20>>, <<Second, Second \div 2>>}}

EarlierTests ==
    {<<t, "earlier by", 0, Ok(t)>> : t \in {0, -50, 100, IMin, IMax}}
    \cup {<<100, "earlier by", 30, Ok(70)>>, <<50, "earlier by", 100, Ok(-50)>>,
          <<100, "earlier by", 100, Ok(0)>>, <<-50, "earlier by", 50, Ok(-100)>>,
          <<2 * Minute, "earlier by", Minute, Ok(Minute)>>,
          <<IMin, "earlier by", 1, Err("Underflow")>>,
          <<0, "earlier by", IMax + 1, Err("Underflow")>>}
    \cup {<<p[1], "back and there", p[2], Ok(p[1])>> : p \in {<<200, 30>>, <<1000, 999>>, <<-10, 50>>}}

SystemTimeTests ==
    {<<t, "to and from SystemTime", 0, Ok(t)>> :
        t \in {0, 5 * Second, Thousand * Second, -1, -5 * Second, -Micro}}
    \cup {<<t, "to and from SystemTime", 0, Err("OutOfRange")>> : t \in {IMax, IMin, -U64Max - 1}}
    \cup {<<t, "from SystemTime", 0, Ok(t)>> : t \in {0, -5 * Second}}

InstantOrderTests == Ascending(<<-200, -100, -50, 0, 100>>)

-----------------------------------------------------------------------------
\* SimClock, a call after the other: <<start, calls, now at the end, last call refused>>.
At(t) == INSTANCE Clocks WITH now <- t, refused <- FALSE, start <- t, elapsed <- 0

Set(t) == [call |-> "set", to |-> t]
Advance(d) == [call |-> "advance", by |-> d]
Tick == Advance(1)

After(c, step) ==
    IF step.call = "set" THEN [now |-> step.to, refused |-> FALSE]
    ELSE [now |-> At(c.now)!Moved(step.by), refused |-> ~TsAdd(c.now, step.by).ok]
Shown(row) ==
    FoldLeft(After, [now |-> row[1], refused |-> FALSE], row[2])
        = [now |-> row[3], refused |-> row[4]]

SetTests ==
    {<<t, <<>>, t, FALSE>> : t \in {0, 1, Second, IMax, -1, -Second, IMin}}
    \cup {<<0, <<Set(t)>>, t, FALSE>> : t \in {0, -50, 100, IMax, IMin}}
    \cup {<<42, <<Set(99), Set(99)>>, 99, FALSE>>, <<0, <<Set(100), Set(-50), Set(7)>>, 7, FALSE>>}

TickTests ==
    {<<t, <<Tick>>, t + 1, FALSE>> : t \in {0, Second, -100, IMin, IMax - 1}}
    \cup {<<0, [i \in 1 .. n |-> Tick], n, FALSE>> : n \in 1 .. 5}
    \cup {<<-2, [i \in 1 .. n |-> Tick], n - 2, FALSE>> : n \in 1 .. 3}
    \cup {<<IMax, <<Tick>>, IMax, TRUE>>, <<IMax - 1, <<Tick, Tick>>, IMax, TRUE>>}

AdvanceTests ==
    {<<t, <<Advance(0)>>, t, FALSE>> : t \in {0, -50, 100, IMax}}
    \cup {<<0, <<Advance(d)>>, d, FALSE>> : d \in {1, Micro, Milli, Second, Minute, IMax}}
    \cup {<<-500, <<Advance(200)>>, -300, FALSE>>, <<-50, <<Advance(100)>>, 50, FALSE>>,
          <<0, <<Advance(Milli), Advance(Second), Advance(Minute)>>, Milli + Second + Minute, FALSE>>,
          <<0, <<Advance(Second), Tick, Tick, Advance(500)>>, Second + 502, FALSE>>,
          <<IMax, <<Advance(1)>>, IMax, TRUE>>, <<0, <<Advance(IMax + 1)>>, 0, TRUE>>,
          <<IMax - 1000, <<Advance(1000)>>, IMax, FALSE>>,
          <<IMax - 1000, <<Advance(1000), Advance(1)>>, IMax, TRUE>>}

SequenceTests ==
    {<<100, <<Advance(IMax)>>, 100, TRUE>>, <<IMin, <<Advance(1)>>, IMin + 1, FALSE>>}
    \cup {<<t, <<Advance(d)>>, t + d, FALSE>> : t \in {0, IMin}, d \in {Hour, Day}}
    \cup {<<10 * Thousand,
            <<Tick, Advance(Second), Tick, Advance(Milli), Set(0), Advance(3), Tick>>, 4, FALSE>>,
          <<IMax, <<Tick, Set(0), Tick>>, 1, FALSE>>,
          <<IMax, <<Advance(1), Set(0), Advance(Second)>>, Second, FALSE>>}
=============================================================================

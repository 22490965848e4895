------------------------------ MODULE Amounts -------------------------------
(***************************************************************************)
(* A price or a quantity and what its owner does to it: the checked        *)
(* arithmetic of Decimal, with the sign check of Quantity, division digit  *)
(* by digit, and reading it from a text.                                   *)
(*                                                                         *)
(* An operator named X_Y stands before X and says how X might be wrong; no *)
(* action uses it.                                                         *)
(***************************************************************************)
EXTENDS DecimalText

CONSTANTS
    Operands,   \* the decimals that are added, subtracted, ...
    TypedChars, \* the characters that are typed
    MaxTyped    \* bound: the longest text

ASSUME OperandsAssumption == Operands \subseteq Decimals /\ TypedChars \subseteq Chars

VARIABLES
    kind,       \* "price" or "quantity"
    held,       \* the amount
    divisor,    \* what it is being divided by, Zero outside of div
    work,       \* the division in progress
    reader,     \* what from_str has made of the text it is reading
    typed       \* history: the characters it has read

vars == <<kind, held, divisor, work, reader, typed>>

NoWork == [quot |-> 0, rem |-> 0, digits |-> 0]
Works == [quot : 0 .. UMax, rem : 0 .. UMax, digits : 0 .. MaxScale]

\* Price takes every decimal, Quantity those that are not negative.
Checked_Unsigned(r) == r
Checked(r) == IF r.ok /\ kind = "quantity" /\ r.value.sign = -1 THEN Err("Negative") ELSE r

\* The owner keeps what it had when a call fails.
Keep(r) == held' = IF Checked(r).ok THEN Checked(r).value ELSE held

Idle == divisor = Zero /\ typed = <<>>
Operand(y) == y \in Operands /\ (kind = "quantity" => y.sign # -1)

Init ==
    /\ kind \in {"price", "quantity"}
    /\ held = Zero
    /\ divisor = Zero /\ work = NoWork
    /\ reader = Unread /\ typed = <<>>

\* Price::new, Quantity::new
Create(y) == y \in Operands /\ Keep(Ok(y))

\* checked_add, checked_sub, checked_mul
Plus(y) == Operand(y) /\ Keep(Add(held, y))
Less(y) == Operand(y) /\ Keep(Sub(held, y))
Times(y) == Operand(y) /\ Keep(Mul(held, y))

\* new(as_decimal().normalized())
Normalize == Keep(Ok(Normalized(held)))

Change ==
    /\ Idle
    /\ \/ \E y \in Operands : Create(y) \/ Plus(y) \/ Less(y) \/ Times(y)
       \/ Normalize
    /\ UNCHANGED <<kind, divisor, work, reader, typed>>

-----------------------------------------------------------------------------
\* checked_div up to the loop: 0 divided by anything else is 0, and a division by 0
\* fails.
StartDiv(y) ==
    /\ Operand(y) /\ Idle
    /\ y.sign # 0 /\ held.sign # 0
    /\ divisor' = y
    /\ work' = DivStart(held, y)
    /\ UNCHANGED <<kind, held, reader, typed>>

DivDigit ==
    /\ divisor # Zero /\ MoreDigits(work)
    /\ LET next == NextDigit(work, divisor) IN
       /\ work' = IF next.ok THEN next.value ELSE NoWork
       /\ divisor' = IF next.ok THEN divisor ELSE Zero
    /\ UNCHANGED <<kind, held, reader, typed>>

EndDiv ==
    /\ divisor # Zero /\ ~MoreDigits(work)
    /\ Keep(DivEnd(work, held, divisor))
    /\ divisor' = Zero /\ work' = NoWork
    /\ UNCHANGED <<kind, reader, typed>>

-----------------------------------------------------------------------------
\* from_str, a character at a time; it makes a new amount, so the owner has none yet.
Reading == held = Zero /\ divisor = Zero

ReadSign ==
    /\ Reading /\ typed = <<>>
    /\ reader' = Minused /\ typed' = <<Minus>>
    /\ UNCHANGED <<kind, held, divisor, work>>

\* One turn of the loop, which an error leaves.
ReadNext(c) ==
    /\ Reading /\ Len(typed) < MaxTyped
    /\ ~(typed = <<>> /\ c = Minus)
    /\ LET r == ReadChar(reader, c) IN
       /\ reader' = IF r.error = "none" THEN r ELSE Unread
       /\ typed' = IF r.error = "none" THEN Append(typed, c) ELSE <<>>
    /\ UNCHANGED <<kind, held, divisor, work>>

EndRead ==
    /\ Reading
    /\ Keep(ReadEnd(reader))
    /\ reader' = Unread /\ typed' = <<>>
    /\ UNCHANGED <<kind, divisor, work>>

Next ==
    \/ Change
    \/ \E y \in Operands : StartDiv(y)
    \/ DivDigit
    \/ EndDiv
    \/ ReadSign
    \/ \E c \in TypedChars : ReadNext(c)
    \/ EndRead

Spec == Init /\ [][Next]_vars

-----------------------------------------------------------------------------
\* A decimal in units of 10^-MAX_SCALE: what it stands for, as an integer.
Units(x) == x.sign * x.inner * Pow10[MaxScale - x.scale]

\* Division of integers that rounds towards 0.
Truncated(n, d) ==
    LET q == (IF n < 0 THEN -n ELSE n) \div (IF d < 0 THEN -d ELSE d) IN
    IF (n < 0) = (d < 0) THEN q ELSE -q

\* Every amount is canonical: 0 has no sign and no scale, nothing else has sign 0.
TypeOK ==
    /\ kind \in {"price", "quantity"}
    /\ held \in Decimals
    /\ divisor \in Decimals
    /\ work \in Works
    /\ reader \in Readers /\ typed \in Seq(Chars)

\* A quantity is never negative, whatever is done to it or read into it.
QuantityNeverNegative == kind = "quantity" => held.sign # -1

\* Sums and differences are exact if they are not refused: bringing both sides to
\* one scale loses nothing, and nothing wraps.
SumsAreExact ==
    \A y \in Operands :
        /\ Add(held, y).ok => Units(Add(held, y).value) = Units(held) + Units(y)
        /\ Sub(held, y).ok => Units(Sub(held, y).value) = Units(held) - Units(y)

\* A product is the exact product cut off behind MAX_SCALE decimal places: dropping
\* trailing zeros first changes nothing, no product is rounded up, none is off by one.
ProductsTruncate ==
    \A y \in Operands :
        Mul(held, y).ok =>
            Units(Mul(held, y).value) = Truncated(Units(held) * Units(y), Pow10[MaxScale])

\* A quotient is the exact quotient cut off behind MAX_SCALE decimal places, or behind
\* as many fewer as the divisor has more than the dividend.
QuotientsTruncate ==
    LET z == DivEnd(work, held, divisor)
        lost == Pow10[IF divisor.scale > held.scale THEN divisor.scale - held.scale ELSE 0]
    IN  divisor # Zero /\ ~MoreDigits(work) /\ z.ok =>
            Units(z.value) =
                lost * Truncated(Units(held) * Pow10[MaxScale], Units(divisor) * lost)

\* The order is the order of numbers, for any two scales, even where the numbers to
\* compare do not fit. Equality and hashing are those of numbers too, so a map finds
\* an amount again whatever its trailing zeros.
ComparesAsNumbers ==
    \A y \in Operands :
        /\ Cmp(held, y) = SignOf(Units(held) - Units(y))
        /\ EqualTo(held, y) <=> Units(held) = Units(y)
        /\ HashKey(held) = HashKey(y) <=> Units(held) = Units(y)

\* What is written is read back as it was, scale and trailing zeros included.
RoundTrip == FromStr(Display(held)) = Ok(held)

\* What is read is written back as it was, but for a missing 0 before the point and
\* the zeros of 0.
ReadsFaithfully ==
    ReadEnd(reader).ok =>
        LET x == ReadEnd(reader).value
            point == IF Head(typed) = Minus THEN 2 ELSE 1
        IN  \/ x = Zero
            \/ Display(x) = typed
            \/ typed[point] = Dot /\ Display(x) = InsertAt(typed, point, 0)
=============================================================================

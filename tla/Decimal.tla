------------------------------ MODULE Decimal -------------------------------
(***************************************************************************)
(* Decimal: inner * 10^-scale with a sign, inner in a machine integer      *)
(* (u128), scale at most MAX_SCALE. The width, the maximal scale and the   *)
(* table of powers of ten are parameters; every checked operation of the   *)
(* integers has its error.                                                 *)
(*                                                                         *)
(* An operator named X_Y stands before X and says how X might be wrong; it *)
(* is not used.                                                            *)
(***************************************************************************)
EXTENDS Integers, SequencesExt, Outcome

CONSTANTS
    UMax,       \* u128::MAX
    MaxScale,   \* Decimal::MAX_SCALE
    Pow10       \* the powers of ten up to 10^MAX_SCALE, which are all that fit

ASSUME PowersAssumption ==
    /\ UMax \in Nat /\ MaxScale \in Nat \ {0}
    /\ Pow10 \in [0 .. MaxScale -> Nat \ {0}]
    /\ Pow10[0] = 1 /\ Pow10[1] = 10
    /\ \A m, n \in 0 .. MaxScale : m + n <= MaxScale => Pow10[m + n] = Pow10[m] * Pow10[n]
    /\ Pow10[MaxScale] <= UMax /\ UMax \div 10 < Pow10[MaxScale]

\* Sign::Negative, Zero and Positive are -1, 0 and 1.
Zero == [inner |-> 0, scale |-> 0, sign |-> 0]
Decimals == {Zero} \cup [inner : 1 .. UMax, scale : 0 .. MaxScale, sign : {-1, 1}]

DecimalErrors == {"Overflow", "DivisionByZero", "ScaleOverflow", "MismatchedSign", "InvalidFormat"}

-----------------------------------------------------------------------------
\* u128::checked_mul and checked_add
CheckedMul(a, b) == IF b = 0 \/ a <= UMax \div b THEN Ok(a * b) ELSE Err("Overflow")
CheckedAdd(a, b) == IF a <= UMax - b THEN Ok(a + b) ELSE Err("Overflow")

\* strip_trailing_zeros, for a number that is not 0: the zeros its scale allows to
\* drop; a u128 ends in at most MAX_SCALE of them.
ZerosDropped(inner, scale) ==
    Max({j \in 0 .. Min({scale, MaxScale}) : inner % Pow10[j] = 0})
Strip(inner, scale) ==
    LET j == ZerosDropped(inner, scale) IN
    [inner |-> inner \div Pow10[j], scale |-> scale - j]

\* normalized_parts, normalized
NormalizedParts(x) == IF x.sign = 0 THEN [inner |-> 0, scale |-> 0] ELSE Strip(x.inner, x.scale)
Normalized(x) ==
    [inner |-> NormalizedParts(x).inner, scale |-> NormalizedParts(x).scale, sign |-> x.sign]

FromRaw_SignedZero(inner, scale, sign) ==
    IF scale > MaxScale THEN Err("ScaleOverflow")
    ELSE IF sign = 0 /\ inner # 0 THEN Err("MismatchedSign")
    ELSE Ok([inner |-> inner, scale |-> scale, sign |-> sign])
FromRaw(inner, scale, sign) ==
    IF scale > MaxScale THEN Err("ScaleOverflow")
    ELSE IF sign = 0 /\ inner # 0 THEN Err("MismatchedSign")
    ELSE IF inner = 0 THEN Ok(Zero)
    ELSE Ok([inner |-> inner, scale |-> scale, sign |-> sign])

RescaleUp(inner, from, to) == CheckedMul(inner, Pow10[to - from])

-----------------------------------------------------------------------------
\* add: both are brought to the larger scale first.
AddAligned_FirstSign(a, b, scale, x, y) ==
    IF x.sign # y.sign THEN FromRaw(Max({a - b, b - a}), scale, x.sign)
    ELSE IF CheckedAdd(a, b).ok THEN FromRaw(a + b, scale, x.sign) ELSE Err("Overflow")
AddAligned(a, b, scale, x, y) ==
    IF x.sign # y.sign
      THEN IF a >= b THEN FromRaw(a - b, scale, x.sign) ELSE FromRaw(b - a, scale, y.sign)
    ELSE IF CheckedAdd(a, b).ok THEN FromRaw(a + b, scale, x.sign) ELSE Err("Overflow")
Add(x, y) ==
    LET scale == Max({x.scale, y.scale})
        a == RescaleUp(x.inner, x.scale, scale)
        b == RescaleUp(y.inner, y.scale, scale)
    IN  IF x.sign = 0 THEN Ok(y)
        ELSE IF y.sign = 0 THEN Ok(x)
        ELSE IF a.ok /\ b.ok THEN AddAligned(a.value, b.value, scale, x, y)
        ELSE Err("Overflow")

Negated(x) == [x EXCEPT !.sign = -x.sign]
Sub(x, y) == Add(x, Negated(y))

\* mul: excess scale goes, as trailing zeros if it can, else the last digits do.
FitScale_Rounded(inner, scale, sign) ==
    IF scale <= MaxScale THEN FromRaw(inner, scale, sign)
    ELSE FromRaw((inner + Pow10[scale - MaxScale] \div 2) \div Pow10[scale - MaxScale],
                 MaxScale, sign)
FitScale(inner, scale, sign) ==
    IF scale <= MaxScale THEN FromRaw(inner, scale, sign)
    ELSE FromRaw(inner \div Pow10[scale - MaxScale], MaxScale, sign)
Mul(x, y) ==
    LET product == CheckedMul(x.inner, y.inner)
        scale == x.scale + y.scale
        stripped == Strip(product.value, scale)
    IN  IF x.sign = 0 \/ y.sign = 0 THEN Ok(Zero)
        ELSE IF ~product.ok THEN product
        ELSE IF scale <= MaxScale THEN FromRaw(product.value, scale, x.sign * y.sign)
        ELSE FitScale(stripped.inner, stripped.scale, x.sign * y.sign)

-----------------------------------------------------------------------------
\* div, before, in, and after its loop. A division in progress is a quotient of
\* so many digits after the point and a remainder.
DivStart(x, y) == [quot |-> x.inner \div y.inner, rem |-> x.inner % y.inner, digits |-> 0]

MoreDigits_OneShort(w) == w.rem > 0 /\ w.digits < MaxScale - 1
MoreDigits(w) == w.rem > 0 /\ w.digits < MaxScale

NextDigit(w, y) ==
    LET rem == CheckedMul(w.rem, 10)
        quot == CheckedMul(w.quot, 10)
    IN  IF /\ rem.ok /\ quot.ok
           /\ CheckedAdd(quot.value, rem.value \div y.inner).ok
          THEN Ok([quot |-> quot.value + rem.value \div y.inner,
                   rem |-> rem.value % y.inner, digits |-> w.digits + 1])
        ELSE Err("Overflow")

DivEnd(w, x, y) ==
    LET sign == x.sign * y.sign
        lifted == RescaleUp(w.quot, x.scale, y.scale)
        scale == w.digits + (x.scale - y.scale)
    IN  IF y.scale < x.scale THEN FitScale(w.quot, scale, sign)
        ELSE IF lifted.ok THEN FromRaw(lifted.value, w.digits, sign)
        ELSE lifted

-----------------------------------------------------------------------------
SignOf(n) == IF n < 0 THEN -1 ELSE IF n > 0 THEN 1 ELSE 0

\* cmp_magnitude: the numbers a * 10^bs and b * 10^as decide; if one of them does
\* not fit it is the larger one, and if neither does, as and bs are made smaller.
CmpMagnitude_Unreduced(x, y) ==
    LET a == Strip(x.inner, x.scale)
        b == Strip(y.inner, y.scale)
        av == CheckedMul(a.inner, Pow10[b.scale])
        bv == CheckedMul(b.inner, Pow10[a.scale])
    IN  IF av.ok /\ bv.ok THEN SignOf(av.value - bv.value)
        ELSE IF bv.ok THEN 1 ELSE IF av.ok THEN -1 ELSE SignOf(a.inner - b.inner)
CmpScaled(a, i, b, j) ==
    LET av == CheckedMul(a, Pow10[i])
        bv == CheckedMul(b, Pow10[j])
    IN  IF av.ok /\ bv.ok THEN SignOf(av.value - bv.value) ELSE IF bv.ok THEN 1 ELSE -1
CmpMagnitude(x, y) ==
    LET a == Strip(x.inner, x.scale)
        b == Strip(y.inner, y.scale)
        reduce == Min({a.scale, b.scale})
    IN  IF CheckedMul(a.inner, Pow10[b.scale]).ok \/ CheckedMul(b.inner, Pow10[a.scale]).ok
          THEN CmpScaled(a.inner, b.scale, b.inner, a.scale)
        ELSE CmpScaled(a.inner, b.scale - reduce, b.inner, a.scale - reduce)

\* Ord, as -1, 0 and 1
Cmp(x, y) ==
    IF x.sign # y.sign THEN SignOf(x.sign - y.sign)
    ELSE IF x.sign = 0 THEN 0
    ELSE x.sign * CmpMagnitude(x, y)

\* PartialEq
EqualTo(x, y) == x.sign = y.sign /\ NormalizedParts(x) = NormalizedParts(y)

\* What Hash feeds to the hasher
HashKey_Raw(x) == <<x.inner, x.scale, x.sign>>
HashKey(x) == <<NormalizedParts(x).inner, NormalizedParts(x).scale, x.sign>>
=============================================================================
